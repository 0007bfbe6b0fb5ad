---------------------------- MODULE IntegrityGuard ----------------------------
(***************************************************************************)
(* The IntegrityGuard (city/integrity.py), asked by several threads.  A    *)
(* digest stands for the data it was made of.  verify() reads the stored   *)
(* digest under the lock, judges without it, takes the lock again to       *)
(* store a first digest or a violation, and writes to the ledger last.     *)
(***************************************************************************)
EXTENDS Naturals, Sequences, FiniteSets

CONSTANTS Checks,    \* the calls of verify() and snapshot()
          Labels,
          Data,      \* what the calls bring
          NoDigest

ASSUME GuardAssumption == NoDigest \notin Data

VARIABLES
  checksums,
  violations, \* _violations, by the call that added them
  verdicts,   \* the ledger's integrity entries, by the call that made them
  check,      \* where a call stands
  approved,   \* the data verify() called good since the last snapshot()
  raced       \* labels whose first digest a second call of verify() replaced

guardVars == <<checksums, violations, verdicts, check, approved, raced>>

GuardInit ==
  /\ checksums = [l \in Labels |-> NoDigest]
  /\ violations = << >> /\ verdicts = << >>
  /\ check = [c \in Checks |-> [at |-> "idle"]]
  /\ approved = [l \in Labels |-> {}]
  /\ raced = {}

Checked(c, at) == check' = [check EXCEPT ![c].at = at]

----------------------------------------------------------------------------
Snapshot(c, l, d) ==
  /\ check[c].at = "idle"
  /\ checksums' = [checksums EXCEPT ![l] = d]
  /\ approved' = [approved EXCEPT ![l] = {}]
  /\ raced' = raced \ {l}
  /\ Checked(c, "ended")
  /\ UNCHANGED <<violations, verdicts>>

\* verify() finds a digest to compare with, or none.
Verify(c, l, d) ==
  LET stored == checksums[l]
      at == IF stored = NoDigest THEN "unset"
            ELSE IF stored = d THEN "matching" ELSE "mismatch"
  IN
  /\ check[c].at = "idle"
  /\ check' = [check EXCEPT ![c] = [at |-> at, label |-> l, data |-> d]]
  /\ approved' = IF at = "matching" THEN [approved EXCEPT ![l] = @ \cup {d}]
                                    ELSE approved
  /\ UNCHANGED <<checksums, violations, verdicts, raced>>

\* "no snapshot - taking one now", and True, whatever is there by now.
FirstDigest(c) ==
  LET l == check[c].label IN
  /\ check[c].at = "unset"
  /\ checksums' = [checksums EXCEPT ![l] = check[c].data]
  /\ approved' = [approved EXCEPT ![l] = @ \cup {check[c].data}]
  /\ raced' = IF checksums[l] = NoDigest THEN raced ELSE raced \cup {l}
  /\ Checked(c, "ended")
  /\ UNCHANGED <<violations, verdicts>>

\* Taking what was found as the new baseline.
ReportAndAdopt(c) ==
  /\ check[c].at = "mismatch"
  /\ violations' = Append(violations, c)
  /\ checksums' = [checksums EXCEPT ![check[c].label] = check[c].data]
  /\ Checked(c, "reported")
  /\ UNCHANGED <<verdicts, approved, raced>>

Report(c) ==
  /\ check[c].at = "mismatch"
  /\ violations' = Append(violations, c)
  /\ Checked(c, "reported")
  /\ UNCHANGED <<checksums, verdicts, approved, raced>>

RecordVerdict(c) ==
  /\ check[c].at \in {"matching", "reported"}
  /\ verdicts' = Append(verdicts, [by       |-> c,
                                   violated |-> check[c].at = "reported"])
  /\ Checked(c, "ended")
  /\ UNCHANGED <<checksums, violations, approved, raced>>

GuardNext ==
  \E c \in Checks :
    \/ \E l \in Labels, d \in Data : Snapshot(c, l, d) \/ Verify(c, l, d)
    \/ FirstDigest(c) \/ Report(c) \/ RecordVerdict(c)

GuardSpec == GuardInit /\ [][GuardNext]_guardVars

----------------------------------------------------------------------------
\* What was found good stays good, and nothing else is, until snapshot() is
\* called: all that verify() has approved of a label is its digest.  Left out
\* are labels whose first digest was replaced by a call that had found none.
\* And full_report() and the ledger tell of the same violations, up to those
\* on their way from one to the other (verify).
TamperingNoticed ==
  /\ \A l \in Labels \ raced : approved[l] \subseteq {checksums[l]}
  /\ \A c \in Checks :
       /\ Cardinality({n \in DOMAIN violations : violations[n] = c}) =
            Cardinality({n \in DOMAIN verdicts :
                           verdicts[n] = [by |-> c, violated |-> TRUE]})
              + IF check[c].at = "reported" THEN 1 ELSE 0
=============================================================================
