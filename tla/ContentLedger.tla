---------------------------- MODULE ContentLedger ----------------------------
(***************************************************************************)
(* ContentLayer (content/layer.py) over LegacyLedger (identity/ledger.py): *)
(* concurrent calls of post() and delete().  A call changes the layer      *)
(* under its lock, then appends the entry to the ledger under the ledger's *)
(* lock, then writes the entry to the file under no lock.  A write may     *)
(* fail, and the process may end and a new one load the file.              *)
(***************************************************************************)
EXTENDS LineFile, FiniteSets

CONSTANTS Items,       \* each is posted by a call of its own
          Deleters,    \* the calls of delete()
          MaxFailures, \* how many writes may be cut short or fail
          MaxCrashes

ASSUME LedgerAssumption ==
  /\ Items \cap Deleters = {}
  /\ MaxFailures \in Nat /\ MaxCrashes \in Nat

VARIABLES
  layer,    \* ContentLayer._items
  entries,  \* LegacyLedger._entries
  ledgerFile,
  call,     \* where a call stands
  subject,  \* the item a call of delete() was given, once it runs
  ledgerFailures, ledgerCrashes

ledgerVars ==
  <<layer, entries, ledgerFile, call, subject, ledgerFailures, ledgerCrashes>>

LedgerCalls == Items \cup Deleters

LedgerInit ==
  /\ layer = [i \in Items |-> "absent"]
  /\ entries = << >> /\ ledgerFile = << >>
  /\ call = [c \in LedgerCalls |-> "idle"]
  /\ subject = [d \in Deleters |-> CHOOSE i \in Items : TRUE]
  /\ ledgerFailures = 0 /\ ledgerCrashes = 0

Goes(c, phase) == call' = [call EXCEPT ![c] = phase]

Entry(c) == IF c \in Items THEN [kind |-> "posted", item |-> c]
                           ELSE [kind |-> "deleted", item |-> subject[c]]

----------------------------------------------------------------------------
Post(i) ==
  /\ call[i] = "idle"
  /\ layer' = [layer EXCEPT ![i] = "live"]
  /\ Goes(i, "decided")
  /\ UNCHANGED <<entries, ledgerFile, subject, ledgerFailures, ledgerCrashes>>

Deletes(d, i) ==
  /\ subject' = [subject EXCEPT ![d] = i]
  /\ layer' = [layer EXCEPT ![i] = "deleted"]
  /\ Goes(d, "decided")
  /\ UNCHANGED <<entries, ledgerFile, ledgerFailures, ledgerCrashes>>

\* Deleting without a look at the flag.
DeleteBlindly(d, i) ==
  call[d] = "idle" /\ layer[i] # "absent" /\ Deletes(d, i)

\* The check and the flag are one step, under the lock.
Delete(d, i) ==
  call[d] = "idle" /\ layer[i] = "live" /\ Deletes(d, i)

\* Not there, deleted before, or another author's.
DeleteRefused(d) ==
  /\ call[d] = "idle"
  /\ Goes(d, "ended")
  /\ UNCHANGED <<layer, entries, ledgerFile, subject, ledgerFailures,
                 ledgerCrashes>>

\* record(): the entry in memory.
Record(c) ==
  /\ call[c] = "decided"
  /\ entries' = Append(entries, Entry(c))
  /\ Goes(c, "recorded")
  /\ UNCHANGED <<layer, ledgerFile, subject, ledgerFailures, ledgerCrashes>>

\* Writing the newest entry instead of the one recorded.
WriteNewest(c) ==
  /\ call[c] = "recorded"
  /\ ledgerFile' = Append(ledgerFile, Chunk(entries[Len(entries)], "line"))
  /\ Goes(c, "ended")
  /\ UNCHANGED <<layer, entries, subject, ledgerFailures, ledgerCrashes>>

\* record(): the entry in the file.
Write(c) ==
  /\ call[c] = "recorded"
  /\ ledgerFile' = Append(ledgerFile, Chunk(Entry(c), "line"))
  /\ Goes(c, "ended")
  /\ UNCHANGED <<layer, entries, subject, ledgerFailures, ledgerCrashes>>

\* What a failed write of c may leave in the file.
CutShort(c) ==
  {ledgerFile} \cup {Append(ledgerFile, Chunk(Entry(c), cut)) : cut \in Cuts}

\* An OSError is swallowed: the call returns as if the entry were kept.
WriteFails(c) ==
  /\ call[c] = "recorded" /\ ledgerFailures < MaxFailures
  /\ ledgerFile' \in CutShort(c)
  /\ Goes(c, "ended")
  /\ ledgerFailures' = ledgerFailures + 1
  /\ UNCHANGED <<layer, entries, subject, ledgerCrashes>>

\* The process ends; the next one loads the file and has an empty layer.
LedgerRestarts ==
  /\ ledgerCrashes < MaxCrashes /\ ledgerCrashes' = ledgerCrashes + 1
  /\ \/ UNCHANGED <<ledgerFile, ledgerFailures>>
     \/ \E c \in LedgerCalls :
          /\ call[c] = "recorded" /\ ledgerFailures < MaxFailures
          /\ ledgerFile' \in CutShort(c)
          /\ ledgerFailures' = ledgerFailures + 1
  /\ layer' = [i \in Items |-> "absent"]
  /\ entries' = LoadUpToBad(ledgerFile')
  /\ call' = [c \in LedgerCalls |->
                IF call[c] \in {"decided", "recorded"} THEN "ended" ELSE call[c]]
  /\ UNCHANGED subject

LedgerNext ==
  \/ \E i \in Items : Post(i)
  \/ \E d \in Deleters : DeleteRefused(d) \/ \E i \in Items : Delete(d, i)
  \/ \E c \in LedgerCalls : Record(c) \/ Write(c) \/ WriteFails(c)
  \/ LedgerRestarts

LedgerSpec == LedgerInit /\ [][LedgerNext]_ledgerVars

----------------------------------------------------------------------------
\* entries_by_kind() and entries_for_node() select what is counted here.
Recorded(log, kind, i) ==
  Cardinality({n \in DOMAIN log : log[n] = [kind |-> kind, item |-> i]})

\* Once the calls on an item have got as far as the ledger, it says of every
\* item in the layer that it was posted once, and of every deleted one that it
\* was deleted once, however many asked for it at the same time (post, delete).
LedgerAgrees ==
  \A i \in Items :
    /\ layer[i] # "absent"
    /\ call[i] # "decided"
    /\ \A d \in Deleters : subject[d] = i => call[d] # "decided"
    => /\ Recorded(entries, "posted", i) = 1
       /\ Recorded(entries, "deleted", i) = IF layer[i] = "deleted" THEN 1 ELSE 0

\* As long as no write has failed, what a new process would load is what this
\* one has in memory, in whatever order the writers came to the file, restarts
\* included; entries on their way to the file are the only difference (record).
FileAgrees ==
  /\ ledgerFailures = 0
  /\ \A c \in LedgerCalls : call[c] # "recorded"
  => \A kind \in {"posted", "deleted"}, i \in Items :
       Recorded(LoadUpToBad(ledgerFile), kind, i) = Recorded(entries, kind, i)
=============================================================================
