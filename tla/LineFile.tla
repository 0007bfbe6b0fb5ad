------------------------------- MODULE LineFile -------------------------------
(***************************************************************************)
(* A file of JSON lines as the ledger and the content store append to it:  *)
(* one write per entry, opened with "a".  A write is cut short by a full   *)
(* disk or by the end of the process; the next one goes on in the same     *)
(* line.                                                                   *)
(***************************************************************************)
EXTENDS Naturals, Sequences, SequencesExt

\* What a write leaves: the whole line; all of it but the newline; a part
\* that is no JSON.
Cuts == {"bare", "torn"}
Chunk(e, end) == [entry |-> e, end |-> end]

\* The chunk has a line of its own and can be parsed: two entries in one line,
\* or a part of one, are no JSON.
Readable(file, n) ==
  /\ file[n].end # "torn"
  /\ n = 1 \/ file[n - 1].end = "line"
  /\ n = Len(file) \/ file[n].end = "line"

EntriesAt(file, indices) ==
  [n \in 1 .. Cardinality(indices) |->
     file[CHOOSE i \in indices :
            Cardinality({j \in indices : j <= i}) = n].entry]

\* Loading that skips what it cannot parse.
LoadSkipping(file) ==
  EntriesAt(file, {n \in DOMAIN file : Readable(file, n)})

\* Loading that ends at the first line it cannot parse.
LoadUpToBad(file) ==
  EntriesAt(file, {n \in DOMAIN file : \A m \in 1 .. n : Readable(file, m)})
=============================================================================
