------------------------------- MODULE Filtering -------------------------------
(***************************************************************************)
(* What a loop over a list keeps of it: the healthy relays, the posts that *)
(* match, all nodes but one.  It is SelectSeq of the standard modules, with *)
(* the set of what is kept, as a definition one can prove about.           *)
(***************************************************************************)
EXTENDS Naturals, Sequences

Filtered(list, wanted) ==
  LET kept[n \in 0 .. Len(list)] ==
        IF n = 0 THEN << >>
        ELSE IF list[n] \in wanted THEN Append(kept[n - 1], list[n])
                                   ELSE kept[n - 1]
  IN  kept[Len(list)]
=============================================================================
