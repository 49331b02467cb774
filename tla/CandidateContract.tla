--------------------------- MODULE CandidateContract ---------------------------
(***************************************************************************)
(* What a caller of Select relies on (simple.go:246-248): one answer, of   *)
(* at most limit candidates, each a run of at least two adjacent parts of  *)
(* one range, no part in two of them.  It says nothing of scores, so any   *)
(* merge selector keeps it.                                                *)
(***************************************************************************)
EXTENDS Integers, Sequences

VARIABLES
  call,      \* lens: how many parts each range has; limit: how many candidates to give
  returned,  \* whether the call has returned
  result     \* the candidates, best first

vars == <<call, returned, result>>

SubRangeOf(c, lens) ==
  /\ c.range \in DOMAIN lens
  /\ c.begin \in Nat /\ c.end \in Nat
  /\ c.begin + 2 <= c.end /\ c.end <= lens[c.range]

Covered(c) == {<<c.range, p>> : p \in c.begin + 1 .. c.end}

Answers(c, seq) ==
  /\ Len(seq) <= c.limit
  /\ \A k \in DOMAIN seq : SubRangeOf(seq[k], c.lens)
  /\ \A k, l \in DOMAIN seq : k # l => Covered(seq[k]) \cap Covered(seq[l]) = {}

Init == returned = FALSE /\ result = <<>>

Return ==
  /\ ~returned
  /\ returned' = TRUE
  /\ Answers(call, result')
  /\ call' = call

Spec == Init /\ [][Return]_vars
=============================================================================
