----------------------------- MODULE QueryContract -----------------------------
(***************************************************************************)
(* What the callers of ch.Query rely on.  A question has its rows; the     *)
(* call returns once, with all of them, or with an error and as many of    *)
(* the first rows as it had read.                                          *)
(***************************************************************************)
EXTENDS Naturals, Sequences

VARIABLES
  rows,      \* the rows ClickHouse has for the question
  returned,
  result     \* the rows returned, and whether there was no error

Outcomes(all) ==
  {[rows |-> all, ok |-> TRUE]}
    \cup {[rows |-> SubSeq(all, 1, n), ok |-> FALSE] : n \in 0 .. Len(all)}

Init == ~returned

Return ==
  /\ ~returned /\ returned'
  /\ result' \in Outcomes(rows)
  /\ UNCHANGED rows

Spec == Init /\ [][Return]_<<rows, returned, result>>
=============================================================================
