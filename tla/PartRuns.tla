------------------------------- MODULE PartRuns -------------------------------
(***************************************************************************)
(* Runs of adjacent parts that may be merged: what the ranges of Select    *)
(* are made of (simple.go:247: "a run of adjacent parts (same partition,   *)
(* sorted by block number)"), and what the candidates of a response are.   *)
(*                                                                         *)
(* parts is a sequence of records with a name and a partition id, in the   *)
(* order of Store.Parts; busy is a set of names.                           *)
(***************************************************************************)
EXTENDS Integers, Sequences

\* parts[a .. b] is a run: two parts or more, of one partition, none of them busy.
IsRun(parts, busy, a, b) ==
  /\ 1 <= a /\ a < b /\ b <= Len(parts)
  /\ \A k \in a .. b : parts[k].name \notin busy /\ parts[k].pid = parts[a].pid

Runs(parts, busy) ==
  {ab \in (1 .. Len(parts)) \X (1 .. Len(parts)) : IsRun(parts, busy, ab[1], ab[2])}

MaximalRuns(parts, busy) ==
  {ab \in Runs(parts, busy) : /\ ~IsRun(parts, busy, ab[1] - 1, ab[2])
                              /\ ~IsRun(parts, busy, ab[1], ab[2] + 1)}

\* Candidates as pairs <<a, b>>: up to limit runs, no part in two of them.
AreCandidates(parts, busy, limit, seq) ==
  /\ Len(seq) <= limit
  /\ \A k \in DOMAIN seq : IsRun(parts, busy, seq[k][1], seq[k][2])
  /\ \A k, l \in DOMAIN seq : k # l => seq[k][2] < seq[l][1] \/ seq[l][2] < seq[k][1]
=============================================================================
