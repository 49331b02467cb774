----------------------------- MODULE MCMinMaxCache -----------------------------
(***************************************************************************)
(* Two requests at a time over three partitions, with a limit of one, so   *)
(* that the cache fills and is cleared; a table whose index on column v is *)
(* added and dropped.                                                      *)
(***************************************************************************)
EXTENDS MinMaxCache, TLC

CONSTANTS r1, r2, p1, p2, p3

MCRequests   == {r1, r2}
MCPartitions == {p1, p2, p3}
Alike        == Permutations(MCRequests) \cup Permutations(MCPartitions)
OnAndOff     == {{}, {"v"}}
=============================================================================
