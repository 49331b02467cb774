------------------------ MODULE MergeSelectorReference ------------------------
(***************************************************************************)
(* What the loops of MergeSelector compute, defined without loops: the     *)
(* sub-ranges that may be merged as a set, each sum as a sum over the      *)
(* parts.                                                                  *)
(***************************************************************************)
EXTENDS MergeSelector, FiniteSetsExt

Bytes(r, b, e) == MapThenSumSet(LAMBDA p : Parts(r)[p].size, b + 1 .. e)
Rows(r, b, e)  == MapThenSumSet(LAMBDA p : Parts(r)[p].rows, b + 1 .. e)
Totals(r, b, e) ==
  [bytes |-> Bytes(r, b, e), rows |-> Rows(r, b, e),
   max |-> Max({Parts(r)[p].size : p \in b + 1 .. e}),
   age |-> Min({Parts(r)[p].age  : p \in b + 1 .. e})]

Mergeable ==
  {m \in UNION {{<<r, b, e>> : b \in FirstBegin(r) .. Count(r), e \in 2 .. Count(r)}
                  : r \in DOMAIN args.ranges} :
     LET r == m[1]
         b == m[2]
         e == m[3]
     IN /\ b + 2 <= e
        /\ MaxParts(r) # 0 => e - b <= MaxParts(r)
        /\ Bytes(r, b, e) <= args.limits[1].bytes
        /\ Rows(r, b, e) <= args.limits[1].rows
        /\ Allow(S, Totals(r, b, e), e - b, Count(r), StatsOf(r).minAge)}

\* What is left of [b, e) when its small parts at the right are gone: at least two
\* parts, up to the last one that is not small compared with the whole.
TrimmedEnd(r, b, e) ==
  IF S.removeSmall
  THEN Max({b + 2} \cup {k \in b + 3 .. e :
                           Parts(r)[k].size * Unit >= S.removeSmallRatio * Bytes(r, b, e)})
  ELSE e

Expected(m) ==
  LET r == m[1]
      b == m[2]
      e == TrimmedEnd(r, b, m[3])
  IN Estimate(r, b, e, Bytes(r, b, e), Rows(r, b, e), PrevAtLeft(r, b))

\* "Each sub-range gets a score" (README.md:72): when the scan is over, every range
\* of adjacent parts that the size limit, the part count and the rules of allow
\* accept has exactly one estimate, and nothing else has.  The loops keep running
\* sums and leave by break, so a stale sum or a break too early shows here.
EverySubRangeScored ==
  pc \in {"pick", "done"} /\ args.limits # <<>> =>
    /\ Len(scored) = Cardinality(Mergeable)
    /\ {scored[i] : i \in DOMAIN scored} = {Expected(m) : m \in Mergeable}

\* A candidate's sum_bytes and sum_rows are those of the parts it lists, trimmed or
\* not; they respect its own constraint; and it has no more parts than
\* max_parts_to_merge_at_once, which the heuristic can only lower.  (A base below 1 is
\* excepted: with it the heuristic can come down to 0, which is no limit.)
CandidatesExact ==
  \A k \in DOMAIN out :
    LET c == scored[out[k]]
    IN /\ c.bytes = Bytes(c.range, c.begin, c.end)
       /\ c.rows = Rows(c.range, c.begin, c.end)
       /\ c.bytes <= args.limits[k].bytes /\ c.rows <= args.limits[k].rows
       /\ S.maxParts # 0 /\ S.base >= Unit => c.end - c.begin <= S.maxParts

\* The loops and the definitions without loops agree: every mergeable sub-range has
\* its estimate, and every candidate the sums of its parts.
AgreesWithReference == EverySubRangeScored /\ CandidatesExact

\* A call returns, and no earlier than it must: with fewer candidates than
\* constraints only when every estimate has been passed.
Returns == <>(pc = "done" /\ (Len(out) < Len(args.limits) => rest = {}))
=============================================================================
