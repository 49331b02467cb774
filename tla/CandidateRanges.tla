---------------------------- MODULE CandidateRanges ----------------------------
(***************************************************************************)
(* internal/api/handlers.go, candidates: it splits the parts of a response *)
(* into the ranges Select is called with, collects the statistics of every *)
(* partition on the way, and returns what Select answers.                  *)
(*                                                                         *)
(* Select is used here by its contract alone; MergeSelector keeps it.      *)
(***************************************************************************)
EXTENDS PartRuns, FiniteSets

CONSTANTS
  Responses,   \* the responses buildParts can have assembled, with the limit asked for
  Partitions,  \* partition ids
  MaxAge       \* math.MaxInt64

ASSUME ResponseAssumption ==
  /\ MaxAge \in Nat
  /\ \A r \in Responses :
       /\ Len(r.parts) \in Nat /\ DOMAIN r.parts = 1 .. Len(r.parts)
       /\ \A k \in DOMAIN r.parts : r.parts[k].pid \in Partitions /\ r.parts[k].mtime \in Int
       /\ r.now \in Int /\ r.limit \in Nat
       /\ \A k \in DOMAIN r.parts : r.now - r.parts[k].mtime <= MaxAge   \* an int64

VARIABLES
  resp,      \* parts, merges, queued, now; and limit
  pc,
  pos,       \* the part the loop is at, from 1
  cur,       \* the range being built, as positions in resp.parts
  ranges,
  stats,
  answer     \* what Select returned

vars == <<resp, pc, pos, cur, ranges, stats, answer>>

Least(a, b)    == IF a < b THEN a ELSE b
Greatest(a, b) == IF a > b THEN a ELSE b

\* The names of the parts in a running or queued merge of the response.
Busy(r) == UNION (r.merges \cup r.queued)
\* Mistake: a part modified after now has a negative age.
RawAge(p) == resp.now - p.mtime
Age(p)    == Greatest(resp.now - p.mtime, 0)

\* Mistake: a part alone makes a range.
FlushedAny == IF Len(cur) > 0 THEN Append(ranges, cur) ELSE ranges
Flushed    == IF Len(cur) > 1 THEN Append(ranges, cur) ELSE ranges

\* The part the loop is at.
P     == resp.parts[pos]
InUse == P.name \in Busy(resp)
Other == cur # <<>> /\ resp.parts[cur[1]].pid # P.pid

\* Mistake: continue comes before the statistics.
CountedIdle ==
  IF InUse THEN stats
  ELSE [stats EXCEPT ![P.pid] = [count |-> @.count + 1, minAge |-> Least(@.minAge, Age(P))]]
Counted ==
  [stats EXCEPT ![P.pid] = [count |-> @.count + 1, minAge |-> Least(@.minAge, Age(P))]]
\* Mistake: a range runs on into the next partition.
JoinedAll == IF InUse THEN <<>> ELSE Append(cur, pos)
Joined    == IF InUse THEN <<>> ELSE IF Other THEN <<pos>> ELSE Append(cur, pos)

\* One part: its partition's statistics count it, busy or not; the range so far ends
\* before it if it is of another partition or busy, and only an idle part joins one.
NextPart ==
  /\ pc = "split" /\ pos <= Len(resp.parts)
  /\ stats' = Counted
  /\ ranges' = IF Other \/ InUse THEN Flushed ELSE ranges
  /\ cur' = Joined
  /\ pos' = pos + 1
  /\ UNCHANGED <<resp, pc, answer>>

LastFlush ==
  /\ pc = "split" /\ pos > Len(resp.parts)
  /\ ranges' = Flushed /\ cur' = <<>>
  /\ pc' = "select"
  /\ UNCHANGED <<resp, pos, stats, answer>>

Call == [lens |-> [r \in DOMAIN ranges |-> Len(ranges[r])], limit |-> resp.limit]

SubRanges ==
  {c \in [range : DOMAIN ranges, begin : 0 .. Len(resp.parts), end : 0 .. Len(resp.parts)] :
     c.begin + 2 <= c.end /\ c.end <= Len(ranges[c.range])}

Selector == INSTANCE CandidateContract WITH
  call <- Call, returned <- pc = "done", result <- answer

Select ==
  /\ pc = "select"
  /\ pc' = "done"
  /\ \E n \in 0 .. resp.limit : \E seq \in [1..n -> SubRanges] :
       Selector!Answers(Call, seq) /\ answer' = seq
  /\ UNCHANGED <<resp, pos, cur, ranges, stats>>

Init ==
  /\ resp \in Responses
  /\ pc = "split" /\ pos = 1
  /\ cur = <<>> /\ ranges = <<>> /\ answer = <<>>
  /\ stats = [p \in Partitions |-> [count |-> 0, minAge |-> MaxAge]]

Next == NextPart \/ LastFlush \/ Select

Spec == Init /\ [][Next]_vars

-----------------------------------------------------------------------------
\* The kinds of values of the loop's variables; what Select answers points into the
\* ranges it was given.
TypeOK ==
  /\ resp \in Responses
  /\ pc \in {"split", "select", "done"}
  /\ pos \in 1 .. Len(resp.parts) + 1
  /\ cur \in Seq(1 .. Len(resp.parts))
  /\ ranges \in Seq(Seq(1 .. Len(resp.parts)))
  /\ stats \in [Partitions -> [count : Nat, minAge : 0 .. MaxAge]]
  /\ \A k \in DOMAIN answer : answer[k] \in SubRanges

\* "Parts that are in a running or queued merge break the partition into separate
\* ranges" (README.md:71), and nothing else does: the ranges are the longest runs of
\* idle parts of one partition, each once, from left to right.
RangesAreMaximalRuns ==
  pc # "split" =>
    /\ \A r \in DOMAIN ranges : \A k \in DOMAIN ranges[r] : ranges[r][k] = ranges[r][1] + k - 1
    /\ {<<ranges[r][1], ranges[r][Len(ranges[r])]>> : r \in DOMAIN ranges}
         = MaximalRuns(resp.parts, Busy(resp))
    /\ \A r, s \in DOMAIN ranges : r < s => ranges[r][1] < ranges[s][1]

\* The statistics Select judges a partition by are those of all its active parts, the
\* busy ones too, and no age is negative when the clocks disagree.
StatsCoverPartitions ==
  pc # "split" =>
    \A pid \in Partitions :
      LET mine == {k \in DOMAIN resp.parts : resp.parts[k].pid = pid}
      IN /\ stats[pid].count = Cardinality(mine)
         /\ \A k \in mine : stats[pid].minAge <= Age(resp.parts[k])
         /\ mine # {} => \E k \in mine : stats[pid].minAge = Age(resp.parts[k])

\* The candidates of a response, in terms of the parts it lists: runs of idle adjacent
\* parts of one partition, apart from each other, no more than were asked for.
Offered == [k \in DOMAIN answer |-> LET r == ranges[answer[k].range]
                                    IN <<r[answer[k].begin + 1], r[answer[k].end]>>]
OffersCandidates ==
  pc = "done" => AreCandidates(resp.parts, Busy(resp), resp.limit, Offered)
=============================================================================
