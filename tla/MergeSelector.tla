----------------------------- MODULE MergeSelector -----------------------------
(***************************************************************************)
(* internal/selector/simple.go: Select and the estimator under it, the     *)
(* port of ClickHouse's SimpleMergeSelector.                               *)
(*                                                                         *)
(* One call of Select is one behavior: the three nested loops of           *)
(* selectWithinPartsRange and the trimming loop of consider ("range",      *)
(* "begin", "extend", "trim"), then the single pass over the sorted        *)
(* estimates that takes the candidates ("pick").                           *)
(*                                                                         *)
(* As in the code, begin and end are 0-based and end is exclusive, so the  *)
(* estimate [begin, end) holds the parts begin + 1 .. end of its range.    *)
(* Reals are fixed-point numbers, Unit to the whole.                       *)
(***************************************************************************)
EXTENDS Integers, Sequences

CONSTANTS
  Inputs,      \* the arguments Select is called with
  Partitions,  \* partition ids
  Unit,        \* the fixed-point one
  MaxLog,      \* the logarithm's table ends here and saturates
  Log2         \* Log2[n] is log2(n) in fixed point

Part  == [pid : Partitions, size : Nat, rows : Nat, age : Nat]
Stats == [count : Nat, minAge : Nat]
Limit == [bytes : Nat, rows : Nat]
Sums  == [bytes : Nat, rows : Nat, max : Nat, age : Nat]
Trim  == [end : Int, bytes : Nat, rows : Nat]

\* selector.Settings, field by field.
Settings ==
  [maxParts : Nat, minParts : Nat, partsToThrow : Nat, base : Nat, window : Nat,
   minSize : Nat, maxSize : Nat,
   minAgeAtMinSize : Nat, minAgeAtMaxSize : Nat,
   maxAgeAtMinSize : Nat, maxAgeAtMaxSize : Nat,
   minPartsToLower : Nat, maxPartsToLower : Nat, fixedCost : Nat,
   align : BOOLEAN, alignMinRatio : Nat, alignMaxDiff : Nat, alignMaxAdjust : Nat,
   forceAge : Nat, forcePartitionAge : Nat,
   removeSmall : BOOLEAN, removeSmallRatio : Nat,
   lowerMaxParts : BOOLEAN, lowerExponent : Nat]

Arguments == [ranges : Seq(Seq(Part)), stats : [Partitions -> Stats],
              limits : Seq(Limit), settings : Settings]

ASSUME UnitAssumption  == Unit \in Nat \ {0}
ASSUME LogAssumption   == MaxLog \in Nat \ {0} /\ Log2 \in [1..MaxLog -> Nat]
ASSUME InputAssumption == \A a \in Inputs : a \in Arguments

VARIABLES
  args,    \* the arguments of this call
  pc,      \* the loop the call is in
  ri,      \* rangeIdx, from 1
  begin, end,
  acc,     \* sumSize, sumRows, maxSize and minAge of [begin, end)
  trim,    \* consider's own end, sizeDelta and rowsDelta
  scored,  \* estimator.scored, in the order the estimates were appended
  rest,    \* the indices of scored that the picking pass has not reached
  out      \* the candidates taken, best first, as indices of scored

scan  == <<ri, begin, end, acc, trim, scored>>
picks == <<rest, out>>
vars  == <<args, pc, scan, picks>>

S        == args.settings
Parts(r) == args.ranges[r]
Count(r) == Len(args.ranges[r])

-----------------------------------------------------------------------------
(***************************************************************************)
(* Arithmetic.                                                             *)
(***************************************************************************)
Least(a, b)    == IF a < b THEN a ELSE b
Greatest(a, b) == IF a > b THEN a ELSE b
CeilDiv(a, b)  == (a + b - 1) \div b

Log(n)    == Log2[Greatest(1, Least(n, MaxLog))]
Dist(a, b) == IF a < b THEN b - a ELSE a - b

Interpolate(lo, hi, ratio) == lo + ((hi - lo) * ratio) \div Unit

ToUnit(v, lo, hi) ==
  IF v <= lo THEN 0 ELSE IF v >= hi THEN Unit ELSE ((v - lo) * Unit) \div (hi - lo)

\* math.Pow of a fraction, rounded up so that what is left of 1 is rounded down.
Power(x, n) ==
  LET p[k \in 0..n] == IF k = 0 THEN Unit ELSE CeilDiv(p[k - 1] * x, Unit) IN p[n]

\* Mistake: without the 1.9 no range is worth more for its length.
PlainScore(count, sum, fixed) == ((sum + fixed * count) * Unit) \div count

\* score(count, sumSize, sumSizeFixedCost): count - 1.9 is (10 * count - 19) / 10.
Score(count, sum, fixed) ==
  ((sum + fixed * count) * 10 * Unit) \div (10 * count - 19)

Allow(s, a, n, partsCount, partitionAge) ==
  LET size     == ToUnit(Log(1 + a.bytes), Log(1 + s.minSize), Log(1 + s.maxSize))
      age      == ToUnit(a.age,
                         Interpolate(s.minAgeAtMinSize, s.minAgeAtMaxSize, size),
                         Interpolate(s.maxAgeAtMinSize, s.maxAgeAtMaxSize, size))
      many     == ToUnit(partsCount, s.minPartsToLower, s.maxPartsToLower)
      lowered  == Interpolate(s.base, 2 * Unit, Least(Unit, age + many))
  IN \/ s.forceAge # 0 /\ a.age >= s.forceAge
     \/ s.forcePartitionAge # 0 /\ partitionAge > 0 /\ partitionAge >= s.forcePartitionAge
     \/ /\ s.minParts = 0 \/ n >= s.minParts
        /\ (a.bytes + n * s.fixedCost) * Unit >= lowered * (a.max + s.fixedCost)

\* The part of the score that prefers ranges as large as their left neighbour.
Aligned(s, score, bytes, prev) ==
  LET diff == Dist(Log(bytes), Log(prev))
  IN IF /\ s.align /\ prev * Unit > bytes * s.alignMinRatio
        /\ bytes > 0 /\ diff < s.alignMaxDiff
     THEN (score * Interpolate(s.alignMaxAdjust, Unit, (diff * Unit) \div s.alignMaxDiff))
            \div Unit
     ELSE score

\* Mistake: the limit goes down to nothing, not to the base.
LoweredToNothing(s, count) ==
  LET fill == CeilDiv((count * Unit - s.base) * Unit, s.partsToThrow * Unit - s.base)
  IN (s.maxParts * (Unit - Power(fill, s.lowerExponent))) \div Unit

LoweredMaxParts(s, count) ==
  LET fill == CeilDiv((count * Unit - s.base) * Unit, s.partsToThrow * Unit - s.base)
      left == Unit - Power(fill, s.lowerExponent)
  IN (s.base * Unit + (s.maxParts * Unit - s.base) * left) \div (Unit * Unit)

\* max_parts_to_merge_at_once as lowered for a partition of count parts; 0 is no limit.
MaxPartsToMergeAtOnce(s, count) ==
  IF s.maxParts = 0 \/ ~s.lowerMaxParts \/ count * Unit < s.base THEN s.maxParts
  ELSE Least(s.maxParts, IF count >= s.partsToThrow THEN Greatest(2, s.base \div Unit)
                         ELSE LoweredMaxParts(s, count))

-----------------------------------------------------------------------------
(***************************************************************************)
(* selectWithinPartsRange.                                                 *)
(***************************************************************************)
StatsOf(r)  == args.stats[Parts(r)[1].pid]
MaxParts(r) == MaxPartsToMergeAtOnce(S, StatsOf(r).count)
FirstBegin(r) ==
  IF S.window > 0 /\ Count(r) >= S.window THEN Count(r) - S.window ELSE 0

Start(p)   == [bytes |-> p.size, rows |-> p.rows, max |-> p.size, age |-> p.age]
\* Mistake: the largest part is only looked for at the start.
GrowOnly(a, p) == [a EXCEPT !.bytes = @ + p.size, !.rows = @ + p.rows, !.age = Least(@, p.age)]
Grow(a, p) == [bytes |-> a.bytes + p.size,       rows |-> a.rows + p.rows,
               max   |-> Greatest(a.max, p.size), age  |-> Least(a.age, p.age)]

AtLimit(n, cap)     == cap # 0 /\ n > cap
TooBig(bytes, rows) == bytes > args.limits[1].bytes \/ rows > args.limits[1].rows

Grown == Grow(acc, Parts(ri)[end])
CanGrow ==
  /\ end <= Count(ri) /\ ~AtLimit(end - begin, MaxParts(ri))
  /\ ~TooBig(Grown.bytes, Grown.rows)
Allowed == Allow(S, Grown, end - begin, Count(ri), StatsOf(ri).minAge)

Enter ==
  /\ pc = "entry"
  /\ pc' = IF args.limits = <<>> THEN "done" ELSE "range"
  /\ UNCHANGED <<args, scan, picks>>

SkipRange ==
  /\ pc = "range" /\ ri <= Len(args.ranges) /\ Count(ri) <= 1
  /\ ri' = ri + 1
  /\ UNCHANGED <<args, pc, begin, end, acc, trim, scored, picks>>

OpenRange ==
  /\ pc = "range" /\ ri <= Len(args.ranges) /\ Count(ri) > 1
  /\ begin' = FirstBegin(ri)
  /\ pc' = "begin"
  /\ UNCHANGED <<args, ri, end, acc, trim, scored, picks>>

CloseRange ==
  /\ pc = "begin" /\ begin >= Count(ri)
  /\ ri' = ri + 1
  /\ pc' = "range"
  /\ UNCHANGED <<args, begin, end, acc, trim, scored, picks>>

OpenBegin ==
  /\ pc = "begin" /\ begin < Count(ri)
  /\ acc' = Start(Parts(ri)[begin + 1])
  /\ end' = begin + 2
  /\ pc' = "extend"
  /\ UNCHANGED <<args, ri, begin, trim, scored, picks>>

\* The inner loop ends: no part left, or one more is too many or too big.
CloseBegin ==
  /\ pc = "extend" /\ ~CanGrow
  /\ begin' = begin + 1
  /\ pc' = "begin"
  /\ UNCHANGED <<args, ri, end, acc, trim, scored, picks>>

\* One iteration of the inner loop that allow refuses, and one that it accepts.
Refuse ==
  /\ pc = "extend" /\ CanGrow /\ ~Allowed
  /\ acc' = Grown
  /\ end' = end + 1
  /\ UNCHANGED <<args, pc, ri, begin, trim, scored, picks>>

Accept ==
  /\ pc = "extend" /\ CanGrow /\ Allowed
  /\ acc' = Grown
  /\ trim' = [end |-> end, bytes |-> 0, rows |-> 0]
  /\ pc' = "trim"
  /\ UNCHANGED <<args, ri, begin, end, scored, picks>>

-----------------------------------------------------------------------------
(***************************************************************************)
(* consider: drop the small parts at the right, then score what is left.   *)
(***************************************************************************)
\* Mistake: trims down to a single part.
SmallAtRightOfOne(e) ==
  S.removeSmall /\ e >= begin + 2 /\ Parts(ri)[e].size * Unit < S.removeSmallRatio * acc.bytes

SmallAtRight(e) ==
  /\ S.removeSmall
  /\ e >= begin + 3
  /\ Parts(ri)[e].size * Unit < S.removeSmallRatio * acc.bytes

DropRight(t) == [end   |-> t.end - 1,
                 bytes |-> t.bytes + Parts(ri)[t.end].size,
                 rows  |-> t.rows + Parts(ri)[t.end].rows]

TrimRight ==
  /\ pc = "trim" /\ SmallAtRight(trim.end)
  /\ trim' = DropRight(trim)
  /\ UNCHANGED <<args, pc, ri, begin, end, acc, scored, picks>>

Estimate(r, b, e, bytes, rows, prev) ==
  [range |-> r, begin |-> b, end |-> e, bytes |-> bytes, rows |-> rows,
   score |-> Aligned(S, Score(e - b, bytes, S.fixedCost), bytes, prev)]

PrevAtLeft(r, b) == IF b > 0 THEN Parts(r)[b].size ELSE 0

Consider ==
  /\ pc = "trim" /\ ~SmallAtRight(trim.end)
  /\ scored' = Append(scored, Estimate(ri, begin, trim.end, acc.bytes - trim.bytes,
                                       acc.rows - trim.rows, PrevAtLeft(ri, begin)))
  /\ end' = end + 1
  /\ pc' = "extend"
  /\ UNCHANGED <<args, ri, begin, acc, trim, picks>>

-----------------------------------------------------------------------------
(***************************************************************************)
(* Select: sort the estimates, then take the best that do not overlap.     *)
(***************************************************************************)

\* Mistake: ties stay in the order they were appended in.
BeforeByScore(i, j) ==
  \/ scored[i].score < scored[j].score
  \/ scored[i].score = scored[j].score /\ i < j

\* The order of the stable sort: the lowest score first, on a tie the rightmost
\* range, and then the order the estimates were appended in.
Before(i, j) ==
  LET a == scored[i]
      b == scored[j]
  IN \/ a.score < b.score
     \/ /\ a.score = b.score
        /\ \/ a.range > b.range
           \/ /\ a.range = b.range
              /\ a.begin > b.begin \/ (a.begin = b.begin /\ i < j)

\* next points at i: every estimate sorted before it has been passed.
IsNext(i) == i \in rest /\ \A j \in rest \ {i} : Before(i, j)

\* Mistake: ranges that only touch are taken to overlap.
Touch(a, b)   == a.range = b.range /\ a.begin <= b.end /\ b.begin <= a.end
Overlap(a, b) == a.range = b.range /\ a.begin < b.end /\ b.begin < a.end
\* Mistake: only a range that begins inside a taken one overlaps it.
TakenAtBegin(r) == \E k \in DOMAIN out : /\ r.range = scored[out[k]].range
                                         /\ scored[out[k]].begin <= r.begin
                                         /\ r.begin < scored[out[k]].end
Taken(r)      == \E k \in DOMAIN out : Overlap(r, scored[out[k]])
Fits(r, lim)  == r.bytes <= lim.bytes /\ r.rows <= lim.rows
Takeable(r)   == Fits(r, args.limits[Len(out) + 1]) /\ ~Taken(r)

SortScored ==
  /\ pc = "range" /\ ri > Len(args.ranges)
  /\ rest' = DOMAIN scored
  /\ pc' = "pick"
  /\ UNCHANGED <<args, scan, out>>

Take(i) ==
  /\ pc = "pick" /\ Len(out) < Len(args.limits)
  /\ IsNext(i) /\ Takeable(scored[i])
  /\ out' = Append(out, i)
  /\ rest' = rest \ {i}
  /\ UNCHANGED <<args, pc, scan>>

\* Mistake: next stays where it is.
PassWithoutNext(i) ==
  /\ pc = "pick" /\ Len(out) < Len(args.limits)
  /\ IsNext(i) /\ ~Takeable(scored[i]) /\ UNCHANGED vars

Pass(i) ==
  /\ pc = "pick" /\ Len(out) < Len(args.limits)
  /\ IsNext(i) /\ ~Takeable(scored[i])
  /\ rest' = rest \ {i}
  /\ UNCHANGED <<args, pc, scan, out>>

\* Every constraint has its candidate, or the last one looked at found none.
Return ==
  /\ pc = "pick"
  /\ Len(out) = Len(args.limits) \/ rest = {}
  /\ pc' = "done"
  /\ UNCHANGED <<args, scan, picks>>

-----------------------------------------------------------------------------
Idle(a) ==
  /\ args = a
  /\ pc = "entry"
  /\ ri = 1 /\ begin = 0 /\ end = 0
  /\ acc = [bytes |-> 0, rows |-> 0, max |-> 0, age |-> 0]
  /\ trim = [end |-> 0, bytes |-> 0, rows |-> 0]
  /\ scored = <<>> /\ rest = {} /\ out = <<>>

Init == \E a \in Inputs : Idle(a)

Next ==
  \/ Enter \/ SkipRange \/ OpenRange \/ CloseRange
  \/ OpenBegin \/ CloseBegin \/ Refuse \/ Accept
  \/ TrimRight \/ Consider
  \/ SortScored \/ (\E i \in rest : Take(i) \/ Pass(i)) \/ Return

Spec     == Init /\ [][Next]_vars
FairSpec == Spec /\ WF_vars(Next)

-----------------------------------------------------------------------------
(***************************************************************************)
(* What Select promises.                                                   *)
(***************************************************************************)

\* The kinds of values the state holds; an estimate is always a proper range of
\* at least two parts of one of the ranges the caller passed.
EstimateOK(r) ==
  /\ r.range \in DOMAIN args.ranges
  /\ r.begin \in Nat /\ r.end \in Nat
  /\ r.begin + 2 <= r.end /\ r.end <= Count(r.range)
  /\ r.bytes \in Int /\ r.rows \in Int /\ r.score \in Int

TypeOK ==
  /\ args \in Inputs
  /\ pc \in {"entry", "range", "begin", "extend", "trim", "pick", "done"}
  /\ ri \in Nat \ {0} /\ begin \in Nat /\ end \in Nat
  /\ acc \in Sums /\ trim \in Trim
  /\ DOMAIN scored = 1..Len(scored) /\ \A i \in DOMAIN scored : EstimateOK(scored[i])
  /\ rest \subseteq DOMAIN scored
  /\ out \in Seq(DOMAIN scored)

PartsOf(i) == {<<scored[i].range, p>> : p \in scored[i].begin + 1 .. scored[i].end}

\* "best first": a candidate of a lower rank is never sorted after one of a higher.
SortedBefore(a, b) ==
  \/ a.score < b.score
  \/ a.score = b.score /\ (a.range > b.range \/ (a.range = b.range /\ a.begin >= b.begin))
BestFirst ==
  \A k, l \in DOMAIN out : k < l => SortedBefore(scored[out[k]], scored[out[l]])

\* No better merge is left out: an estimate that was passed over is too big for
\* one of the constraints, or shares a part with a candidate sorted before it; and
\* one never looked at is sorted after every candidate.
NothingBetterLeftOut ==
  pc \in {"pick", "done"} =>
    \A i \in DOMAIN scored :
      \/ \E k \in DOMAIN out : out[k] = i
      \/ \E l \in DOMAIN args.limits : ~Fits(scored[i], args.limits[l])
      \/ \E k \in DOMAIN out : /\ SortedBefore(scored[out[k]], scored[i])
                               /\ PartsOf(out[k]) \cap PartsOf(i) # {}
      \/ i \in rest /\ \A k \in DOMAIN out : SortedBefore(scored[out[k]], scored[i])

\* Select returns "up to len(constraints) disjoint merge candidates" (simple.go:246),
\* once: no part can be promised to two merges.  The loops are no step of the contract.
Contract == INSTANCE CandidateContract WITH
  call     <- [lens  |-> [r \in DOMAIN args.ranges |-> Count(r)], limit |-> Len(args.limits)],
  returned <- pc = "done",
  result   <- IF pc = "done"
              THEN [k \in DOMAIN out |-> [range |-> scored[out[k]].range,
                                          begin |-> scored[out[k]].begin,
                                          end   |-> scored[out[k]].end]]
              ELSE <<>>
KeepsContract == Contract!Spec

\* A partition with many parts gets smaller merges, never none and never unlimited ones:
\* where the setting allows a merge of two, so does the lowered limit, it is never above
\* the setting, and one more part never raises it.  (A base below 2 is excepted: with it
\* the limit becomes 1, which allows no merge, or 0, which is no limit; a range without
\* parts is of no partition.)
LoweringKeepsPairs ==
  \A r \in DOMAIN args.ranges :
    Count(r) > 0 /\ S.base >= 2 * Unit /\ S.maxParts # 0 =>
      /\ MaxParts(r) \in Least(2, S.maxParts) .. S.maxParts
      /\ MaxPartsToMergeAtOnce(S, StatsOf(r).count + 1) <= MaxParts(r)
=============================================================================
