-------------------------- MODULE MergeSelectorProofs --------------------------
(***************************************************************************)
(* Proofs about MergeSelector, for every call of Select: any number of     *)
(* ranges, parts, constraints, any settings, any table of logarithms.      *)
(***************************************************************************)
EXTENDS MergeSelector, MergeSelectorReference, FiniteSetTheorems,
        WellFoundedInduction, TLAPS

-----------------------------------------------------------------------------
(***************************************************************************)
(* Typing of the arguments and of the arithmetic.                          *)
(***************************************************************************)

\* What the assumption on Inputs says of the arguments of the call.
LEMMA ArgumentTypes ==
  ASSUME args \in Inputs
  PROVE  /\ args.ranges \in Seq(Seq(Part))
         /\ args.limits \in Seq(Limit)
         /\ S \in Settings
         /\ \A r \in DOMAIN args.ranges :
              Count(r) \in Nat /\ \A p \in 1..Count(r) : Parts(r)[p] \in Part
<1>1. args \in Arguments
  BY InputAssumption
<1>2. /\ args.ranges \in Seq(Seq(Part)) /\ args.limits \in Seq(Limit) /\ S \in Settings
  BY <1>1 DEF Arguments, S
<1>3. ASSUME NEW r \in DOMAIN args.ranges
      PROVE  Count(r) \in Nat /\ \A p \in 1..Count(r) : Parts(r)[p] \in Part
  <2>1. args.ranges[r] \in Seq(Part)
    BY <1>2
  <2>2. QED
    BY <2>1 DEF Count, Parts
<1>4. QED
  BY <1>2, <1>3

\* The table of logarithms is never read outside its domain.
LEMMA LogType == ASSUME NEW n \in Int PROVE Log(n) \in Nat
<1>1. Greatest(1, Least(n, MaxLog)) \in 1..MaxLog
  BY LogAssumption DEF Greatest, Least
<1>2. QED
  BY <1>1, LogAssumption DEF Log

\* interpolateLinear of integers is one.
LEMMA InterpolateType ==
  ASSUME NEW lo \in Int, NEW hi \in Int, NEW ratio \in Int
  PROVE  Interpolate(lo, hi, ratio) \in Int
<1>1. (hi - lo) * ratio \in Int
  OBVIOUS
<1>2. ((hi - lo) * ratio) \div Unit \in Int
  BY <1>1, UnitAssumption
<1>3. QED
  BY <1>2 DEF Interpolate

\* score never divides by zero: a range has two parts or more.
LEMMA ScoreType ==
  ASSUME NEW n \in Int, n >= 2, NEW sum \in Int, NEW fixed \in Int
  PROVE  Score(n, sum, fixed) \in Int
<1>1. 10 * n - 19 \in Nat \ {0}
  OBVIOUS
<1>2. sum + fixed * n \in Int
  OBVIOUS
<1>3. (sum + fixed * n) * 10 * Unit \in Int
  BY <1>2, UnitAssumption
<1>4. QED
  BY <1>1, <1>3 DEF Score

\* The adjusted score is an integer; alignMaxDiff is not zero where it divides.
LEMMA AlignedType ==
  ASSUME NEW s \in Settings, NEW score \in Int, NEW bytes \in Int, NEW prev \in Int
  PROVE  Aligned(s, score, bytes, prev) \in Int
<1> DEFINE diff == Dist(Log(bytes), Log(prev))
<1>1. diff \in Nat
  BY LogType DEF Dist
<1>2. s.alignMaxDiff \in Nat /\ s.alignMaxAdjust \in Nat
  BY DEF Settings
<1> DEFINE q == (diff * Unit) \div s.alignMaxDiff
           adjust == Interpolate(s.alignMaxAdjust, Unit, q)
<1>3. ASSUME diff < s.alignMaxDiff
      PROVE  (score * adjust) \div Unit \in Int
  <2>1. s.alignMaxDiff \in Nat \ {0} /\ diff * Unit \in Int
    BY <1>1, <1>2, <1>3, UnitAssumption
  <2>2. q \in Int
    BY <2>1
  <2>3. adjust \in Int
    <3>1. Unit \in Int /\ s.alignMaxAdjust \in Int
      BY <1>2, UnitAssumption
    <3> HIDE DEF q, diff
    <3>2. QED
      BY <2>2, <3>1, InterpolateType
  <2>4. QED
    <3> HIDE DEF adjust
    <3>1. score * adjust \in Int
      BY <2>3
    <3>2. QED
      BY <3>1, UnitAssumption
<1>4. QED
  BY <1>3 DEF Aligned

-----------------------------------------------------------------------------
(***************************************************************************)
(* The loops keep their cursor inside the range they scan, and take no     *)
(* candidate before the scan is over.                                      *)
(***************************************************************************)
LoopOK ==
  /\ pc \in {"begin", "extend", "trim"} => ri \in DOMAIN args.ranges
  /\ pc \in {"extend", "trim"} => begin < Count(ri) /\ begin + 2 <= end
  /\ pc = "trim" => end <= Count(ri) /\ trim.end <= end /\ begin + 2 <= trim.end
  /\ pc \notin {"pick", "done"} => rest = {} /\ out = <<>>
  /\ pc = "entry" => scored = <<>>

Inv == TypeOK /\ LoopOK

\* What consider appends is an estimate.
LEMMA EstimateType ==
  ASSUME args \in Inputs, NEW r \in DOMAIN args.ranges,
         NEW b \in Nat, NEW e \in Nat, b + 2 <= e, e <= Count(r),
         NEW bytes \in Int, NEW rows \in Int, NEW prev \in Int
  PROVE  EstimateOK(Estimate(r, b, e, bytes, rows, prev))
<1>1. S \in Settings /\ S.fixedCost \in Int
  BY ArgumentTypes DEF Settings
<1>2. e - b \in Int /\ e - b >= 2
  OBVIOUS
<1>3. Score(e - b, bytes, S.fixedCost) \in Int
  BY <1>1, <1>2, ScoreType
<1>4. Aligned(S, Score(e - b, bytes, S.fixedCost), bytes, prev) \in Int
  BY <1>1, <1>3, AlignedType
<1>5. QED
  BY <1>4 DEF Estimate, EstimateOK

\* A call starts with nothing scanned.
LEMMA InitInv == Init => Inv
  BY DEF Init, Idle, Inv, TypeOK, LoopOK, Sums, Trim

\* The running sums stay sums.
LEMMA SumsType ==
  ASSUME NEW p \in Part, NEW a \in Sums
  PROVE  Start(p) \in Sums /\ Grow(a, p) \in Sums
<1>1. p.size \in Nat /\ p.rows \in Nat /\ p.age \in Nat
  BY DEF Part
<1>2. a.bytes \in Nat /\ a.rows \in Nat /\ a.max \in Nat /\ a.age \in Nat
  BY DEF Sums
<1>3. Greatest(a.max, p.size) \in Nat /\ Least(a.age, p.age) \in Nat
  BY <1>1, <1>2 DEF Greatest, Least
<1>4. QED
  BY <1>1, <1>2, <1>3 DEF Start, Grow, Sums

\* No step of a call leaves the types or the loops' bounds.
LEMMA StepInv == Inv /\ [Next]_vars => Inv'
<1> SUFFICES ASSUME Inv, [Next]_vars PROVE Inv'
  OBVIOUS
<1> USE DEF Inv
<1>0. /\ args.ranges \in Seq(Seq(Part)) /\ args.limits \in Seq(Limit) /\ S \in Settings
      /\ \A r \in DOMAIN args.ranges :
           Count(r) \in Nat /\ \A p \in 1..Count(r) : Parts(r)[p] \in Part
  BY ArgumentTypes DEF TypeOK
<1>1. CASE Enter
  BY <1>1 DEF Enter, scan, picks, TypeOK, LoopOK, EstimateOK, Count
<1>20. CASE SkipRange
  BY <1>20 DEF SkipRange, picks, TypeOK, LoopOK, EstimateOK, Count
<1>2. CASE OpenRange
  <2>1. ri \in DOMAIN args.ranges
    BY <1>0, <1>2 DEF OpenRange, TypeOK
  <2>2. S.window \in Nat /\ Count(ri) \in Nat
    BY <1>0, <2>1 DEF Settings
  <2>3. begin' \in Nat
    BY <1>2, <2>2 DEF OpenRange, FirstBegin
  <2>4. QED
    BY <1>2, <2>1, <2>3 DEF OpenRange, picks, TypeOK, LoopOK, EstimateOK, Count
<1>3. CASE CloseRange
  BY <1>3 DEF CloseRange, picks, TypeOK, LoopOK, EstimateOK, Count
<1>4. CASE OpenBegin
  <2>1. ri \in DOMAIN args.ranges
    BY <1>4 DEF OpenBegin, LoopOK
  <2>2. begin + 1 \in 1..Count(ri)
    BY <1>0, <1>4, <2>1 DEF OpenBegin, TypeOK
  <2>3. acc' \in Sums
    BY <1>0, <1>4, <2>1, <2>2, SumsType DEF OpenBegin, TypeOK
  <2>4. QED
    BY <1>4, <2>1, <2>3 DEF OpenBegin, picks, TypeOK, LoopOK, EstimateOK, Count
<1>5. CASE CloseBegin
  BY <1>5 DEF CloseBegin, picks, TypeOK, LoopOK, EstimateOK, Count
<1>6. ASSUME pc = "extend", CanGrow
      PROVE  ri \in DOMAIN args.ranges /\ end <= Count(ri) /\ Grown \in Sums
  <2>1. ri \in DOMAIN args.ranges /\ end <= Count(ri)
    BY <1>6 DEF CanGrow, LoopOK
  <2>2. end \in 1..Count(ri)
    BY <1>0, <1>6, <2>1 DEF TypeOK, LoopOK
  <2>3. QED
    BY <1>0, <2>1, <2>2, SumsType DEF Grown, TypeOK
<1>7. CASE Refuse
  <2>1. acc' \in Sums
    BY <1>6, <1>7 DEF Refuse
  <2>2. QED
    BY <1>7, <2>1 DEF Refuse, picks, TypeOK, LoopOK, EstimateOK, Count
<1>8. CASE Accept
  <2>1. acc' \in Sums /\ end <= Count(ri)
    BY <1>6, <1>8 DEF Accept
  <2>2. trim' \in Trim /\ trim'.end = end
    BY <1>8 DEF Accept, Trim, TypeOK
  <2>3. LoopOK'
    BY <1>8, <2>1, <2>2 DEF Accept, picks, TypeOK, LoopOK, Count
  <2>4. QED
    BY <1>8, <2>1, <2>2, <2>3 DEF Accept, picks, TypeOK, EstimateOK, Count
<1>9. ASSUME pc = "trim"
      PROVE  /\ ri \in DOMAIN args.ranges /\ trim.end \in Nat
             /\ begin + 2 <= trim.end /\ trim.end <= Count(ri)
  <2>1. trim.end \in Int /\ ri \in DOMAIN args.ranges
    BY <1>9 DEF TypeOK, Trim, LoopOK
  <2>2. QED
    BY <1>0, <1>9, <2>1 DEF TypeOK, LoopOK
<1>10. CASE TrimRight
  <2>1. pc = "trim" /\ pc' = "trim" /\ trim' = DropRight(trim)
    BY <1>10 DEF TrimRight
  <2> DEFINE p == Parts(ri)[trim.end]
  <2>2. trim.end \in 1..Count(ri)
    BY <1>0, <1>9, <2>1 DEF TypeOK
  <2>3. p \in Part
    BY <1>0, <1>9, <2>1, <2>2
  <2>4. p.size \in Nat /\ p.rows \in Nat
    BY <2>3 DEF Part
  <2>5. trim.end \in Int /\ trim.bytes \in Nat /\ trim.rows \in Nat
    BY DEF TypeOK, Trim
  <2>6. trim' = [end |-> trim.end - 1, bytes |-> trim.bytes + p.size,
                 rows |-> trim.rows + p.rows]
    BY <2>1 DEF DropRight
  <2>7. trim' \in Trim /\ trim'.end = trim.end - 1
    <3> HIDE DEF p
    <3> QED
      BY <2>4, <2>5, <2>6 DEF Trim
  <2>8. trim.end >= begin + 3
    BY <1>10 DEF TrimRight, SmallAtRight
  <2>9. UNCHANGED <<args, pc, ri, begin, end, acc, scored, rest, out>>
    BY <1>10 DEF TrimRight, picks
  <2>10. LoopOK'
    BY <2>5, <2>7, <2>8, <2>9 DEF TypeOK, LoopOK, Count
  <2>11. QED
    BY <2>7, <2>9, <2>10 DEF TypeOK, EstimateOK, Count
<1>11. CASE Consider
  <2> DEFINE bytes == acc.bytes - trim.bytes
             rows  == acc.rows - trim.rows
             prev  == PrevAtLeft(ri, begin)
             new   == Estimate(ri, begin, trim.end, bytes, rows, prev)
  <2>1. /\ ri \in DOMAIN args.ranges /\ trim.end \in Nat /\ begin \in Nat
        /\ begin + 2 <= trim.end /\ trim.end <= Count(ri)
    BY <1>9, <1>11 DEF Consider, TypeOK
  <2>2. prev \in Int
    <3>1. CASE begin > 0
      <4>1. begin \in 1..Count(ri)
        BY <1>0, <2>1, <3>1
      <4>2. Parts(ri)[begin].size \in Nat
        BY <1>0, <2>1, <4>1 DEF Part
      <4>3. QED
        BY <3>1, <4>2 DEF PrevAtLeft
    <3>2. CASE ~(begin > 0)
      BY <3>2 DEF PrevAtLeft
    <3>3. QED
      BY <3>1, <3>2
  <2>3. bytes \in Int /\ rows \in Int
    BY DEF TypeOK, Sums, Trim
  <2>4. EstimateOK(new)
    <3>1. args \in Inputs
      BY DEF TypeOK
    <3> HIDE DEF bytes, rows, prev
    <3>2. QED
      BY <2>1, <2>2, <2>3, <3>1, EstimateType
  <2> HIDE DEF new
  <2>5. scored' = Append(scored, new) /\ UNCHANGED <<args, ri, begin, acc, trim, rest, out>>
    BY <1>11 DEF Consider, picks, new
  <2>6. DOMAIN scored' = 1..Len(scored') /\ \A i \in DOMAIN scored' : EstimateOK(scored'[i])
    BY <2>4, <2>5 DEF TypeOK
  <2>7. QED
    BY <1>11, <2>5, <2>6 DEF Consider, picks, TypeOK, LoopOK, EstimateOK, Count
<1>12. CASE SortScored
  BY <1>12 DEF SortScored, scan, TypeOK, LoopOK, EstimateOK, Count
<1>13. ASSUME NEW i \in rest, Take(i) PROVE Inv'
  BY <1>13 DEF Take, scan, TypeOK, LoopOK, EstimateOK, Count
<1>14. ASSUME NEW i \in rest, Pass(i) PROVE Inv'
  BY <1>14 DEF Pass, scan, TypeOK, LoopOK, EstimateOK, Count
<1>15. CASE Return
  BY <1>15 DEF Return, scan, picks, TypeOK, LoopOK, EstimateOK, Count
<1>16. CASE UNCHANGED vars
  BY <1>16 DEF vars, scan, picks, TypeOK, LoopOK, EstimateOK, Count
<1>17. QED
  BY <1>1, <1>2, <1>3, <1>4, <1>5, <1>7, <1>8, <1>10, <1>11, <1>12, <1>13, <1>14, <1>15,
     <1>16, <1>20 DEF Next

\* Whatever it is called with, Select keeps its cursor inside the range it scans and
\* its estimates are ranges of at least two adjacent parts.
THEOREM TypeCorrect == Spec => []TypeOK
<1>1. Inv => TypeOK
  BY DEF Inv
<1>2. QED
  BY <1>1, InitInv, StepInv, PTL DEF Spec

-----------------------------------------------------------------------------
(***************************************************************************)
(* The picking pass.  It stands between the estimates sorted before next   *)
(* and those in rest; what it has passed is taken, or had a reason not to  *)
(* be.  BestFirst, NothingBetterLeftOut and the contract do not say where  *)
(* the pass stands, so none of them is inductive by itself.                *)
(***************************************************************************)
Chosen(i)    == \E k \in DOMAIN out : out[k] = i
Unfit(i)     == \E l \in DOMAIN args.limits : ~Fits(scored[i], args.limits[l])
PassedFor(i) == \E k \in DOMAIN out : /\ Before(out[k], i)
                                       /\ Overlap(scored[i], scored[out[k]])

PickOK ==
  pc \in {"pick", "done"} =>
    /\ Len(out) <= Len(args.limits)
    /\ \A k \in DOMAIN out : out[k] \notin rest
    /\ \A k \in DOMAIN out, j \in rest : Before(out[k], j)
    /\ \A k, l \in DOMAIN out : k < l => Before(out[k], out[l])
    /\ \A k, l \in DOMAIN out : k # l => ~Overlap(scored[out[k]], scored[out[l]])
    /\ \A i \in DOMAIN scored \ rest : Chosen(i) \/ Unfit(i) \/ PassedFor(i)

\* A step of the picking pass that takes i, in terms of the sequence alone.
LEMMA TakeAppends ==
  ASSUME Inv, NEW i \in rest, Take(i)
  PROVE  /\ DOMAIN out' = 1 .. Len(out) + 1 /\ DOMAIN out = 1 .. Len(out) /\ Len(out) \in Nat
         /\ out'[Len(out) + 1] = i
         /\ \A k \in DOMAIN out : out'[k] = out[k]
         /\ i \in DOMAIN scored
  BY DEF Take, Inv, TypeOK

\* Taking the next estimate keeps what the pass has established.
LEMMA TakePick == ASSUME Inv, PickOK, NEW i \in rest, Take(i) PROVE PickOK'
<1> DEFINE n == Len(out) + 1
<1>1. /\ DOMAIN out' = 1..n /\ DOMAIN out = 1 .. Len(out) /\ Len(out) \in Nat /\ out'[n] = i
      /\ \A k \in DOMAIN out : out'[k] = out[k]
      /\ i \in DOMAIN scored
  BY TakeAppends
<1>2. /\ pc = "pick" /\ rest' = rest \ {i} /\ UNCHANGED <<args, pc, scored>>
      /\ IsNext(i) /\ ~Taken(scored[i])
  BY DEF Take, Takeable, scan
<1>3. \A a, b : Before(a, b)' <=> Before(a, b)
  BY <1>2 DEF Before
<1>4. \A k \in DOMAIN out' : k \in DOMAIN out \/ k = n
  BY <1>1
<1>5. \A k \in DOMAIN out : out'[k] = out[k] /\ k < n /\ k \in Nat
  BY <1>1
<1>6. \A k \in DOMAIN out : Before(out[k], i) /\ out[k] \notin rest
  BY <1>2 DEF PickOK
<1>7. \A j \in rest' : Before(i, j)
  BY <1>2 DEF IsNext
<1>8. \A k \in DOMAIN out' : out'[k] \notin rest'
  BY <1>1, <1>2, <1>4, <1>5, <1>6
<1>9. \A k \in DOMAIN out', j \in rest' : Before(out'[k], j)
  BY <1>1, <1>2, <1>4, <1>5, <1>7 DEF PickOK
<1>10. \A k, l \in DOMAIN out' : k < l => Before(out'[k], out'[l])
  <2> SUFFICES ASSUME NEW k \in DOMAIN out', NEW l \in DOMAIN out', k < l
               PROVE  Before(out'[k], out'[l])
    OBVIOUS
  <2>1. k \in DOMAIN out
    BY <1>1
  <2>2. CASE l \in DOMAIN out
    BY <1>2, <1>5, <2>1, <2>2 DEF PickOK
  <2>3. CASE l = n
    BY <1>1, <1>5, <1>6, <2>1, <2>3
  <2>4. QED
    BY <1>4, <2>2, <2>3
<1>11. \A k \in DOMAIN out : ~Overlap(scored[i], scored[out[k]])
                           /\ ~Overlap(scored[out[k]], scored[i])
  BY <1>2 DEF Taken, Overlap
<1>12. \A k, l \in DOMAIN out' : k # l => ~Overlap(scored[out'[k]], scored[out'[l]])
  <2> SUFFICES ASSUME NEW k \in DOMAIN out', NEW l \in DOMAIN out', k # l
               PROVE  ~Overlap(scored[out'[k]], scored[out'[l]])
    OBVIOUS
  <2>1. CASE k \in DOMAIN out /\ l \in DOMAIN out
    BY <1>2, <1>5, <2>1 DEF PickOK
  <2>2. CASE k = n /\ l \in DOMAIN out
    BY <1>1, <1>5, <1>11, <2>2
  <2>3. CASE k \in DOMAIN out /\ l = n
    BY <1>1, <1>5, <1>11, <2>3
  <2>4. QED
    BY <1>4, <2>1, <2>2, <2>3
<1>13. ASSUME NEW j \in DOMAIN scored \ rest'
       PROVE  Chosen(j)' \/ Unfit(j)' \/ PassedFor(j)'
  <2>1. CASE j = i
    BY <1>1, <2>1 DEF Chosen
  <2>2. CASE j \notin rest
    <3>1. Chosen(j) \/ Unfit(j) \/ PassedFor(j)
      BY <1>2, <2>2 DEF PickOK
    <3>2. Unfit(j)' <=> Unfit(j)
      BY <1>2 DEF Unfit
    <3>3. \A k \in DOMAIN out : k \in DOMAIN out'
      BY <1>1
    <3>4. Chosen(j) => Chosen(j)'
      BY <1>5, <3>3 DEF Chosen
    <3>5. PassedFor(j) => PassedFor(j)'
      BY <1>2, <1>3, <1>5, <3>3 DEF PassedFor
    <3>6. QED
      BY <3>1, <3>2, <3>4, <3>5
  <2>3. QED
    BY <1>2, <2>1, <2>2
<1>15. Len(out') <= Len(args.limits)
  BY <1>1 DEF Take, scan, Inv, TypeOK
<1>14. QED
  BY <1>2, <1>3, <1>15, <1>8, <1>9, <1>10, <1>12, <1>13 DEF PickOK

\* So does passing it over.
LEMMA PassPick == ASSUME Inv, PickOK, NEW i \in rest, Pass(i) PROVE PickOK'
<1>1. /\ pc = "pick" /\ rest' = rest \ {i} /\ UNCHANGED <<args, pc, scored, out>>
      /\ ~Takeable(scored[i]) /\ Len(out) < Len(args.limits)
  BY DEF Pass, scan
<1>2. \A a, b : Before(a, b)' <=> Before(a, b)
  BY <1>1 DEF Before
<1>3. \A j : (Chosen(j)' <=> Chosen(j)) /\ (Unfit(j)' <=> Unfit(j))
            /\ (PassedFor(j)' <=> PassedFor(j))
  BY <1>1, <1>2 DEF Chosen, Unfit, PassedFor
<1>4. Unfit(i) \/ PassedFor(i)
  <2>1. ~Fits(scored[i], args.limits[Len(out) + 1]) \/ Taken(scored[i])
    BY <1>1 DEF Takeable
  <2>2. Len(out) + 1 \in DOMAIN args.limits
    BY <1>1, ArgumentTypes DEF Inv, TypeOK
  <2>3. \A k \in DOMAIN out : Before(out[k], i)
    BY <1>1 DEF PickOK
  <2>4. Taken(scored[i]) => PassedFor(i)
    BY <2>3 DEF Taken, PassedFor
  <2>5. QED
    BY <2>1, <2>2, <2>4 DEF Unfit
<1>5. \A j \in DOMAIN scored \ rest' : Chosen(j)' \/ Unfit(j)' \/ PassedFor(j)'
  BY <1>1, <1>3, <1>4 DEF PickOK
<1>6. QED
  BY <1>1, <1>2, <1>5 DEF PickOK

\* Before the pass nothing is taken.
LEMMA InitPick == Init => PickOK
  BY DEF Init, Idle, PickOK

\* No step of a call breaks what the pass has established.
LEMMA StepPick == Inv /\ PickOK /\ [Next]_vars => PickOK'
<1> SUFFICES ASSUME Inv, PickOK, [Next]_vars PROVE PickOK'
  OBVIOUS
<1>0. CASE Enter
  BY <1>0 DEF Enter, scan, picks, PickOK, Inv, LoopOK
<1>1. CASE SkipRange \/ OpenRange \/ CloseRange \/ OpenBegin \/ CloseBegin \/ Refuse \/ Accept
           \/ TrimRight \/ Consider
  BY <1>1 DEF SkipRange, OpenRange, CloseRange, OpenBegin, CloseBegin, Refuse, Accept,
              TrimRight, Consider, PickOK
<1>2. CASE SortScored
  BY <1>2 DEF SortScored, scan, PickOK, Inv, LoopOK
<1>3. ASSUME NEW i \in rest, Take(i) PROVE PickOK'
  BY <1>3, TakePick
<1>4. ASSUME NEW i \in rest, Pass(i) PROVE PickOK'
  BY <1>4, PassPick
<1>5. CASE Return \/ UNCHANGED vars
  <2>1. UNCHANGED <<args, scored, rest, out>>
    BY <1>5 DEF Return, vars, scan, picks
  <2>2. pc' \in {"pick", "done"} => pc \in {"pick", "done"}
    BY <1>5 DEF Return, vars
  <2>3. QED
    BY <2>1, <2>2 DEF PickOK, Before, Chosen, Unfit, PassedFor
<1>6. QED
  BY <1>0, <1>1, <1>2, <1>3, <1>4, <1>5 DEF Next

\* At every moment of the picking pass, whatever was passed over has its reason.
THEOREM PickCorrect == Spec => [](Inv /\ PickOK)
<1>1. Init => Inv /\ PickOK
  BY InitInv, InitPick
<1>2. (Inv /\ PickOK) /\ [Next]_vars => (Inv /\ PickOK)'
  BY StepInv, StepPick
<1>3. QED
  BY <1>1, <1>2, PTL DEF Spec

-----------------------------------------------------------------------------
(***************************************************************************)
(* The promises of Select follow from where the pass stands.               *)
(***************************************************************************)

\* Overlapping by begin and end is to share a part.
LEMMA OverlapIsSharing ==
  ASSUME NEW i \in DOMAIN scored, NEW j \in DOMAIN scored,
         EstimateOK(scored[i]), EstimateOK(scored[j])
  PROVE  Overlap(scored[i], scored[j]) <=> PartsOf(i) \cap PartsOf(j) # {}
<1> DEFINE a == scored[i]
           b == scored[j]
<1>1. /\ a.begin \in Nat /\ a.end \in Nat /\ a.begin + 2 <= a.end
      /\ b.begin \in Nat /\ b.end \in Nat /\ b.begin + 2 <= b.end
  BY DEF EstimateOK
<1>2. ASSUME Overlap(a, b) PROVE PartsOf(i) \cap PartsOf(j) # {}
  <2>1. a.range = b.range /\ a.begin < b.end /\ b.begin < a.end
    BY <1>2 DEF Overlap
  <2> DEFINE p == Greatest(a.begin, b.begin) + 1
  <2>2. p \in a.begin + 1 .. a.end /\ p \in b.begin + 1 .. b.end
    BY <1>1, <2>1 DEF Greatest
  <2>3. <<a.range, p>> \in PartsOf(i) /\ <<a.range, p>> \in PartsOf(j)
    BY <2>1, <2>2 DEF PartsOf
  <2>4. QED
    BY <2>3
<1>3. ASSUME PartsOf(i) \cap PartsOf(j) # {} PROVE Overlap(a, b)
  <2>1. PICK x : x \in PartsOf(i) /\ x \in PartsOf(j)
    BY <1>3
  <2>2. PICK p \in a.begin + 1 .. a.end : x = <<a.range, p>>
    BY <2>1 DEF PartsOf
  <2>3. PICK q \in b.begin + 1 .. b.end : x = <<b.range, q>>
    BY <2>1 DEF PartsOf
  <2>4. a.range = b.range /\ p = q
    BY <2>2, <2>3
  <2>5. a.begin < b.end /\ b.begin < a.end
    BY <1>1, <2>2, <2>3, <2>4
  <2>6. QED
    BY <2>4, <2>5 DEF Overlap
<1>4. QED
  BY <1>2, <1>3

\* What the stable sort puts first is of no lower rank.
LEMMA BeforeIsSorted ==
  ASSUME NEW i \in DOMAIN scored, NEW j \in DOMAIN scored,
         EstimateOK(scored[i]), EstimateOK(scored[j]), Before(i, j)
  PROVE  SortedBefore(scored[i], scored[j])
  BY DEF Before, SortedBefore, EstimateOK

\* The candidates are estimates.
LEMMA OutIsScored ==
  ASSUME Inv
  PROVE  /\ \A k \in DOMAIN out : out[k] \in DOMAIN scored
         /\ \A i \in DOMAIN scored : EstimateOK(scored[i])
  BY DEF Inv, TypeOK

\* Candidates come out lowest score first, on a tie from the right.
THEOREM Ordered == Spec => []BestFirst
<1>1. Inv /\ PickOK => BestFirst
  <2> SUFFICES ASSUME Inv, PickOK, NEW k \in DOMAIN out, NEW l \in DOMAIN out, k < l
               PROVE  SortedBefore(scored[out[k]], scored[out[l]])
    BY DEF BestFirst
  <2>1. pc \in {"pick", "done"}
    BY DEF Inv, LoopOK
  <2>2. Before(out[k], out[l])
    BY <2>1 DEF PickOK
  <2>3. QED
    BY <2>2, OutIsScored, BeforeIsSorted
<1>2. QED
  BY <1>1, PickCorrect, PTL

\* A merge that is not among the candidates is too big for a constraint, shares a
\* part with a better one that is, or is worse than all of them.
THEOREM Greedy == Spec => []NothingBetterLeftOut
<1>1. Inv /\ PickOK => NothingBetterLeftOut
  <2> SUFFICES ASSUME Inv, PickOK, pc \in {"pick", "done"}, NEW i \in DOMAIN scored
               PROVE  \/ Chosen(i) \/ Unfit(i)
                      \/ \E k \in DOMAIN out : /\ SortedBefore(scored[out[k]], scored[i])
                                              /\ PartsOf(out[k]) \cap PartsOf(i) # {}
                      \/ /\ i \in rest
                         /\ \A k \in DOMAIN out : SortedBefore(scored[out[k]], scored[i])
    BY DEF NothingBetterLeftOut, Chosen, Unfit
  <2>1. CASE i \in rest
    <3>1. \A k \in DOMAIN out : Before(out[k], i)
      BY <2>1 DEF PickOK
    <3>2. QED
      BY <2>1, <3>1, OutIsScored, BeforeIsSorted
  <2>2. CASE PassedFor(i)
    <3>1. PICK k \in DOMAIN out : Before(out[k], i) /\ Overlap(scored[i], scored[out[k]])
      BY <2>2 DEF PassedFor
    <3>2. SortedBefore(scored[out[k]], scored[i])
      BY <3>1, OutIsScored, BeforeIsSorted
    <3>3. PartsOf(out[k]) \cap PartsOf(i) # {}
      BY <3>1, OutIsScored, OverlapIsSharing
    <3>4. QED
      BY <3>2, <3>3
  <2>3. QED
    BY <2>1, <2>2 DEF PickOK
<1>2. QED
  BY <1>1, PickCorrect, PTL
-----------------------------------------------------------------------------
(***************************************************************************)
(* Select keeps its contract: returning is the contract's one step, every  *)
(* other step stutters.                                                    *)
(***************************************************************************)
Answer == [k \in DOMAIN out |-> [range |-> scored[out[k]].range,
                                begin |-> scored[out[k]].begin,
                                end   |-> scored[out[k]].end]]
Given  == [lens |-> [r \in DOMAIN args.ranges |-> Count(r)], limit |-> Len(args.limits)]

AnswerOK == pc = "done" => Contract!Answers(Given, Answer)

\* The answer of a finished pass is one the contract allows.
LEMMA AnswerAnswers == Inv /\ PickOK => AnswerOK
<1> SUFFICES ASSUME Inv, PickOK, pc = "done" PROVE Contract!Answers(Given, Answer)
  BY DEF AnswerOK
<1>1. out \in Seq(DOMAIN scored) /\ DOMAIN out = 1 .. Len(out) /\ Len(out) \in Nat
  BY DEF Inv, TypeOK
<1>2. DOMAIN Answer = 1 .. Len(out)
  BY <1>1 DEF Answer
<1>3. Len(Answer) = Len(out)
  BY <1>1, <1>2 DEF Answer
<1>4. \A k \in DOMAIN out : /\ Answer[k].range = scored[out[k]].range
                            /\ Answer[k].begin = scored[out[k]].begin
                            /\ Answer[k].end   = scored[out[k]].end
  BY DEF Answer
<1>5. \A k \in DOMAIN out : Contract!SubRangeOf(Answer[k], Given.lens)
  BY <1>4, OutIsScored DEF Contract!SubRangeOf, Given, EstimateOK
<1>6. \A k \in DOMAIN out : Contract!Covered(Answer[k]) = PartsOf(out[k])
  BY <1>4 DEF Contract!Covered, PartsOf
<1>7. \A k, l \in DOMAIN out : k # l => PartsOf(out[k]) \cap PartsOf(out[l]) = {}
  BY OutIsScored, OverlapIsSharing DEF PickOK
<1>8. Len(out) <= Given.limit
  BY DEF PickOK, Given
<1>9. QED
  BY <1>1, <1>2, <1>3, <1>5, <1>6, <1>7, <1>8 DEF Contract!Answers

\* Whatever Select is called with, a caller sees one answer and a sound one.
THEOREM Implements == Spec => KeepsContract
<1>1. Init => Contract!Init
  BY DEF Init, Idle, Contract!Init
<1>2. AnswerOK' /\ [Next]_vars => [Contract!Return]_(Contract!vars)
  <2> SUFFICES ASSUME AnswerOK', [Next]_vars
               PROVE  Contract!Return \/ UNCHANGED Contract!vars
    OBVIOUS
  <2>1. UNCHANGED args
    BY DEF Next, Enter, SkipRange, OpenRange, CloseRange, OpenBegin, CloseBegin, Refuse, Accept,
           TrimRight, Consider, SortScored, Take, Pass, Return, vars
  <2>2. UNCHANGED Given
    BY <2>1 DEF Given, Count
  <2>3. CASE pc # "done" /\ pc' = "done"
    <3>1. Contract!Answers(Given, Answer)'
      BY <2>3 DEF AnswerOK
    <3>2. QED
      BY <2>2, <2>3, <3>1 DEF Contract!Return, Given, Answer
  <2>4. CASE pc # "done" /\ pc' # "done"
    BY <2>2, <2>4 DEF Contract!vars, Given
  <2>5. CASE pc = "done"
    <3>1. UNCHANGED <<args, pc, scored, out>>
      BY <2>5 DEF Next, Enter, SkipRange, OpenRange, CloseRange, OpenBegin, CloseBegin, Refuse,
                  Accept, TrimRight, Consider, SortScored, Take, Pass, Return, vars, scan, picks
    <3>2. QED
      BY <2>2, <2>5, <3>1 DEF Contract!vars, Given
  <2>6. QED
    BY <2>3, <2>4, <2>5
<1>3. QED
  BY <1>1, <1>2, AnswerAnswers, PickCorrect, PTL DEF Spec, Contract!Spec, KeepsContract

-----------------------------------------------------------------------------
(***************************************************************************)
(* The lowering of max_parts_to_merge_at_once in selectWithinPartsRange:   *)
(* what the fixed-point quotients and powers of the formula can come to.   *)
(***************************************************************************)

\* A set of numbers that is not empty has a least one.
LEMMA LeastNumber ==
  ASSUME NEW Q \in SUBSET Nat, Q # {}
  PROVE  \E m \in Q : \A n \in Q : m <= n
<1> DEFINE R == OpToRel(<, Nat)
<1>1. IsWellFoundedOn(R, Nat)
  BY NatLessThanWellFounded, Zenon
<1>2. \A m, n \in Nat : m < n => <<m, n>> \in R
  BY DEF OpToRel
<1> HIDE DEF R
<1>3. PICK m \in Q : \A n \in Q : ~(<<n, m>> \in R)
  BY <1>1, WFMin
<1>4. \A n \in Q : ~(n < m)
  BY <1>2, <1>3
<1>5. QED
  BY <1>4

\* The quotient is the greatest number that goes so many times into the dividend.
LEMMA DivLeast ==
  ASSUME NEW a \in Int, NEW u \in Nat \ {0}, NEW q \in Int, u * q <= a
  PROVE  a \div u \in Int /\ q <= a \div u
<1>1. PICK d \in Int : d = a \div u /\ a < u * (d + 1)
  OBVIOUS
<1>2. u * q < u * (d + 1)
  BY <1>1
<1>3. q < d + 1
  BY <1>2
<1>4. QED
  BY <1>1, <1>3

LEMMA DivMost ==
  ASSUME NEW a \in Int, NEW u \in Nat \ {0}, NEW q \in Int, a < u * (q + 1)
  PROVE  a \div u \in Int /\ a \div u <= q
<1>1. PICK d \in Int : d = a \div u /\ u * d <= a
  OBVIOUS
<1>2. u * d < u * (q + 1)
  BY <1>1
<1>3. d < q + 1
  BY <1>2
<1>4. QED
  BY <1>1, <1>3

LEMMA DivMono ==
  ASSUME NEW a \in Int, NEW b \in Int, NEW u \in Nat \ {0}, a <= b
  PROVE  a \div u <= b \div u /\ a \div u \in Int /\ b \div u \in Int
<1>1. PICK d \in Int : d = a \div u /\ u * d <= a
  OBVIOUS
<1>2. u * d \in Int /\ u * d <= b
  BY <1>1
<1>3. QED
  BY <1>1, <1>2, DivLeast

LEMMA TimesMono ==
  ASSUME NEW a \in Nat, NEW b \in Nat, NEW x \in Nat, NEW y \in Nat, a <= b, x <= y
  PROVE  a * x \in Nat /\ b * y \in Nat /\ a * x <= b * y
<1>1. a * x <= b * x
  OBVIOUS
<1>2. b * x <= b * y
  OBVIOUS
<1>3. a * x \in Nat /\ b * x \in Nat /\ b * y \in Nat
  OBVIOUS
<1>4. QED
  BY <1>1, <1>2, <1>3

\* A quotient rounded up, of numbers up to u times the divisor.
LEMMA CeilDivRange ==
  ASSUME NEW a \in Nat, NEW d \in Nat \ {0}, NEW u \in Nat, a <= d * u
  PROVE  CeilDiv(a, d) \in 0 .. u
<1>1. PICK n \in Int : n = a + d - 1 /\ 0 <= n /\ n < d * u + d
  <2>1. d * u \in Nat
    OBVIOUS
  <2>2. QED
    BY <2>1
<1>2. d * u + d = d * (u + 1) /\ d * 0 = 0
  OBVIOUS
<1>3. n \div d <= u
  BY <1>1, <1>2, DivMost
<1>4. 0 <= n \div d /\ n \div d \in Int
  BY <1>1, <1>2, DivLeast
<1>5. QED
  BY <1>1, <1>3, <1>4 DEF CeilDiv

LEMMA CeilDivMono ==
  ASSUME NEW a \in Nat, NEW b \in Nat, NEW d \in Nat \ {0}, a <= b
  PROVE  CeilDiv(a, d) <= CeilDiv(b, d)
BY DivMono DEF CeilDiv

\* The table of powers that Power looks its result up in.
Powers(p, x, n) == p = [k \in 0 .. n |-> IF k = 0 THEN Unit ELSE CeilDiv(p[k - 1] * x, Unit)]

\* There is one: the least n without could be made from that of its predecessor.
LEMMA PowersExist == ASSUME NEW x, NEW n \in Nat PROVE \E p : Powers(p, x, n)
<1> DEFINE Q == {m \in Nat : ~\E p : Powers(p, x, m)}
<1> SUFFICES ASSUME Q # {} PROVE FALSE
  OBVIOUS
<1>1. PICK m \in Q : \A l \in Q : m <= l
  BY LeastNumber
<1>2. m \in Nat /\ ~\E p : Powers(p, x, m)
  OBVIOUS
<1>3. CASE m = 0
  <2>1. Powers([k \in 0 .. 0 |-> Unit], x, 0)
    BY DEF Powers
  <2>2. QED
    BY <1>2, <1>3, <2>1
<1>4. CASE m # 0
  <2>1. m - 1 \in Nat /\ ~(m <= m - 1)
    BY <1>2, <1>4
  <2>2. m - 1 \notin Q
    BY <1>1, <2>1
  <2>3. PICK p : Powers(p, x, m - 1)
    BY <2>1, <2>2
  <2> DEFINE q == [k \in 0 .. m |-> IF k < m THEN p[k] ELSE CeilDiv(p[m - 1] * x, Unit)]
  <2>4. \A k \in 0 .. m - 1 : p[k] = IF k = 0 THEN Unit ELSE CeilDiv(p[k - 1] * x, Unit)
    BY <2>3, Zenon DEF Powers
  <2>5. ASSUME NEW k \in 0 .. m PROVE q[k] = IF k = 0 THEN Unit ELSE CeilDiv(q[k - 1] * x, Unit)
    <3>1. CASE k = m
      <4>1. q[k] = CeilDiv(p[m - 1] * x, Unit) /\ q[m - 1] = p[m - 1]
        BY <1>2, <2>1, <3>1
      <4>2. QED
        BY <1>4, <3>1, <4>1
    <3>2. CASE k \in 1 .. m - 1
      <4>1. q[k] = p[k] /\ q[k - 1] = p[k - 1]
        BY <1>2, <3>2
      <4>2. QED
        BY <2>4, <3>2, <4>1
    <3>3. CASE k = 0 /\ k < m
      BY <1>2, <2>1, <2>4, <3>3
    <3>4. QED
      BY <1>2, <1>4, <3>1, <3>2, <3>3
  <2>6. Powers(q, x, m)
    <3>1. q = [k \in 0 .. m |-> q[k]]
      OBVIOUS
    <3> HIDE DEF q
    <3>2. QED
      BY <2>5, <3>1 DEF Powers
  <2>7. QED
    BY <1>2, <2>6
<1>5. QED
  BY <1>3, <1>4

LEMMA PowerInTable ==
  ASSUME NEW x, NEW n \in Nat
  PROVE  \E p : /\ Power(x, n) = p[n]
                /\ \A k \in 0 .. n : p[k] = IF k = 0 THEN Unit ELSE CeilDiv(p[k - 1] * x, Unit)
<1>1. \E p : Powers(p, x, n) /\ Power(x, n) = p[n]
  BY PowersExist DEF Powers, Power
<1>2. QED
  BY <1>1, Zenon DEF Powers

\* A power of a fraction is one, and a greater fraction has a greater one: the least
\* exponent for which not would follow one for which it is so.
LEMMA PowerMono ==
  ASSUME NEW x \in 0 .. Unit, NEW y \in 0 .. Unit, x <= y, NEW n \in Nat
  PROVE  Power(x, n) \in 0 .. Unit /\ Power(y, n) \in 0 .. Unit /\ Power(x, n) <= Power(y, n)
<1>1. PICK p : /\ Power(x, n) = p[n]
               /\ \A k \in 0 .. n : p[k] = IF k = 0 THEN Unit ELSE CeilDiv(p[k - 1] * x, Unit)
  BY PowerInTable
<1>2. PICK q : /\ Power(y, n) = q[n]
               /\ \A k \in 0 .. n : q[k] = IF k = 0 THEN Unit ELSE CeilDiv(q[k - 1] * y, Unit)
  BY PowerInTable
<1> DEFINE Good(k) == p[k] \in 0 .. Unit /\ q[k] \in 0 .. Unit /\ p[k] <= q[k]
           Q       == {k \in 0 .. n : ~Good(k)}
<1>3. Q = {}
  <2> SUFFICES ASSUME Q # {} PROVE FALSE
    OBVIOUS
  <2>0. Q \in SUBSET Nat
    OBVIOUS
  <2>1. PICK m \in Q : \A l \in Q : m <= l
    <3> HIDE DEF Q
    <3>1. QED
      BY <2>0, LeastNumber
  <2>2. m \in 0 .. n /\ ~Good(m)
    BY <2>1
  <2>3. m # 0
    BY <1>1, <1>2, <2>2, UnitAssumption
  <2>4. m - 1 \in 0 .. n /\ ~(m <= m - 1)
    BY <2>2, <2>3
  <2>5. Good(m - 1)
    BY <2>1, <2>4
  <2>6. PICK a \in Nat, b \in Nat : a = p[m - 1] /\ b = q[m - 1] /\ a <= b /\ b <= Unit
    BY <2>5, UnitAssumption
  <2>7. p[m] = CeilDiv(a * x, Unit) /\ q[m] = CeilDiv(b * y, Unit)
    BY <1>1, <1>2, <2>2, <2>3, <2>6
  <2>8. x \in Nat /\ y \in Nat /\ y <= Unit /\ a * x \in Nat /\ b * y \in Nat /\ a * x <= b * y
    BY <2>6, TimesMono, UnitAssumption
  <2>9. b * y <= Unit * Unit
    BY <2>6, <2>8, TimesMono, UnitAssumption
  <2>10. a * x <= Unit * Unit
    BY <2>8, <2>9, UnitAssumption
  <2>11. Good(m)
    BY <2>7, <2>8, <2>9, <2>10, CeilDivRange, CeilDivMono, UnitAssumption
  <2>12. QED
    BY <2>2, <2>11
<1>4. Good(n)
  BY <1>3
<1>5. QED
  BY <1>1, <1>2, <1>4

\* How far the number of parts is from the base to partsToThrow.
FillOf(s, count) == CeilDiv((count * Unit - s.base) * Unit, s.partsToThrow * Unit - s.base)

Between(s, count) == s.base <= count * Unit /\ count < s.partsToThrow

LEMMA FillMono ==
  ASSUME NEW s \in Settings, NEW count \in Nat, Between(s, count)
  PROVE  /\ FillOf(s, count) \in 0 .. Unit
         /\ Between(s, count + 1) => FillOf(s, count) <= FillOf(s, count + 1)
<1>1. s.base \in Nat /\ s.partsToThrow \in Nat /\ Unit \in Nat \ {0}
  BY UnitAssumption DEF Settings
<1>2. PICK u \in Nat \ {0}, b \in Nat, t \in Nat : u = Unit /\ b = s.base /\ t = s.partsToThrow
  BY <1>1
<1>3. b <= count * u /\ count + 1 <= t
  BY <1>1, <1>2 DEF Between
<1>4. /\ count * u \in Nat /\ t * u \in Nat /\ (count + 1) * u = count * u + u
      /\ (count + 1) * u <= t * u
  BY <1>3, TimesMono
<1>5. PICK d \in Nat \ {0}, m \in Nat : d = t * u - b /\ m = count * u - b /\ m <= d
  BY <1>3, <1>4
<1>6. m * u \in Nat /\ m * u <= d * u /\ (m + u) * u \in Nat /\ m * u <= (m + u) * u
  BY <1>5, TimesMono
<1>7. FillOf(s, count) = CeilDiv(m * u, d) /\ FillOf(s, count + 1) = CeilDiv((m + u) * u, d)
  <2>1. (count + 1) * u - b = m + u
    BY <1>4, <1>5
  <2>2. QED
    BY <1>2, <1>5, <2>1 DEF FillOf
<1>8. QED
  BY <1>2, <1>5, <1>6, <1>7, CeilDivRange, CeilDivMono

\* What the limit comes down to for what is left of 1.
LimitFor(s, left) == (s.base * Unit + (s.maxParts * Unit - s.base) * left) \div (Unit * Unit)

\* From the setting down to the base, if the setting is above it.
LEMMA LimitAboveBase ==
  ASSUME NEW s \in Settings, NEW left \in 0 .. Unit, s.base <= s.maxParts * Unit
  PROVE  /\ LimitFor(s, left) \in Int /\ s.base \div Unit <= LimitFor(s, left)
         /\ \A less \in 0 .. left : LimitFor(s, less) <= LimitFor(s, left)
<1>0. s.maxParts \in Nat /\ s.base \in Nat /\ s.maxParts * Unit \in Nat
  BY TimesMono, UnitAssumption DEF Settings
<1>a. PICK w \in Nat : w = s.maxParts * Unit
  BY <1>0
<1>b. PICK m \in Nat : m = s.maxParts * Unit - s.base
  <2>1. w - s.base \in Nat /\ w - s.base = s.maxParts * Unit - s.base
    BY <1>0, <1>a
  <2>2. QED
    BY <2>1
<1>1. PICK u \in Nat \ {0}, b \in Nat : u = Unit /\ b = s.base /\ m = s.maxParts * u - b
  BY <1>0, <1>b, UnitAssumption
<1>2. PICK v \in Nat \ {0} : v = u * u
  BY TimesMono
<1>3. left \in Nat /\ b * u \in Nat /\ m * left \in Nat
  BY <1>1, TimesMono
<1>4. LimitFor(s, left) = (b * u + m * left) \div v
  BY <1>1, <1>2 DEF LimitFor
<1>5. PICK q \in Nat : q = b \div u /\ u * q <= b
  BY <1>1
<1>6. v * q <= b * u + m * left
  <2>1. u * q \in Nat /\ (u * q) * u <= b * u
    BY <1>5, TimesMono
  <2>2. v * q = (u * q) * u
    BY <1>2
  <2>3. QED
    BY <1>3, <2>1, <2>2
<1>7. b \div u <= LimitFor(s, left) /\ LimitFor(s, left) \in Int
  BY <1>3, <1>4, <1>5, <1>6, DivLeast
<1>8. ASSUME NEW less \in 0 .. left PROVE LimitFor(s, less) <= LimitFor(s, left)
  <2>1. less \in Nat /\ m * less \in Nat /\ m * less <= m * left
    BY <1>3, TimesMono
  <2>2. LimitFor(s, less) = (b * u + m * less) \div v
    BY <1>1, <1>2 DEF LimitFor
  <2>3. QED
    BY <1>3, <1>4, <2>1, <2>2, DivMono
<1>9. QED
  BY <1>1, <1>7, <1>8

\* If the setting is below the base the limit does not come down at all.
LEMMA LimitBelowBase ==
  ASSUME NEW s \in Settings, NEW left \in 0 .. Unit, s.maxParts * Unit < s.base
  PROVE  LimitFor(s, left) \in Int /\ s.maxParts <= LimitFor(s, left)
<1>1. PICK u \in Nat \ {0}, b \in Nat, m \in Nat, c \in Nat :
        u = Unit /\ b = s.base /\ m = s.maxParts /\ c = b - m * u
  BY UnitAssumption DEF Settings
<1>2. PICK v \in Nat \ {0} : v = u * u
  BY TimesMono
<1>3. left \in Nat /\ left <= u /\ c * left \in Nat /\ c * left <= c * u
  BY <1>1, TimesMono
<1>4. (m * u - b) * left = -(c * left)
  BY <1>1, <1>3
<1>5. LimitFor(s, left) = (b * u - c * left) \div v
  BY <1>1, <1>2, <1>4 DEF LimitFor
<1>6. v * m <= b * u - c * left
  <2>1. c * u = b * u - (m * u) * u
    BY <1>1
  <2>2. (m * u) * u = v * m
    BY <1>2
  <2>3. QED
    BY <1>3, <2>1, <2>2
<1>7. PICK a \in Int : a = b * u - c * left
  BY <1>3, TimesMono
<1>8. QED
  BY <1>1, <1>5, <1>6, <1>7, DivLeast

\* What is left of 1 for a partition of count parts, to the power of the exponent.
LeftOf(s, count) == Unit - Power(FillOf(s, count), s.lowerExponent)

LEMMA LeftMono ==
  ASSUME NEW s \in Settings, NEW count \in Nat, Between(s, count)
  PROVE  /\ LeftOf(s, count) \in 0 .. Unit
         /\ Between(s, count + 1) => LeftOf(s, count + 1) \in 0 .. LeftOf(s, count)
<1>1. s.lowerExponent \in Nat /\ FillOf(s, count) \in 0 .. Unit
  BY FillMono DEF Settings
<1>2. Power(FillOf(s, count), s.lowerExponent) \in 0 .. Unit
  BY <1>1, PowerMono
<1>3. LeftOf(s, count) \in 0 .. Unit
  BY <1>2, UnitAssumption DEF LeftOf
<1>4. ASSUME Between(s, count + 1) PROVE LeftOf(s, count + 1) \in 0 .. LeftOf(s, count)
  <2>1. count + 1 \in Nat
    OBVIOUS
  <2>2. FillOf(s, count + 1) \in 0 .. Unit /\ FillOf(s, count) <= FillOf(s, count + 1)
    BY <1>4, <2>1, FillMono
  <2>3. /\ Power(FillOf(s, count + 1), s.lowerExponent) \in 0 .. Unit
        /\ Power(FillOf(s, count), s.lowerExponent)
             <= Power(FillOf(s, count + 1), s.lowerExponent)
    BY <1>1, <2>2, PowerMono
  <2>4. QED
    BY <1>2, <2>3, UnitAssumption DEF LeftOf
<1>5. QED
  BY <1>3, <1>4

\* The three shapes of the limit: as set, at its floor, and in between.
LEMMA CapShape ==
  ASSUME NEW s \in Settings, NEW count \in Nat, s.maxParts # 0
  PROVE  /\ ~s.lowerMaxParts \/ count * Unit < s.base
              => MaxPartsToMergeAtOnce(s, count) = s.maxParts
         /\ s.lowerMaxParts /\ s.base <= count * Unit /\ s.partsToThrow <= count
              => MaxPartsToMergeAtOnce(s, count)
                   = Least(s.maxParts, Greatest(2, s.base \div Unit))
         /\ s.lowerMaxParts /\ Between(s, count)
              => MaxPartsToMergeAtOnce(s, count)
                   = Least(s.maxParts, LimitFor(s, LeftOf(s, count)))
<1>1. s.base \in Nat /\ s.partsToThrow \in Nat /\ count * Unit \in Nat
  BY TimesMono, UnitAssumption DEF Settings
<1>2. LoweredMaxParts(s, count) = LimitFor(s, LeftOf(s, count))
  BY DEF LoweredMaxParts, LimitFor, LeftOf, FillOf
<1>3. QED
  BY <1>1, <1>2 DEF MaxPartsToMergeAtOnce, Between

\* Between the base and partsToThrow the limit allows two parts, or all the setting does.
LEMMA CapBetween ==
  ASSUME NEW s \in Settings, NEW left \in 0 .. Unit, s.base >= 2 * Unit
  PROVE  /\ LimitFor(s, left) \in Int /\ s.base \div Unit \in Nat /\ 2 <= s.base \div Unit
         /\ Least(s.maxParts, s.base \div Unit) <= Least(s.maxParts, LimitFor(s, left))
         /\ \A less \in 0 .. left :
              Least(s.maxParts, LimitFor(s, less)) <= Least(s.maxParts, LimitFor(s, left))
<1>1. s.maxParts \in Nat /\ s.base \in Nat /\ s.maxParts * Unit \in Nat
  BY TimesMono, UnitAssumption DEF Settings
<1>2. s.base \div Unit \in Int /\ 2 <= s.base \div Unit
  <2>1. Unit * 2 <= s.base
    BY <1>1, UnitAssumption
  <2>2. QED
    BY <1>1, <2>1, DivLeast, UnitAssumption
<1>3. CASE s.base <= s.maxParts * Unit
  <2>1. /\ LimitFor(s, left) \in Int /\ s.base \div Unit <= LimitFor(s, left)
        /\ \A less \in 0 .. left : LimitFor(s, less) <= LimitFor(s, left)
    BY <1>3, LimitAboveBase
  <2>2. ASSUME NEW less \in 0 .. left
        PROVE  LimitFor(s, less) \in Int /\ LimitFor(s, less) <= LimitFor(s, left)
    <3>1. less \in 0 .. Unit
      BY UnitAssumption
    <3>2. QED
      BY <1>3, <2>1, <3>1, LimitAboveBase
  <2>3. QED
    BY <1>1, <1>2, <2>1, <2>2 DEF Least
<1>4. CASE s.maxParts * Unit < s.base
  <2>1. ASSUME NEW any \in 0 .. Unit
        PROVE  LimitFor(s, any) \in Int /\ Least(s.maxParts, LimitFor(s, any)) = s.maxParts
    <3>1. LimitFor(s, any) \in Int /\ s.maxParts <= LimitFor(s, any)
      BY <1>4, LimitBelowBase
    <3>2. QED
      BY <1>1, <3>1 DEF Least
  <2>2. \A less \in 0 .. left : less \in 0 .. Unit
    BY UnitAssumption
  <2>3. QED
    BY <1>1, <1>2, <2>1, <2>2 DEF Least
<1>5. QED
  BY <1>1, <1>3, <1>4

\* The lowered limit is never above the setting, allows a merge of two where the setting
\* does, and one more part never raises it.
LEMMA CapFalls ==
  ASSUME NEW s \in Settings, NEW count \in Nat, s.base >= 2 * Unit, s.maxParts # 0
  PROVE  /\ MaxPartsToMergeAtOnce(s, count) \in Least(2, s.maxParts) .. s.maxParts
         /\ MaxPartsToMergeAtOnce(s, count + 1) <= MaxPartsToMergeAtOnce(s, count)
<1>1. /\ s.maxParts \in Nat /\ s.base \in Nat /\ s.partsToThrow \in Nat
      /\ s.lowerMaxParts \in BOOLEAN
  BY DEF Settings
<1>2. /\ count * Unit \in Nat /\ (count + 1) * Unit \in Nat
      /\ count * Unit <= (count + 1) * Unit /\ count + 1 \in Nat
  BY TimesMono, UnitAssumption
<1>3. s.base \div Unit \in Nat /\ 2 <= s.base \div Unit
  <2>1. Unit \in 0 .. Unit
    BY UnitAssumption
  <2>2. QED
    BY <2>1, CapBetween
<1>4. Greatest(2, s.base \div Unit) = s.base \div Unit
  BY <1>3 DEF Greatest
<1> DEFINE cap(n)   == MaxPartsToMergeAtOnce(s, n)
           floor    == Least(s.maxParts, s.base \div Unit)
           Shape(n) == \/ cap(n) = s.maxParts
                       \/ cap(n) = floor
                       \/ \E left \in 0 .. Unit : cap(n) = Least(s.maxParts, LimitFor(s, left))
<1>5. ASSUME NEW n \in Nat, n * Unit \in Nat
      PROVE  cap(n) \in floor .. s.maxParts /\ floor \in Least(2, s.maxParts) .. s.maxParts
  <2>1. floor \in Least(2, s.maxParts) .. s.maxParts
    BY <1>1, <1>3 DEF Least
  <2>2. Shape(n)
    <3>1. CASE ~s.lowerMaxParts \/ n * Unit < s.base
      BY <3>1, CapShape
    <3>2. CASE s.lowerMaxParts /\ s.base <= n * Unit /\ s.partsToThrow <= n
      BY <1>4, <3>2, CapShape
    <3>3. CASE s.lowerMaxParts /\ Between(s, n)
      BY <3>3, CapShape, LeftMono
    <3>4. QED
      BY <1>1, <1>5, <3>1, <3>2, <3>3 DEF Between
  <2>3. CASE cap(n) = s.maxParts
    BY <1>1, <2>1, <2>3 DEF Least
  <2>4. CASE cap(n) = floor
    BY <1>1, <2>1, <2>4 DEF Least
  <2>5. CASE \E left \in 0 .. Unit : cap(n) = Least(s.maxParts, LimitFor(s, left))
    <3>1. PICK left \in 0 .. Unit : cap(n) = Least(s.maxParts, LimitFor(s, left))
      BY <2>5
    <3>2. LimitFor(s, left) \in Int /\ floor <= cap(n)
      BY <3>1, CapBetween
    <3>3. QED
      BY <1>1, <2>1, <3>1, <3>2 DEF Least
  <2>6. QED
    BY <2>1, <2>2, <2>3, <2>4, <2>5
<1>6. cap(count + 1) <= cap(count)
  <2>0. /\ cap(count) \in floor .. s.maxParts
        /\ cap(count + 1) \in floor .. s.maxParts
        /\ floor \in Least(2, s.maxParts) .. s.maxParts
    BY <1>2, <1>5
  <2>1. CASE cap(count) = s.maxParts
    BY <2>0, <2>1, <1>1
  <2>2. CASE s.lowerMaxParts /\ s.base <= count * Unit /\ s.partsToThrow <= count
    <3>1. s.base <= (count + 1) * Unit /\ s.partsToThrow <= count + 1
      BY <1>1, <1>2, <2>2
    <3>2. cap(count) = floor /\ cap(count + 1) = floor
      BY <1>2, <1>4, <2>2, <3>1, CapShape
    <3>3. QED
      BY <2>0, <3>2, <1>1
  <2>3. CASE s.lowerMaxParts /\ Between(s, count)
    <3>1. CASE s.partsToThrow <= count + 1
      <4>1. s.base <= (count + 1) * Unit
        BY <1>1, <1>2, <2>3 DEF Between
      <4>2. cap(count + 1) = floor
        BY <1>2, <1>4, <2>3, <3>1, <4>1, CapShape
      <4>3. QED
        BY <1>1, <2>0, <4>2
    <3>2. CASE count + 1 < s.partsToThrow
      <4>1. Between(s, count + 1)
        BY <1>1, <1>2, <2>3, <3>2 DEF Between
      <4>2. /\ LeftOf(s, count) \in 0 .. Unit
            /\ LeftOf(s, count + 1) \in 0 .. LeftOf(s, count)
        BY <2>3, <4>1, LeftMono
      <4>3. /\ cap(count) = Least(s.maxParts, LimitFor(s, LeftOf(s, count)))
            /\ cap(count + 1) = Least(s.maxParts, LimitFor(s, LeftOf(s, count + 1)))
        BY <1>2, <2>3, <4>1, CapShape
      <4>4. QED
        BY <4>2, <4>3, CapBetween
    <3>3. QED
      BY <1>1, <3>1, <3>2
  <2>4. QED
    BY <1>1, <1>2, <2>1, <2>2, <2>3, CapShape DEF Between
<1>7. QED
  BY <1>1, <1>2, <1>5, <1>6 DEF Least

\* With enough parts for the heuristic to step in, a partition still gets merges of two
\* where its setting allows them, never more than the setting, and never more for having
\* one part more: whatever the settings and the counts.
THEOREM LoweringKeeps == Spec => []LoweringKeepsPairs
<1>1. Inv => LoweringKeepsPairs
  <2> SUFFICES ASSUME Inv, NEW r \in DOMAIN args.ranges, Count(r) > 0,
                      S.base >= 2 * Unit, S.maxParts # 0
               PROVE  /\ MaxParts(r) \in Least(2, S.maxParts) .. S.maxParts
                      /\ MaxPartsToMergeAtOnce(S, StatsOf(r).count + 1) <= MaxParts(r)
    BY DEF LoweringKeepsPairs
  <2>1. args \in Inputs
    BY DEF Inv, TypeOK
  <2>2. S \in Settings /\ args.stats \in [Partitions -> Stats]
    BY <2>1, ArgumentTypes, InputAssumption DEF Arguments
  <2>3. Parts(r)[1] \in Part
    BY <2>1, ArgumentTypes
  <2>4. StatsOf(r).count \in Nat
    BY <2>2, <2>3 DEF StatsOf, Part, Stats
  <2>5. QED
    BY <2>2, <2>4, CapFalls DEF MaxParts
<1>2. QED
  BY <1>1, InitInv, StepInv, PTL DEF Spec

-----------------------------------------------------------------------------
(***************************************************************************)
(* The loops of Select and the definitions without loops.  The sums over   *)
(* the parts of a range, first: the library takes them in an order of its  *)
(* own choice, the loops from left to right.                               *)
(***************************************************************************)
\* The sums over the sets of some positions, whatever the order they are taken in.
IsSum(A, w, n) ==
  /\ A \in [SUBSET (1 .. n) -> Nat]
  /\ A[{}] = 0
  /\ \A T \in SUBSET (1 .. n) : \A x \in T : A[T] = w[x] + A[T \ {x}]

Weights(w, n) == \A p \in 1 .. n : w[p] \in Nat

\* There are such sums: the least number of positions without would have them from its
\* predecessor.
LEMMA SumExists ==
  ASSUME NEW w, NEW n \in Nat, Weights(w, n)
  PROVE  \E A : IsSum(A, w, n)
<1> DEFINE Lacks == {m \in 0 .. n : ~\E A : IsSum(A, w, m)}
<1> SUFFICES ASSUME Lacks # {} PROVE FALSE
  OBVIOUS
<1>0. Lacks \in SUBSET Nat
  OBVIOUS
<1>1. PICK m \in Lacks : \A k \in Lacks : m <= k
  <2> HIDE DEF Lacks
  <2>1. QED
    BY <1>0, LeastNumber
<1>2. m \in 0 .. n /\ ~\E A : IsSum(A, w, m)
  OBVIOUS
<1>3. m # 0
  <2>1. ASSUME m = 0 PROVE FALSE
    <3> DEFINE Z == [T \in SUBSET (1 .. 0) |-> 0]
    <3>1. SUBSET (1 .. 0) = {{}}
      OBVIOUS
    <3>2. IsSum(Z, w, 0)
      BY <3>1 DEF IsSum
    <3>3. QED
      BY <1>2, <2>1, <3>2
  <2>2. QED
    BY <2>1
<1>4. m - 1 \in 0 .. n /\ ~(m <= m - 1) /\ m \in 1 .. n
  BY <1>2, <1>3
<1>5. PICK B : IsSum(B, w, m - 1)
  BY <1>1, <1>4
<1>6. w[m] \in Nat
  BY <1>4 DEF Weights
<1> DEFINE A == [T \in SUBSET (1 .. m) |-> IF m \in T THEN w[m] + B[T \ {m}] ELSE B[T]]
<1>7. ASSUME NEW T \in SUBSET (1 .. m)
      PROVE  T \ {m} \in SUBSET (1 .. (m - 1)) /\ (m \notin T => T \in SUBSET (1 .. (m - 1)))
  BY <1>4
<1>8. \A T \in SUBSET (1 .. (m - 1)) : B[T] \in Nat /\ \A x \in T : B[T] = w[x] + B[T \ {x}]
  BY <1>5 DEF IsSum
<1>9. A \in [SUBSET (1 .. m) -> Nat]
  <2>1. ASSUME NEW T \in SUBSET (1 .. m) PROVE A[T] \in Nat
    BY <1>6, <1>7, <1>8
  <2>2. QED
    BY <2>1
<1>10. A[{}] = 0
  BY <1>5 DEF IsSum
<1>11. ASSUME NEW T \in SUBSET (1 .. m), NEW x \in T PROVE A[T] = w[x] + A[T \ {x}]
  <2>0. T \ {x} \in SUBSET (1 .. m)
    OBVIOUS
  <2>1. CASE x = m
    BY <2>0, <2>1
  <2>2. CASE x # m /\ m \notin T
    <3>1. T \in SUBSET (1 .. (m - 1)) /\ m \notin T \ {x}
      BY <1>7, <2>2
    <3>2. A[T] = B[T] /\ A[T \ {x}] = B[T \ {x}]
      BY <2>0, <2>2, <3>1
    <3>3. B[T] = w[x] + B[T \ {x}]
      BY <1>8, <3>1
    <3> HIDE DEF A
    <3>4. QED
      BY <3>2, <3>3
  <2>3. CASE x # m /\ m \in T
    <3>1. m \in T \ {x} /\ x \in T \ {m}
      BY <2>3
    <3>2. A[T] = w[m] + B[T \ {m}] /\ A[T \ {x}] = w[m] + B[(T \ {x}) \ {m}]
      BY <2>0, <2>3, <3>1
    <3>3. (T \ {x}) \ {m} = (T \ {m}) \ {x}
      OBVIOUS
    <3>4. B[T \ {m}] = w[x] + B[(T \ {m}) \ {x}]
      BY <1>7, <1>8, <3>1
    <3>5. (T \ {m}) \ {x} \in SUBSET (1 .. (m - 1))
      BY <1>7
    <3>6. PICK c \in Nat : c = B[(T \ {m}) \ {x}]
      BY <1>8, <3>5
    <3>7. w[x] \in Nat
      BY <1>2 DEF Weights
    <3>8. PICK u \in Nat, v \in Nat : u = w[m] /\ v = w[x]
      BY <1>6, <3>7
    <3>9. A[T] = u + (v + c) /\ A[T \ {x}] = u + c
      <4> HIDE DEF A
      <4>1. QED
        BY <3>2, <3>3, <3>4, <3>6, <3>8
    <3> HIDE DEF A
    <3>10. QED
      BY <3>8, <3>9
  <2>4. QED
    BY <2>1, <2>2, <2>3
<1> HIDE DEF A
<1>12. IsSum(A, w, m)
  BY <1>9, <1>10, <1>11 DEF IsSum
<1>13. QED
  BY <1>2, <1>12

\* A sum over a set as the library computes it: one element, whichever, and the rest.
Any(T) == CHOOSE x \in T : TRUE

IsChosen(f, w, D) ==
  f = [T \in SUBSET D |-> IF T = {} THEN 0 ELSE w[Any(T)] + f[T \ {Any(T)}]]

LEMMA ChosenIsSum ==
  ASSUME NEW w, NEW n \in Nat, NEW A, IsSum(A, w, n), NEW D \in SUBSET (1 .. n)
  PROVE  /\ \E f : IsChosen(f, w, D)
         /\ \A f : IsChosen(f, w, D) => f[D] = A[D]
<1>1. ASSUME NEW T \in SUBSET D
      PROVE  A[T] = IF T = {} THEN 0 ELSE w[Any(T)] + A[T \ {Any(T)}]
  <2>1. T # {} => Any(T) \in T
    BY DEF Any
  <2>2. T \in SUBSET (1 .. n)
    OBVIOUS
  <2>3. QED
    BY <2>1, <2>2 DEF IsSum
<1>2. \E f : IsChosen(f, w, D)
  <2> DEFINE g == [T \in SUBSET D |-> A[T]]
  <2>1. ASSUME NEW T \in SUBSET D
        PROVE  g[T] = IF T = {} THEN 0 ELSE w[Any(T)] + g[T \ {Any(T)}]
    <3>1. T \ {Any(T)} \in SUBSET D
      OBVIOUS
    <3>2. g[T] = A[T] /\ g[T \ {Any(T)}] = A[T \ {Any(T)}]
      BY <3>1
    <3>3. QED
      BY <1>1, <3>2
  <2>2. g = [T \in SUBSET D |-> g[T]]
    OBVIOUS
  <2> HIDE DEF g
  <2>3. IsChosen(g, w, D)
    BY <2>1, <2>2 DEF IsChosen
  <2>4. QED
    BY <2>3
<1>3. ASSUME NEW f, IsChosen(f, w, D) PROVE f[D] = A[D]
  <2>1. \A T \in SUBSET D : f[T] = IF T = {} THEN 0 ELSE w[Any(T)] + f[T \ {Any(T)}]
    BY <1>3 DEF IsChosen
  <2>2. \A T \in SUBSET D : IsFiniteSet(T) /\ Cardinality(T) \in Nat
    <3>1. IsFiniteSet(1 .. n)
      BY FS_Interval
    <3>2. \A T \in SUBSET D : T \in SUBSET (1 .. n)
      OBVIOUS
    <3>3. \A T \in SUBSET D : IsFiniteSet(T)
      BY <3>1, <3>2, FS_Subset
    <3>4. QED
      BY <3>3, FS_CardinalityType
  <2> DEFINE Wrong == {T \in SUBSET D : f[T] # A[T]}
             Sized == {Cardinality(T) : T \in Wrong}
  <2> SUFFICES ASSUME Wrong # {} PROVE FALSE
    OBVIOUS
  <2>3. Sized \in SUBSET Nat /\ Sized # {}
    BY <2>2
  <2>4. PICK c \in Sized : \A d \in Sized : c <= d
    <3> HIDE DEF Sized
    <3>1. QED
      BY <2>3, LeastNumber
  <2>5. PICK T \in Wrong : c = Cardinality(T)
    BY <2>4
  <2>6. T # {}
    BY <1>1, <2>1, <2>5
  <2>7. Any(T) \in T
    BY <2>6 DEF Any
  <2>8. Cardinality(T \ {Any(T)}) = c - 1 /\ c \in Nat
    BY <2>2, <2>5, <2>7, FS_RemoveElement
  <2>9. T \ {Any(T)} \in SUBSET D /\ T \ {Any(T)} \notin Wrong
    <3>1. T \ {Any(T)} \in SUBSET D
      BY <2>5
    <3>2. c - 1 \notin Sized
      BY <2>4, <2>8
    <3>3. QED
      BY <2>8, <3>1, <3>2
  <2>10. f[T \ {Any(T)}] = A[T \ {Any(T)}]
    BY <2>9
  <2>11. f[T] = A[T]
    BY <1>1, <2>1, <2>6, <2>10
  <2>12. QED
    BY <2>5, <2>11
<1>4. QED
  BY <1>2, <1>3

\* Sums over adjacent positions grow by one position at a time.
Adds(A, w, n) ==
  \A b \in 0 .. n :
    /\ A[b + 1 .. b] = 0
    /\ \A e \in b + 1 .. n : A[b + 1 .. e] = A[b + 1 .. e - 1] + w[e]
    /\ \A e \in b .. n : A[b + 1 .. e] \in Nat
    /\ \A e \in b .. n : \A f \in e .. n : A[b + 1 .. e] <= A[b + 1 .. f]

LEMMA SumAdds ==
  ASSUME NEW w, NEW n \in Nat, Weights(w, n), NEW A, IsSum(A, w, n)
  PROVE  Adds(A, w, n)
<1> SUFFICES ASSUME NEW b \in 0 .. n
             PROVE  /\ A[b + 1 .. b] = 0
                    /\ \A e \in b + 1 .. n : A[b + 1 .. e] = A[b + 1 .. e - 1] + w[e]
                    /\ \A e \in b .. n : A[b + 1 .. e] \in Nat
                    /\ \A e \in b .. n : \A f \in e .. n : A[b + 1 .. e] <= A[b + 1 .. f]
  BY DEF Adds
<1>1. A[b + 1 .. b] = 0
  <2>1. b + 1 .. b = {}
    OBVIOUS
  <2>2. QED
    BY <2>1 DEF IsSum
<1>2. ASSUME NEW e \in b .. n PROVE A[b + 1 .. e] \in Nat
  <2>1. b + 1 .. e \in SUBSET (1 .. n)
    OBVIOUS
  <2>2. QED
    BY <2>1 DEF IsSum
<1>3. ASSUME NEW e \in b + 1 .. n PROVE A[b + 1 .. e] = A[b + 1 .. e - 1] + w[e]
  <2>1. /\ b + 1 .. e \in SUBSET (1 .. n) /\ e \in b + 1 .. e
        /\ (b + 1 .. e) \ {e} = b + 1 .. e - 1 /\ e - 1 \in b .. n
    OBVIOUS
  <2>2. A[b + 1 .. e] = w[e] + A[b + 1 .. e - 1]
    BY <2>1 DEF IsSum
  <2>3. w[e] \in Nat /\ A[b + 1 .. e - 1] \in Nat
    BY <1>2, <2>1 DEF Weights
  <2>4. QED
    BY <2>2, <2>3
<1>4. ASSUME NEW e \in b .. n, NEW f \in e .. n PROVE A[b + 1 .. e] <= A[b + 1 .. f]
  <2> DEFINE Less == {k \in e .. n : ~(A[b + 1 .. e] <= A[b + 1 .. k])}
  <2>0. A[b + 1 .. e] \in Nat
    BY <1>2
  <2>1. Less = {}
    <3> SUFFICES ASSUME Less # {} PROVE FALSE
      OBVIOUS
    <3>0. Less \in SUBSET Nat
      OBVIOUS
    <3>1. PICK k \in Less : \A l \in Less : k <= l
      <4> HIDE DEF Less
      <4>1. QED
        BY <3>0, LeastNumber
    <3>2. k \in e .. n /\ ~(A[b + 1 .. e] <= A[b + 1 .. k])
      OBVIOUS
    <3>3. k # e
      BY <2>0, <3>2
    <3>4. k - 1 \in e .. n /\ ~(k <= k - 1) /\ k \in b + 1 .. n /\ k - 1 \in b .. n
      BY <3>2, <3>3
    <3>5. A[b + 1 .. e] <= A[b + 1 .. k - 1]
      BY <3>1, <3>4
    <3>6. A[b + 1 .. k] = A[b + 1 .. k - 1] + w[k] /\ w[k] \in Nat /\ A[b + 1 .. k - 1] \in Nat
      <4>1. k \in 1 .. n
        BY <3>4
      <4>2. QED
        BY <1>2, <1>3, <3>4, <4>1 DEF Weights
    <3>7. QED
      BY <2>0, <3>2, <3>5, <3>6
  <2>2. QED
    BY <2>1
<1>5. QED
  BY <1>1, <1>2, <1>3, <1>4

\* Bytes and Rows are sums of the parts' sizes and rows.
Sizes(r)  == [p \in 1 .. Count(r) |-> Parts(r)[p].size]
Lengths(r) == [p \in 1 .. Count(r) |-> Parts(r)[p].rows]

LEMMA BytesAreSums ==
  ASSUME args \in Inputs, NEW r \in DOMAIN args.ranges
  PROVE  \E A : /\ Adds(A, Sizes(r), Count(r))
                /\ \A b \in 0 .. Count(r), e \in 0 .. Count(r) : Bytes(r, b, e) = A[b + 1 .. e]
<1>1. Count(r) \in Nat /\ Weights(Sizes(r), Count(r))
  BY ArgumentTypes DEF Weights, Sizes, Part
<1>2. PICK A : IsSum(A, Sizes(r), Count(r))
  BY <1>1, SumExists
<1>3. Adds(A, Sizes(r), Count(r))
  BY <1>1, <1>2, SumAdds
<1>4. ASSUME NEW b \in 0 .. Count(r), NEW e \in 0 .. Count(r) PROVE Bytes(r, b, e) = A[b + 1 .. e]
  <2> DEFINE D == b + 1 .. e
             IsList(f) == f = [T \in SUBSET D |-> IF T = {} THEN 0
                                 ELSE Parts(r)[CHOOSE x \in T : TRUE].size
                                        + f[T \ {CHOOSE x \in T : TRUE}]]
  <2>1. Bytes(r, b, e) = (CHOOSE f : IsList(f))[D]
    BY DEF Bytes, MapThenSumSet, MapThenFoldSet
  <2>2. D \in SUBSET (1 .. Count(r))
    BY <1>1
  <2>3. \A T \in SUBSET D : T # {} => Sizes(r)[Any(T)] = Parts(r)[Any(T)].size
    <3>1. \A T \in SUBSET D : T # {} => Any(T) \in 1 .. Count(r)
      BY <2>2 DEF Any
    <3>2. QED
      BY <3>1 DEF Sizes
  <2>4. \A f : IsList(f) <=> IsChosen(f, Sizes(r), D)
    <3> SUFFICES ASSUME NEW f PROVE IsList(f) <=> IsChosen(f, Sizes(r), D)
      OBVIOUS
    <3>1. ASSUME NEW T \in SUBSET D
          PROVE  (IF T = {} THEN 0 ELSE Sizes(r)[Any(T)] + f[T \ {Any(T)}])
                   = (IF T = {} THEN 0 ELSE Parts(r)[CHOOSE x \in T : TRUE].size
                                        + f[T \ {CHOOSE x \in T : TRUE}])
      <4> HIDE DEF D
      <4> QED BY <2>3 DEF Any
    <3>2. [T \in SUBSET D |-> IF T = {} THEN 0 ELSE Sizes(r)[Any(T)] + f[T \ {Any(T)}]]
            = [T \in SUBSET D |-> IF T = {} THEN 0
                                 ELSE Parts(r)[CHOOSE x \in T : TRUE].size
                                        + f[T \ {CHOOSE x \in T : TRUE}]]
      <4> HIDE DEF D
      <4> QED BY <3>1
    <3>3. QED
      BY <3>2, Zenon DEF IsChosen
  <2> HIDE DEF IsList
  <2>5. PICK f : f = CHOOSE g : IsList(g)
    OBVIOUS
  <2> HIDE DEF D
  <2>6. IsChosen(f, Sizes(r), D)
    BY <1>1, <1>2, <2>2, <2>4, <2>5, ChosenIsSum
  <2>7. f[D] = A[D]
    BY <1>1, <1>2, <2>2, <2>6, ChosenIsSum
  <2>8. QED
    BY <2>1, <2>5, <2>7 DEF D
<1>5. QED
  BY <1>3, <1>4

LEMMA RowsAreSums ==
  ASSUME args \in Inputs, NEW r \in DOMAIN args.ranges
  PROVE  \E A : /\ Adds(A, Lengths(r), Count(r))
                /\ \A b \in 0 .. Count(r), e \in 0 .. Count(r) : Rows(r, b, e) = A[b + 1 .. e]
<1>1. Count(r) \in Nat /\ Weights(Lengths(r), Count(r))
  BY ArgumentTypes DEF Weights, Lengths, Part
<1>2. PICK A : IsSum(A, Lengths(r), Count(r))
  BY <1>1, SumExists
<1>3. Adds(A, Lengths(r), Count(r))
  BY <1>1, <1>2, SumAdds
<1>4. ASSUME NEW b \in 0 .. Count(r), NEW e \in 0 .. Count(r) PROVE Rows(r, b, e) = A[b + 1 .. e]
  <2> DEFINE D == b + 1 .. e
             IsList(f) == f = [T \in SUBSET D |-> IF T = {} THEN 0
                                 ELSE Parts(r)[CHOOSE x \in T : TRUE].rows
                                        + f[T \ {CHOOSE x \in T : TRUE}]]
  <2>1. Rows(r, b, e) = (CHOOSE f : IsList(f))[D]
    BY DEF Rows, MapThenSumSet, MapThenFoldSet
  <2>2. D \in SUBSET (1 .. Count(r))
    BY <1>1
  <2>3. \A T \in SUBSET D : T # {} => Lengths(r)[Any(T)] = Parts(r)[Any(T)].rows
    <3>1. \A T \in SUBSET D : T # {} => Any(T) \in 1 .. Count(r)
      BY <2>2 DEF Any
    <3>2. QED
      BY <3>1 DEF Lengths
  <2>4. \A f : IsList(f) <=> IsChosen(f, Lengths(r), D)
    <3> SUFFICES ASSUME NEW f PROVE IsList(f) <=> IsChosen(f, Lengths(r), D)
      OBVIOUS
    <3>1. ASSUME NEW T \in SUBSET D
          PROVE  (IF T = {} THEN 0 ELSE Lengths(r)[Any(T)] + f[T \ {Any(T)}])
                   = (IF T = {} THEN 0 ELSE Parts(r)[CHOOSE x \in T : TRUE].rows
                                        + f[T \ {CHOOSE x \in T : TRUE}])
      <4> HIDE DEF D
      <4> QED BY <2>3 DEF Any
    <3>2. [T \in SUBSET D |-> IF T = {} THEN 0 ELSE Lengths(r)[Any(T)] + f[T \ {Any(T)}]]
            = [T \in SUBSET D |-> IF T = {} THEN 0
                                 ELSE Parts(r)[CHOOSE x \in T : TRUE].rows
                                        + f[T \ {CHOOSE x \in T : TRUE}]]
      <4> HIDE DEF D
      <4> QED BY <3>1
    <3>3. QED
      BY <3>2, Zenon DEF IsChosen
  <2> HIDE DEF IsList
  <2>5. PICK f : f = CHOOSE g : IsList(g)
    OBVIOUS
  <2> HIDE DEF D
  <2>6. IsChosen(f, Lengths(r), D)
    BY <1>1, <1>2, <2>2, <2>4, <2>5, ChosenIsSum
  <2>7. f[D] = A[D]
    BY <1>1, <1>2, <2>2, <2>6, ChosenIsSum
  <2>8. QED
    BY <2>1, <2>5, <2>7 DEF D
<1>5. QED
  BY <1>3, <1>4

\* The four facts about the sums that the loops rely on.
SumsOf(r) ==
  \A b \in 0 .. Count(r) :
    /\ Bytes(r, b, b) = 0 /\ Rows(r, b, b) = 0
    /\ \A e \in b + 1 .. Count(r) :
         /\ Bytes(r, b, e) = Bytes(r, b, e - 1) + Parts(r)[e].size
         /\ Rows(r, b, e) = Rows(r, b, e - 1) + Parts(r)[e].rows
    /\ \A e \in b .. Count(r) : Bytes(r, b, e) \in Nat /\ Rows(r, b, e) \in Nat
    /\ \A e \in b .. Count(r) : \A f \in e .. Count(r) :
         Bytes(r, b, e) <= Bytes(r, b, f) /\ Rows(r, b, e) <= Rows(r, b, f)

LEMMA SumFacts ==
  ASSUME args \in Inputs, NEW r \in DOMAIN args.ranges
  PROVE  SumsOf(r)
<1>0. Count(r) \in Nat
  BY ArgumentTypes
<1>1. PICK A : /\ Adds(A, Sizes(r), Count(r))
               /\ \A b \in 0 .. Count(r), e \in 0 .. Count(r) : Bytes(r, b, e) = A[b + 1 .. e]
  BY BytesAreSums
<1>2. PICK B : /\ Adds(B, Lengths(r), Count(r))
               /\ \A b \in 0 .. Count(r), e \in 0 .. Count(r) : Rows(r, b, e) = B[b + 1 .. e]
  BY RowsAreSums
<1> SUFFICES ASSUME NEW b \in 0 .. Count(r)
             PROVE  /\ Bytes(r, b, b) = 0 /\ Rows(r, b, b) = 0
                    /\ \A e \in b + 1 .. Count(r) :
                         /\ Bytes(r, b, e) = Bytes(r, b, e - 1) + Parts(r)[e].size
                         /\ Rows(r, b, e) = Rows(r, b, e - 1) + Parts(r)[e].rows
                    /\ \A e \in b .. Count(r) : Bytes(r, b, e) \in Nat /\ Rows(r, b, e) \in Nat
                    /\ \A e \in b .. Count(r) : \A f \in e .. Count(r) :
                         Bytes(r, b, e) <= Bytes(r, b, f) /\ Rows(r, b, e) <= Rows(r, b, f)
  BY DEF SumsOf
<1>3. Bytes(r, b, b) = 0 /\ Rows(r, b, b) = 0
  BY <1>0, <1>1, <1>2 DEF Adds
<1>4. ASSUME NEW e \in b + 1 .. Count(r)
      PROVE  /\ Bytes(r, b, e) = Bytes(r, b, e - 1) + Parts(r)[e].size
             /\ Rows(r, b, e) = Rows(r, b, e - 1) + Parts(r)[e].rows
  <2>1. e \in 0 .. Count(r) /\ e - 1 \in 0 .. Count(r) /\ e \in 1 .. Count(r)
    BY <1>0
  <2>2. Sizes(r)[e] = Parts(r)[e].size /\ Lengths(r)[e] = Parts(r)[e].rows
    BY <2>1 DEF Sizes, Lengths
  <2>3. /\ A[b + 1 .. e] = A[b + 1 .. e - 1] + Sizes(r)[e]
        /\ B[b + 1 .. e] = B[b + 1 .. e - 1] + Lengths(r)[e]
    BY <1>1, <1>2 DEF Adds
  <2>4. QED
    BY <1>1, <1>2, <2>1, <2>2, <2>3
<1>5. ASSUME NEW e \in b .. Count(r) PROVE Bytes(r, b, e) \in Nat /\ Rows(r, b, e) \in Nat
  <2>1. e \in 0 .. Count(r)
    BY <1>0
  <2>2. A[b + 1 .. e] \in Nat /\ B[b + 1 .. e] \in Nat
    BY <1>1, <1>2 DEF Adds
  <2>3. QED
    BY <1>1, <1>2, <2>1, <2>2
<1>6. ASSUME NEW e \in b .. Count(r), NEW f \in e .. Count(r)
      PROVE  Bytes(r, b, e) <= Bytes(r, b, f) /\ Rows(r, b, e) <= Rows(r, b, f)
  <2>1. e \in 0 .. Count(r) /\ f \in 0 .. Count(r)
    BY <1>0
  <2>2. A[b + 1 .. e] <= A[b + 1 .. f] /\ B[b + 1 .. e] <= B[b + 1 .. f]
    BY <1>1, <1>2 DEF Adds
  <2>3. QED
    BY <1>1, <1>2, <2>1, <2>2
<1>7. QED
  BY <1>3, <1>4, <1>5, <1>6

-----------------------------------------------------------------------------
(***************************************************************************)
(* The running sums of the inner loop.                                     *)
(***************************************************************************)
\* The greatest and the least are the bounds that belong to the set.
LEMMA MaxIs ==
  ASSUME NEW X \in SUBSET Int, NEW m \in X, \A y \in X : m >= y
  PROVE  Max(X) = m
<1>1. \E x \in X : \A y \in X : x >= y
  OBVIOUS
<1>2. Max(X) \in X /\ \A y \in X : Max(X) >= y
  BY <1>1 DEF Max
<1>3. PICK k \in Int, l \in Int : k = Max(X) /\ l = m
  BY <1>2
<1>4. k >= l /\ l >= k
  BY <1>2, <1>3
<1>5. QED
  BY <1>3, <1>4

LEMMA MinIs ==
  ASSUME NEW X \in SUBSET Int, NEW m \in X, \A y \in X : m <= y
  PROVE  Min(X) = m
<1>1. \E x \in X : \A y \in X : x <= y
  OBVIOUS
<1>2. Min(X) \in X /\ \A y \in X : Min(X) <= y
  BY <1>1 DEF Min
<1>3. PICK k \in Int, l \in Int : k = Min(X) /\ l = m
  BY <1>2
<1>4. k <= l /\ l <= k
  BY <1>2, <1>3
<1>5. QED
  BY <1>3, <1>4

\* The running sums a are those of [b, e).
Holds(a, r, b, e) ==
  /\ a \in Sums
  /\ a.bytes = Bytes(r, b, e) /\ a.rows = Rows(r, b, e)
  /\ \E p \in b + 1 .. e : a.max = Parts(r)[p].size
  /\ \A p \in b + 1 .. e : a.max >= Parts(r)[p].size
  /\ \E p \in b + 1 .. e : a.age = Parts(r)[p].age
  /\ \A p \in b + 1 .. e : a.age <= Parts(r)[p].age

LEMMA HoldsStart ==
  ASSUME args \in Inputs, NEW r \in DOMAIN args.ranges, NEW b \in Nat, b < Count(r)
  PROVE  Holds(Start(Parts(r)[b + 1]), r, b, b + 1)
<1>1. Count(r) \in Nat /\ SumsOf(r) /\ b + 1 \in 1 .. Count(r)
  BY ArgumentTypes, SumFacts
<1>2. PICK p \in Part : p = Parts(r)[b + 1]
  BY <1>1, ArgumentTypes
<1>3. p.size \in Nat /\ p.rows \in Nat /\ p.age \in Nat
  BY DEF Part
<1>4. Bytes(r, b, b + 1) = p.size /\ Rows(r, b, b + 1) = p.rows
  <2>1. b \in 0 .. Count(r) /\ b + 1 \in b + 1 .. Count(r) /\ b + 1 - 1 = b
    BY <1>1
  <2>2. /\ Bytes(r, b, b) = 0 /\ Rows(r, b, b) = 0
        /\ Bytes(r, b, b + 1) = Bytes(r, b, b) + Parts(r)[b + 1].size
        /\ Rows(r, b, b + 1) = Rows(r, b, b) + Parts(r)[b + 1].rows
    BY <1>1, <2>1 DEF SumsOf
  <2>3. QED
    BY <1>2, <1>3, <2>2
<1>5. Start(p) \in Sums
  BY <1>3 DEF Start, Sums
<1>6. \A q \in b + 1 .. b + 1 : q = b + 1
  OBVIOUS
<1>7. b + 1 \in b + 1 .. b + 1
  OBVIOUS
<1>8. QED
  BY <1>2, <1>3, <1>4, <1>5, <1>6, <1>7 DEF Holds, Start

LEMMA HoldsGrow ==
  ASSUME args \in Inputs, NEW r \in DOMAIN args.ranges, NEW b \in Nat, NEW e \in Nat,
         b + 1 <= e, e + 1 <= Count(r), NEW a, Holds(a, r, b, e)
  PROVE  Holds(Grow(a, Parts(r)[e + 1]), r, b, e + 1)
<1>1. Count(r) \in Nat /\ SumsOf(r) /\ e + 1 \in 1 .. Count(r)
  BY ArgumentTypes, SumFacts
<1>2. PICK p \in Part : p = Parts(r)[e + 1]
  BY <1>1, ArgumentTypes
<1>3. p.size \in Nat /\ p.rows \in Nat /\ p.age \in Nat
  BY DEF Part
<1> DEFINE g == Grow(a, p)
<1>4. a \in Sums /\ g \in Sums
  BY SumsType DEF Holds
<1>5. a.bytes \in Nat /\ a.rows \in Nat /\ a.max \in Nat /\ a.age \in Nat
  BY <1>4 DEF Sums
<1>6. g.bytes = Bytes(r, b, e + 1) /\ g.rows = Rows(r, b, e + 1)
  <2>1. b \in 0 .. Count(r) /\ e + 1 \in b + 1 .. Count(r) /\ e + 1 - 1 = e
    BY <1>1
  <2>2. /\ Bytes(r, b, e + 1) = Bytes(r, b, e) + Parts(r)[e + 1].size
        /\ Rows(r, b, e + 1) = Rows(r, b, e) + Parts(r)[e + 1].rows
    <3>1. \A f \in b + 1 .. Count(r) : /\ Bytes(r, b, f) = Bytes(r, b, f - 1) + Parts(r)[f].size
                                        /\ Rows(r, b, f) = Rows(r, b, f - 1) + Parts(r)[f].rows
      BY <1>1, <2>1 DEF SumsOf
    <3>2. PICK f \in b + 1 .. Count(r) : f = e + 1 /\ f - 1 = e
      BY <2>1
    <3>3. QED
      BY <3>1, <3>2
  <2>3. QED
    BY <1>2, <2>2 DEF Grow, Holds
<1>7. \A q \in b + 1 .. e + 1 : q = e + 1 \/ q \in b + 1 .. e
  OBVIOUS
<1>8. e + 1 \in b + 1 .. e + 1 /\ \A q \in b + 1 .. e : q \in b + 1 .. e + 1
  OBVIOUS
<1>9. \A q \in b + 1 .. e : Parts(r)[q].size \in Nat /\ Parts(r)[q].age \in Nat
  <2>1. \A q \in b + 1 .. e : q \in 1 .. Count(r)
    BY <1>1
  <2>2. QED
    BY <2>1, ArgumentTypes DEF Part
<1>10. /\ g.max = a.max \/ g.max = p.size
       /\ g.age = a.age \/ g.age = p.age
       /\ g.max >= a.max /\ g.max >= p.size /\ g.age <= a.age /\ g.age <= p.age
       /\ g.max \in Nat /\ g.age \in Nat
  BY <1>3, <1>5 DEF Grow, Least, Greatest
<1> HIDE DEF g
<1>11. \E q \in b + 1 .. e + 1 : g.max = Parts(r)[q].size
  BY <1>2, <1>8, <1>10 DEF Holds
<1>12. \E q \in b + 1 .. e + 1 : g.age = Parts(r)[q].age
  BY <1>2, <1>8, <1>10 DEF Holds
<1>13. ASSUME NEW q \in b + 1 .. e + 1
       PROVE  g.max >= Parts(r)[q].size /\ g.age <= Parts(r)[q].age
  <2>1. CASE q = e + 1
    BY <1>2, <1>10, <2>1
  <2>2. CASE q \in b + 1 .. e
    <3>1. a.max >= Parts(r)[q].size /\ a.age <= Parts(r)[q].age
      BY <2>2 DEF Holds
    <3>2. QED
      BY <1>5, <1>9, <1>10, <2>2, <3>1
  <2>3. QED
    BY <1>7, <2>1, <2>2
<1>14. QED
  BY <1>2, <1>4, <1>6, <1>11, <1>12, <1>13 DEF Holds, g

\* Sums that hold are the totals the definitions without loops take.
LEMMA HoldsTotals ==
  ASSUME args \in Inputs, NEW r \in DOMAIN args.ranges, NEW b \in Nat, NEW e \in Nat,
         e <= Count(r), NEW a, Holds(a, r, b, e)
  PROVE  a = Totals(r, b, e)
<1>1. \A q \in b + 1 .. e : Parts(r)[q].size \in Nat /\ Parts(r)[q].age \in Nat
  <2>1. \A q \in b + 1 .. e : q \in 1 .. Count(r)
    BY ArgumentTypes
  <2>2. QED
    BY <2>1, ArgumentTypes DEF Part
<1>2. a = [bytes |-> a.bytes, rows |-> a.rows, max |-> a.max, age |-> a.age]
  BY DEF Holds, Sums
<1>3. Max({Parts(r)[p].size : p \in b + 1 .. e}) = a.max
  <2> DEFINE X == {Parts(r)[p].size : p \in b + 1 .. e}
  <2>1. X \in SUBSET Int /\ a.max \in X /\ \A y \in X : a.max >= y
    BY <1>1 DEF Holds
  <2> HIDE DEF X
  <2>2. Max(X) = a.max
    BY <2>1, MaxIs
  <2>3. QED
    BY <2>2 DEF X
<1>4. Min({Parts(r)[p].age : p \in b + 1 .. e}) = a.age
  <2> DEFINE X == {Parts(r)[p].age : p \in b + 1 .. e}
  <2>1. X \in SUBSET Int /\ a.age \in X /\ \A y \in X : a.age <= y
    BY <1>1 DEF Holds
  <2> HIDE DEF X
  <2>2. Min(X) = a.age
    BY <2>1, MinIs
  <2>3. QED
    BY <2>2 DEF X
<1>5. a.bytes = Bytes(r, b, e) /\ a.rows = Rows(r, b, e)
  BY DEF Holds
<1>6. QED
  BY <1>2, <1>3, <1>4, <1>5, Zenon DEF Totals

\* The same arguments have the same mergeable ranges and the same estimates.
LEMMA SameArgs ==
  ASSUME args' = args
  PROVE  /\ Mergeable' = Mergeable
         /\ \A m : Expected(m)' = Expected(m)
         /\ \A r, b, e : Bytes(r, b, e)' = Bytes(r, b, e) /\ Rows(r, b, e)' = Rows(r, b, e)
         /\ \A a, r, b, e : Holds(a, r, b, e)' <=> Holds(a, r, b, e)
<1>1. \A r, b, e : Bytes(r, b, e)' = Bytes(r, b, e) /\ Rows(r, b, e)' = Rows(r, b, e)
  BY DEF Bytes, Rows, Parts, MapThenSumSet, MapThenFoldSet
<1>2. \A r, b, e : Totals(r, b, e)' = Totals(r, b, e)
  BY <1>1 DEF Totals, Parts
<1>3. \A a, r, b, e : Holds(a, r, b, e)' <=> Holds(a, r, b, e)
  BY <1>1 DEF Holds, Parts
<1>4. \A r, b, e : TrimmedEnd(r, b, e)' = TrimmedEnd(r, b, e)
  BY <1>1 DEF TrimmedEnd, Parts, S
<1>5. \A m : Expected(m)' = Expected(m)
  BY <1>1, <1>4 DEF Expected, Estimate, PrevAtLeft, Parts, S
<1>6. Mergeable' = Mergeable
  BY <1>1, <1>2 DEF Mergeable, FirstBegin, Count, MaxParts, StatsOf, Parts, S
<1>7. QED
  BY <1>1, <1>3, <1>5, <1>6

-----------------------------------------------------------------------------
(***************************************************************************)
(* Where the scan stands: the mergeable ranges the cursor has been over    *)
(* are those that have an estimate, the sums are those of the range the    *)
(* cursor is at, and consider's deltas those of the parts it dropped.      *)
(***************************************************************************)
\* What an iteration of the inner loop tests for [b, e) of a range.
MayMerge(r, b, e) ==
  /\ b + 2 <= e
  /\ MaxParts(r) # 0 => e - b <= MaxParts(r)
  /\ Bytes(r, b, e) <= args.limits[1].bytes
  /\ Rows(r, b, e) <= args.limits[1].rows
  /\ Allow(S, Totals(r, b, e), e - b, Count(r), StatsOf(r).minAge)

LEMMA MergeableIs ==
  /\ \A r \in DOMAIN args.ranges : \A b \in FirstBegin(r) .. Count(r), e \in 2 .. Count(r) :
       <<r, b, e>> \in Mergeable <=> MayMerge(r, b, e)
  /\ \A m \in Mergeable :
       /\ m = <<m[1], m[2], m[3]>> /\ m[1] \in DOMAIN args.ranges
       /\ m[2] \in FirstBegin(m[1]) .. Count(m[1]) /\ m[3] \in 2 .. Count(m[1])
       /\ MayMerge(m[1], m[2], m[3])
<1> DEFINE All == UNION {{<<r, b, e>> : b \in FirstBegin(r) .. Count(r), e \in 2 .. Count(r)}
                           : r \in DOMAIN args.ranges}
<1>1. ASSUME NEW m \in All
      PROVE  /\ m = <<m[1], m[2], m[3]>> /\ m[1] \in DOMAIN args.ranges
             /\ m[2] \in FirstBegin(m[1]) .. Count(m[1]) /\ m[3] \in 2 .. Count(m[1])
  <2>1. PICK r \in DOMAIN args.ranges :
          m \in {<<r, b, e>> : b \in FirstBegin(r) .. Count(r), e \in 2 .. Count(r)}
    OBVIOUS
  <2>2. PICK b \in FirstBegin(r) .. Count(r), e \in 2 .. Count(r) : m = <<r, b, e>>
    BY <2>1
  <2>3. m[1] = r /\ m[2] = b /\ m[3] = e
    BY <2>2
  <2>4. QED
    BY <2>2, <2>3
<1>2. ASSUME NEW r \in DOMAIN args.ranges,
             NEW b \in FirstBegin(r) .. Count(r), NEW e \in 2 .. Count(r)
      PROVE  <<r, b, e>> \in All
  OBVIOUS
<1>3. \A m : m \in Mergeable <=> m \in All /\ MayMerge(m[1], m[2], m[3])
  BY DEF Mergeable, MayMerge
<1> HIDE DEF All
<1>4. ASSUME NEW r, NEW b, NEW e
      PROVE  <<r, b, e>>[1] = r /\ <<r, b, e>>[2] = b /\ <<r, b, e>>[3] = e
  OBVIOUS
<1>5. ASSUME NEW r \in DOMAIN args.ranges,
             NEW b \in FirstBegin(r) .. Count(r), NEW e \in 2 .. Count(r)
      PROVE  <<r, b, e>> \in Mergeable <=> MayMerge(r, b, e)
  <2> DEFINE m == <<r, b, e>>
  <2>1. m[1] = r /\ m[2] = b /\ m[3] = e /\ m \in All
    BY <1>2, <1>4
  <2> HIDE DEF m
  <2>2. m \in Mergeable <=> MayMerge(r, b, e)
    BY <1>3, <2>1
  <2>3. QED
    BY <2>2 DEF m
<1>6. QED
  BY <1>1, <1>3, <1>5

\* The limit of a range, whatever the settings: an integer; and with a base of a part or
\* more a limit is never lowered to none, nor above the setting.
LEMMA CapType ==
  ASSUME NEW s \in Settings, NEW count \in Nat
  PROVE  /\ MaxPartsToMergeAtOnce(s, count) \in Int
         /\ s.base >= Unit /\ s.maxParts # 0
              => MaxPartsToMergeAtOnce(s, count) \in 1 .. s.maxParts
<1>1. /\ s.maxParts \in Nat /\ s.base \in Nat /\ s.partsToThrow \in Nat
      /\ s.lowerMaxParts \in BOOLEAN /\ s.maxParts * Unit \in Nat /\ count * Unit \in Nat
  BY TimesMono, UnitAssumption DEF Settings
<1> DEFINE cap == MaxPartsToMergeAtOnce(s, count)
<1>2. CASE s.maxParts = 0
  BY <1>1, <1>2 DEF MaxPartsToMergeAtOnce
<1>3. s.base \div Unit \in Int /\ (s.base >= Unit => 1 <= s.base \div Unit)
  <2>1. s.base \div Unit \in Int
    BY <1>1, UnitAssumption
  <2>2. ASSUME s.base >= Unit PROVE 1 <= s.base \div Unit
    <3>1. Unit * 1 <= s.base
      BY <2>2, UnitAssumption
    <3>2. QED
      BY <1>1, <3>1, DivLeast, UnitAssumption
  <2>3. QED
    BY <2>1, <2>2
<1>4. CASE s.maxParts # 0
  <2>1. CASE ~s.lowerMaxParts \/ count * Unit < s.base
    <3>1. cap = s.maxParts
      BY <1>4, <2>1, CapShape
    <3>2. QED
      BY <1>1, <1>4, <3>1
  <2>2. CASE s.lowerMaxParts /\ s.base <= count * Unit /\ s.partsToThrow <= count
    <3>1. cap = Least(s.maxParts, Greatest(2, s.base \div Unit))
      BY <1>4, <2>2, CapShape
    <3>2. Greatest(2, s.base \div Unit) \in Int /\ Greatest(2, s.base \div Unit) >= 2
      BY <1>3 DEF Greatest
    <3>3. QED
      BY <1>1, <1>4, <3>1, <3>2 DEF Least
  <2>3. CASE s.lowerMaxParts /\ Between(s, count)
    <3>1. cap = Least(s.maxParts, LimitFor(s, LeftOf(s, count)))
      BY <1>4, <2>3, CapShape
    <3>2. LeftOf(s, count) \in 0 .. Unit
      BY <2>3, LeftMono
    <3>3. /\ LimitFor(s, LeftOf(s, count)) \in Int
          /\ \/ s.base \div Unit <= LimitFor(s, LeftOf(s, count))
             \/ s.maxParts <= LimitFor(s, LeftOf(s, count))
      <4>1. s.base <= s.maxParts * Unit \/ s.maxParts * Unit < s.base
        BY <1>1
      <4>2. QED
        BY <3>2, <4>1, LimitAboveBase, LimitBelowBase
    <3>4. PICK l \in Int : l = LimitFor(s, LeftOf(s, count))
      BY <3>3
    <3>5. PICK d \in Int : d = s.base \div Unit /\ (s.base >= Unit => 1 <= d)
      BY <1>3
    <3>6. cap = Least(s.maxParts, l) /\ (d <= l \/ s.maxParts <= l)
      BY <3>1, <3>3, <3>4, <3>5
    <3>7. QED
      BY <1>1, <1>4, <3>5, <3>6 DEF Least
  <2>4. QED
    BY <1>1, <2>1, <2>2, <2>3 DEF Between
<1>5. QED
  BY <1>2, <1>4

LEMMA MaxPartsType ==
  ASSUME args \in Inputs, NEW r \in DOMAIN args.ranges, Count(r) > 0
  PROVE  /\ MaxParts(r) \in Int
         /\ S.base >= Unit /\ S.maxParts # 0 => MaxParts(r) \in 1 .. S.maxParts
<1>1. S \in Settings /\ args.stats \in [Partitions -> Stats]
  BY ArgumentTypes, InputAssumption DEF Arguments
<1>2. Parts(r)[1] \in Part
  BY ArgumentTypes
<1>3. StatsOf(r).count \in Nat
  BY <1>1, <1>2 DEF StatsOf, Part, Stats
<1>4. QED
  BY <1>1, <1>3, CapType DEF MaxParts

LEMMA FirstBeginType ==
  ASSUME args \in Inputs, NEW r \in DOMAIN args.ranges
  PROVE  FirstBegin(r) \in Nat
<1>1. S.window \in Nat /\ Count(r) \in Nat
  BY ArgumentTypes DEF Settings
<1>2. QED
  BY <1>1 DEF FirstBegin

\* The ranges the loops have been over.
Passed(m) ==
  \/ m[1] < ri
  \/ /\ m[1] = ri /\ pc \in {"begin", "extend", "trim"}
     /\ \/ m[2] < begin
        \/ m[2] = begin /\ pc # "begin" /\ m[3] < end

Scanned == {m \in Mergeable : Passed(m)}

\* The estimates are those of the ranges the loops have been over.
Scores(M) ==
  /\ IsFiniteSet(M) /\ Len(scored) = Cardinality(M)
  /\ {scored[i] : i \in DOMAIN scored} = {Expected(m) : m \in M}

CursorOK ==
  /\ pc = "entry" => ri = 1
  /\ pc \notin {"entry", "done"} => args.limits # <<>>
  /\ pc \in {"begin", "extend", "trim"} => begin >= FirstBegin(ri) /\ Count(ri) > 1
  /\ pc = "extend" => end <= Count(ri) + 1 /\ Holds(acc, ri, begin, end - 1)
  /\ pc = "trim" => Holds(acc, ri, begin, end) /\ <<ri, begin, end>> \in Mergeable
  /\ pc \in {"pick", "done"} /\ args.limits # <<>> => ri > Len(args.ranges)

TrimOK ==
  pc = "trim" =>
    /\ acc.bytes - trim.bytes = Bytes(ri, begin, trim.end)
    /\ acc.rows - trim.rows = Rows(ri, begin, trim.end)
    /\ trim.bytes \in Nat /\ trim.rows \in Nat
    /\ \A k \in trim.end + 1 .. end : SmallAtRight(k)
    /\ ~S.removeSmall => trim.end = end

ScanOK == CursorOK /\ TrimOK /\ (pc # "entry" /\ args.limits # <<>> => Scores(Scanned))

LEMMA MergeableFacts ==
  ASSUME args \in Inputs, NEW m \in Mergeable
  PROVE  /\ m = <<m[1], m[2], m[3]>> /\ MayMerge(m[1], m[2], m[3])
         /\ m[1] \in DOMAIN args.ranges /\ m[1] \in Nat \ {0} /\ m[1] <= Len(args.ranges)
         /\ m[2] \in Nat /\ m[3] \in Nat /\ Count(m[1]) \in Nat
         /\ FirstBegin(m[1]) <= m[2] /\ m[2] + 2 <= m[3] /\ m[3] <= Count(m[1])
<1>1. /\ m = <<m[1], m[2], m[3]>> /\ m[1] \in DOMAIN args.ranges
      /\ m[2] \in FirstBegin(m[1]) .. Count(m[1]) /\ m[3] \in 2 .. Count(m[1])
      /\ MayMerge(m[1], m[2], m[3])
  BY MergeableIs
<1>2. FirstBegin(m[1]) \in Nat /\ Count(m[1]) \in Nat
  BY <1>1, FirstBeginType, ArgumentTypes
<1>3. m[1] \in Nat \ {0} /\ m[1] <= Len(args.ranges)
  BY <1>1, ArgumentTypes
<1>4. m[2] + 2 <= m[3]
  BY <1>1 DEF MayMerge
<1>5. m[2] \in Nat /\ m[3] \in Nat /\ FirstBegin(m[1]) <= m[2] /\ m[3] <= Count(m[1])
  BY <1>1, <1>2
<1>6. QED
  BY <1>1, <1>2, <1>3, <1>4, <1>5

\* A step that passes no mergeable range and appends no estimate.
LEMMA SameScores ==
  ASSUME args' = args, scored' = scored, Scores(Scanned),
         \A m \in Mergeable : Passed(m)' <=> Passed(m)
  PROVE  Scores(Scanned)'
<1>1. Mergeable' = Mergeable /\ \A m : Expected(m)' = Expected(m)
  BY SameArgs
<1>2. Scanned' = Scanned
  BY <1>1 DEF Scanned
<1>3. QED
  BY <1>1, <1>2 DEF Scores

\* A step that passes one, whose estimate it appends.
LEMMA OneMoreScore ==
  ASSUME args' = args, NEW m \in Mergeable, ~Passed(m),
         DOMAIN scored = 1 .. Len(scored), Len(scored) \in Nat,
         scored' = Append(scored, Expected(m)), Scores(Scanned),
         \A n \in Mergeable : Passed(n)' <=> Passed(n) \/ n = m
  PROVE  Scores(Scanned)'
<1>1. Mergeable' = Mergeable /\ \A n : Expected(n)' = Expected(n)
  BY SameArgs
<1>2. Scanned' = Scanned \cup {m} /\ m \notin Scanned
  BY <1>1 DEF Scanned
<1>3. IsFiniteSet(Scanned') /\ Cardinality(Scanned') = Cardinality(Scanned) + 1
  BY <1>2, FS_AddElement DEF Scores
<1>4. DOMAIN scored' = 1 .. Len(scored) + 1 /\ Len(scored') = Len(scored) + 1
  OBVIOUS
<1>5. /\ scored'[Len(scored) + 1] = Expected(m)
      /\ \A i \in DOMAIN scored : scored'[i] = scored[i]
  OBVIOUS
<1>6. {scored'[i] : i \in DOMAIN scored'} = {scored[i] : i \in DOMAIN scored} \cup {Expected(m)}
  <2>1. \A i : i \in DOMAIN scored' <=> i \in DOMAIN scored \/ i = Len(scored) + 1
    BY <1>4
  <2>2. QED
    BY <1>5, <2>1
<1>7. {Expected(n) : n \in Scanned'} = {Expected(n) : n \in Scanned} \cup {Expected(m)}
  BY <1>2
<1>8. {scored'[i] : i \in DOMAIN scored'} = {Expected(n) : n \in Scanned'}
  BY <1>6, <1>7 DEF Scores
<1>9. {scored'[i] : i \in DOMAIN scored'} = {Expected(n)' : n \in Scanned'}
  BY <1>1, <1>8
<1>10. Len(scored') = Cardinality(Scanned')
  BY <1>3, <1>4 DEF Scores
<1>11. QED
  BY <1>3, <1>9, <1>10 DEF Scores

\* What the inner loop's tests say of the range it looks at.
LEMMA LookedAt ==
  ASSUME Inv, CursorOK, pc = "extend"
  PROVE  /\ ri \in DOMAIN args.ranges /\ begin \in Nat /\ end \in Nat /\ Count(ri) \in Nat
         /\ begin \in FirstBegin(ri) .. Count(ri) /\ begin + 2 <= end /\ end <= Count(ri) + 1
         /\ args.limits[1].bytes \in Nat /\ args.limits[1].rows \in Nat
         /\ MaxParts(ri) \in Int
         /\ end <= Count(ri) =>
              /\ end \in 2 .. Count(ri) /\ Grown = Totals(ri, begin, end)
              /\ Holds(Grown, ri, begin, end)
              /\ Grown.bytes = Bytes(ri, begin, end) /\ Grown.rows = Rows(ri, begin, end)
<1>1. args \in Inputs /\ ri \in DOMAIN args.ranges /\ begin \in Nat /\ end \in Nat
  BY DEF Inv, TypeOK, LoopOK
<1>2. Count(ri) \in Nat /\ begin < Count(ri) /\ begin + 2 <= end /\ end <= Count(ri) + 1
  BY <1>1, ArgumentTypes DEF Inv, LoopOK, CursorOK
<1>3. begin \in FirstBegin(ri) .. Count(ri)
  <2>1. FirstBegin(ri) \in Nat /\ begin >= FirstBegin(ri)
    BY <1>1, FirstBeginType DEF CursorOK
  <2>2. QED
    BY <1>1, <1>2, <2>1
<1>4. args.limits[1].bytes \in Nat /\ args.limits[1].rows \in Nat
  <2>1. args.limits \in Seq(Limit) /\ args.limits # <<>>
    BY <1>1, ArgumentTypes DEF CursorOK
  <2>2. args.limits[1] \in Limit
    BY <2>1
  <2>3. QED
    BY <2>2 DEF Limit
<1>5. MaxParts(ri) \in Int
  BY <1>1, <1>2, MaxPartsType
<1>6. ASSUME end <= Count(ri)
      PROVE  /\ end \in 2 .. Count(ri) /\ Grown = Totals(ri, begin, end)
             /\ Holds(Grown, ri, begin, end)
             /\ Grown.bytes = Bytes(ri, begin, end) /\ Grown.rows = Rows(ri, begin, end)
  <2>1. Holds(acc, ri, begin, end - 1)
    BY DEF CursorOK
  <2>2. PICK e \in Nat : e = end - 1 /\ end = e + 1 /\ begin + 1 <= e /\ e + 1 <= Count(ri)
    BY <1>1, <1>2, <1>6
  <2>3. Holds(Grow(acc, Parts(ri)[e + 1]), ri, begin, e + 1)
    BY <1>1, <2>1, <2>2, HoldsGrow
  <2>4. Holds(Grown, ri, begin, end)
    BY <2>2, <2>3 DEF Grown
  <2>5. Grown = Totals(ri, begin, end)
    BY <1>1, <1>6, <2>4, HoldsTotals
  <2>6. QED
    BY <1>1, <1>2, <1>6, <2>4, <2>5 DEF Holds
<1>7. QED
  BY <1>1, <1>2, <1>3, <1>4, <1>5, <1>6

\* What the tests accept may be merged, and nothing else.
LEMMA AcceptedIs ==
  ASSUME Inv, CursorOK, pc = "extend"
  PROVE  /\ CanGrow /\ Allowed => <<ri, begin, end>> \in Mergeable
         /\ CanGrow /\ ~Allowed => <<ri, begin, end>> \notin Mergeable
         /\ ~CanGrow => \A m \in Mergeable : m[1] = ri /\ m[2] = begin => m[3] < end
<1>1. /\ ri \in DOMAIN args.ranges /\ begin \in Nat /\ end \in Nat /\ Count(ri) \in Nat
      /\ begin \in FirstBegin(ri) .. Count(ri) /\ begin + 2 <= end /\ end <= Count(ri) + 1
      /\ args.limits[1].bytes \in Nat /\ args.limits[1].rows \in Nat
      /\ MaxParts(ri) \in Int
  BY LookedAt
<1>2. ASSUME end <= Count(ri)
      PROVE  /\ end \in 2 .. Count(ri) /\ Grown = Totals(ri, begin, end)
             /\ Grown.bytes = Bytes(ri, begin, end) /\ Grown.rows = Rows(ri, begin, end)
             /\ Bytes(ri, begin, end) \in Nat /\ Rows(ri, begin, end) \in Nat
  <2>1. /\ end \in 2 .. Count(ri) /\ Grown = Totals(ri, begin, end)
        /\ Grown.bytes = Bytes(ri, begin, end) /\ Grown.rows = Rows(ri, begin, end)
    BY <1>2, LookedAt
  <2>2. SumsOf(ri)
    BY <1>1, SumFacts DEF Inv, TypeOK
  <2>3. begin \in 0 .. Count(ri) /\ end \in begin .. Count(ri)
    BY <1>1, <1>2
  <2>4. QED
    BY <2>1, <2>2, <2>3 DEF SumsOf
<1>3. ASSUME CanGrow PROVE <<ri, begin, end>> \in Mergeable <=> Allowed
  <2>1. /\ end <= Count(ri) /\ (MaxParts(ri) # 0 => end - begin <= MaxParts(ri))
        /\ Bytes(ri, begin, end) <= args.limits[1].bytes
        /\ Rows(ri, begin, end) <= args.limits[1].rows
    <3>1. end <= Count(ri) /\ ~AtLimit(end - begin, MaxParts(ri))
          /\ ~TooBig(Grown.bytes, Grown.rows)
      BY <1>3 DEF CanGrow
    <3>2. MaxParts(ri) # 0 => end - begin <= MaxParts(ri)
      BY <1>1, <3>1 DEF AtLimit
    <3>3. QED
      BY <1>1, <1>2, <3>1, <3>2 DEF TooBig
  <2>2. MayMerge(ri, begin, end) <=> Allowed
    BY <1>1, <1>2, <2>1 DEF MayMerge, Allowed
  <2>3. QED
    BY <1>1, <1>2, <2>1, <2>2, MergeableIs
<1>4. ASSUME ~CanGrow, NEW m \in Mergeable, m[1] = ri, m[2] = begin PROVE m[3] < end
  <2>0. args \in Inputs
    BY DEF Inv, TypeOK
  <2>1. /\ MayMerge(ri, begin, m[3]) /\ m[3] \in Nat /\ m[3] <= Count(ri)
    BY <1>4, <2>0, MergeableFacts
  <2> SUFFICES ASSUME end <= m[3] PROVE FALSE
    BY <1>1, <2>1
  <2>2. end <= Count(ri)
    BY <1>1, <2>1
  <2>3. /\ Bytes(ri, begin, end) <= Bytes(ri, begin, m[3])
        /\ Rows(ri, begin, end) <= Rows(ri, begin, m[3])
        /\ Bytes(ri, begin, m[3]) \in Nat /\ Rows(ri, begin, m[3]) \in Nat
    <3>1. SumsOf(ri)
      BY <1>1, <2>0, SumFacts
    <3>2. begin \in 0 .. Count(ri) /\ end \in begin .. Count(ri) /\ m[3] \in end .. Count(ri)
          /\ m[3] \in begin .. Count(ri)
      BY <1>1, <2>1, <2>2
    <3>3. QED
      BY <3>1, <3>2 DEF SumsOf
  <2>4. /\ Bytes(ri, begin, m[3]) <= args.limits[1].bytes
        /\ Rows(ri, begin, m[3]) <= args.limits[1].rows
        /\ (MaxParts(ri) # 0 => m[3] - begin <= MaxParts(ri))
    BY <2>1 DEF MayMerge
  <2>5. ~TooBig(Grown.bytes, Grown.rows)
    BY <1>1, <1>2, <2>2, <2>3, <2>4 DEF TooBig
  <2>6. ~AtLimit(end - begin, MaxParts(ri))
    BY <1>1, <2>1, <2>4 DEF AtLimit
  <2>7. QED
    BY <1>4, <2>2, <2>5, <2>6 DEF CanGrow
<1>5. QED
  BY <1>3, <1>4

LEMMA InitScan == Init => ScanOK
  BY DEF Init, Idle, ScanOK, CursorOK, TrimOK

\* The ends the trimming loop comes down to, and the estimate it is appended with.
LEMMA TrimmedIs ==
  ASSUME Inv, CursorOK, TrimOK, pc = "trim", ~SmallAtRight(trim.end)
  PROVE  Estimate(ri, begin, trim.end, acc.bytes - trim.bytes, acc.rows - trim.rows,
                  PrevAtLeft(ri, begin)) = Expected(<<ri, begin, end>>)
<1>1. /\ ri \in DOMAIN args.ranges /\ begin \in Nat /\ end \in Nat /\ trim.end \in Int
      /\ end <= Count(ri) /\ trim.end <= end /\ begin + 2 <= trim.end /\ Count(ri) \in Nat
  BY ArgumentTypes DEF Inv, TypeOK, LoopOK, Trim
<1>2. acc.bytes = Bytes(ri, begin, end)
  BY DEF CursorOK, Holds
<1>3. TrimmedEnd(ri, begin, end) = trim.end
  <2>1. CASE ~S.removeSmall
    BY <2>1 DEF TrimmedEnd, TrimOK
  <2>2. CASE S.removeSmall
    <3> DEFINE Big(k) == Parts(ri)[k].size * Unit >= S.removeSmallRatio * Bytes(ri, begin, end)
               X      == {begin + 2} \cup {k \in begin + 3 .. end : Big(k)}
    <3>0. ASSUME NEW k \in begin + 3 .. end
          PROVE  SmallAtRight(k) <=> ~Big(k)
      <4>1. k \in 1 .. Count(ri)
        BY <1>1
      <4>2. Parts(ri)[k].size \in Nat
        BY <1>1, <4>1, ArgumentTypes DEF Inv, TypeOK, Part
      <4>3. S.removeSmallRatio \in Nat /\ acc.bytes \in Nat
        BY ArgumentTypes DEF Inv, TypeOK, Settings, Sums
      <4>4. PICK x \in Int, y \in Int :
              x = Parts(ri)[k].size * Unit /\ y = S.removeSmallRatio * acc.bytes
        BY <4>2, <4>3, UnitAssumption
      <4>5. SmallAtRight(k) <=> x < y
        BY <1>1, <2>2, <4>4 DEF SmallAtRight
      <4>6. Big(k) <=> x >= y
        BY <1>2, <4>4
      <4>7. QED
        BY <4>4, <4>5, <4>6
    <3>1. X \in SUBSET Int
      BY <1>1
    <3>2. \A k \in trim.end + 1 .. end : k \in begin + 3 .. end /\ ~Big(k)
      <4>1. ASSUME NEW k \in trim.end + 1 .. end PROVE k \in begin + 3 .. end /\ ~Big(k)
        <5>1. k \in begin + 3 .. end
          BY <1>1
        <5>2. SmallAtRight(k)
          BY DEF TrimOK
        <5>3. QED
          BY <3>0, <5>1, <5>2
      <4>2. QED
        BY <4>1
    <3>3. trim.end \in X
      <4>1. CASE trim.end = begin + 2
        BY <4>1
      <4>2. CASE trim.end # begin + 2
        <5>1. trim.end \in begin + 3 .. end
          BY <1>1, <4>2
        <5>2. Big(trim.end)
          BY <3>0, <5>1
        <5>3. QED
          BY <5>1, <5>2
      <4>3. QED
        BY <4>1, <4>2
    <3>4. ASSUME NEW y \in X PROVE trim.end >= y
      <4>1. CASE y = begin + 2
        BY <1>1, <4>1
      <4>2. CASE y \in begin + 3 .. end /\ Big(y)
        <5>1. y \notin trim.end + 1 .. end
          BY <3>2, <4>2
        <5>2. QED
          BY <1>1, <4>2, <5>1
      <4>3. QED
        BY <4>1, <4>2
    <3>5. TrimmedEnd(ri, begin, end) = Max(X)
      BY <2>2 DEF TrimmedEnd
    <3> HIDE DEF X
    <3>6. QED
      BY <3>1, <3>3, <3>4, <3>5, MaxIs
  <2>3. S.removeSmall \in BOOLEAN
    BY ArgumentTypes DEF Inv, TypeOK, Settings
  <2>4. QED
    BY <2>1, <2>2
<1>4. /\ acc.bytes - trim.bytes = Bytes(ri, begin, trim.end)
      /\ acc.rows - trim.rows = Rows(ri, begin, trim.end)
  BY DEF TrimOK
<1> DEFINE m == <<ri, begin, end>>
<1>5. m[1] = ri /\ m[2] = begin /\ m[3] = end
  OBVIOUS
<1> HIDE DEF m
<1>6. Expected(m) = Estimate(ri, begin, trim.end, Bytes(ri, begin, trim.end),
                             Rows(ri, begin, trim.end), PrevAtLeft(ri, begin))
  BY <1>3, <1>5 DEF Expected
<1>7. QED
  BY <1>4, <1>6 DEF m

\* Dropping a small part from the right takes it off the sums.
LEMMA TrimStep == ASSUME Inv, CursorOK, TrimOK, TrimRight PROVE TrimOK'
<1>0. pc = "trim" /\ SmallAtRight(trim.end) /\ trim' = DropRight(trim)
      /\ UNCHANGED <<args, pc, ri, begin, end, acc>>
  BY DEF TrimRight
<1>1. /\ ri \in DOMAIN args.ranges /\ begin \in Nat /\ end \in Nat /\ trim.end \in Int
      /\ end <= Count(ri) /\ trim.end <= end /\ begin + 3 <= trim.end /\ Count(ri) \in Nat
      /\ trim.bytes \in Nat /\ trim.rows \in Nat
  BY <1>0, ArgumentTypes DEF Inv, TypeOK, LoopOK, Trim, SmallAtRight
<1>2. PICK e \in Int : e = trim.end - 1 /\ trim.end = e + 1
  BY <1>1
<1>3. /\ Bytes(ri, begin, trim.end) = Bytes(ri, begin, e) + Parts(ri)[trim.end].size
      /\ Rows(ri, begin, trim.end) = Rows(ri, begin, e) + Parts(ri)[trim.end].rows
      /\ Bytes(ri, begin, e) \in Nat /\ Rows(ri, begin, e) \in Nat
  <2>1. SumsOf(ri)
    BY <1>1, SumFacts DEF Inv, TypeOK
  <2>2. begin \in 0 .. Count(ri) /\ trim.end \in begin + 1 .. Count(ri) /\ e \in begin .. Count(ri)
    BY <1>1, <1>2
  <2>3. QED
    BY <1>2, <2>1, <2>2 DEF SumsOf
<1>4. PICK p \in Part : p = Parts(ri)[trim.end]
  <2>1. trim.end \in 1 .. Count(ri)
    BY <1>1
  <2>2. QED
    BY <1>1, <2>1, ArgumentTypes DEF Inv, TypeOK
<1>5. p.size \in Nat /\ p.rows \in Nat
  BY DEF Part
<1>6. trim'.end = e /\ trim'.bytes = trim.bytes + p.size /\ trim'.rows = trim.rows + p.rows
  BY <1>0, <1>2, <1>4 DEF DropRight
<1>7. acc.bytes \in Nat /\ acc.rows \in Nat
  BY DEF Inv, TypeOK, Sums
<1>8. /\ acc.bytes - trim'.bytes = Bytes(ri, begin, e) /\ acc.rows - trim'.rows = Rows(ri, begin, e)
      /\ trim'.bytes \in Nat /\ trim'.rows \in Nat
  <2>1. acc.bytes - trim.bytes = Bytes(ri, begin, e) + p.size
        /\ acc.rows - trim.rows = Rows(ri, begin, e) + p.rows
    BY <1>0, <1>3, <1>4 DEF TrimOK
  <2>2. PICK x \in Nat, y \in Nat : x = Bytes(ri, begin, e) /\ y = Rows(ri, begin, e)
    BY <1>3
  <2>3. QED
    BY <1>1, <1>5, <1>6, <1>7, <2>1, <2>2
<1>9. \A r, b, f : Bytes(r, b, f)' = Bytes(r, b, f) /\ Rows(r, b, f)' = Rows(r, b, f)
  BY <1>0, SameArgs
<1>10. \A k : SmallAtRight(k)' <=> SmallAtRight(k)
  BY <1>0 DEF SmallAtRight, S, Parts
<1>11. \A k \in e + 1 .. end : SmallAtRight(k)
  <2>1. \A k \in e + 1 .. end : k = trim.end \/ k \in trim.end + 1 .. end
    BY <1>1, <1>2
  <2>2. QED
    BY <1>0, <2>1 DEF TrimOK
<1>12. S'.removeSmall
  BY <1>0 DEF SmallAtRight, S
<1>13. /\ acc'.bytes - trim'.bytes = Bytes(ri, begin, trim.end)'
       /\ acc'.rows - trim'.rows = Rows(ri, begin, trim.end)'
  BY <1>0, <1>6, <1>8, <1>9
<1>14. \A k \in trim'.end + 1 .. end' : SmallAtRight(k)'
  BY <1>0, <1>6, <1>10, <1>11
<1>15. QED
  BY <1>8, <1>12, <1>13, <1>14 DEF TrimOK

\* Every step keeps what the loops have scanned and scored.
LEMMA StepScan == Inv /\ ScanOK /\ [Next]_vars => ScanOK'
<1> SUFFICES ASSUME Inv, ScanOK, [Next]_vars PROVE ScanOK'
  OBVIOUS
<1>0. /\ CursorOK /\ TrimOK /\ (pc # "entry" /\ args.limits # <<>> => Scores(Scanned))
      /\ args \in Inputs /\ ri \in Nat \ {0} /\ begin \in Nat /\ end \in Nat
      /\ Len(args.ranges) \in Nat
      /\ DOMAIN scored = 1 .. Len(scored) /\ Len(scored) \in Nat
  <2>1. CursorOK /\ TrimOK /\ (pc # "entry" /\ args.limits # <<>> => Scores(Scanned))
    BY DEF ScanOK
  <2>2. /\ args \in Inputs /\ ri \in Nat \ {0} /\ begin \in Nat /\ end \in Nat
        /\ DOMAIN scored = 1 .. Len(scored)
    BY DEF Inv, TypeOK
  <2>3. Len(args.ranges) \in Nat
    BY <2>2, ArgumentTypes
  <2>4. Len(scored) \in Nat
    BY DEF Inv, TypeOK
  <2>5. QED
    BY <2>1, <2>2, <2>3, <2>4
<1>a. \A m \in Mergeable :
        /\ m = <<m[1], m[2], m[3]>> /\ m[1] \in Nat \ {0} /\ m[1] <= Len(args.ranges)
        /\ m[2] \in Nat /\ m[3] \in Nat /\ Count(m[1]) \in Nat
        /\ FirstBegin(m[1]) <= m[2] /\ m[2] + 2 <= m[3] /\ m[3] <= Count(m[1])
  BY <1>0, MergeableFacts
<1>1. CASE Enter
  <2>0. pc = "entry" /\ UNCHANGED <<args, ri, begin, end, acc, trim, scored>>
        /\ pc' = IF args.limits = <<>> THEN "done" ELSE "range"
    BY <1>1 DEF Enter, scan
  <2>1. CursorOK' /\ TrimOK'
    BY <1>0, <2>0 DEF CursorOK, TrimOK
  <2>2. ASSUME args'.limits # <<>> PROVE Scores(Scanned)'
    <3>1. pc' = "range" /\ ri' = 1 /\ scored' = <<>>
      BY <1>0, <2>0, <2>2 DEF CursorOK, Inv, LoopOK
    <3>2. Mergeable' = Mergeable
      BY <2>0, SameArgs
    <3>3. Scanned' = {}
      BY <1>a, <3>1, <3>2 DEF Scanned, Passed
    <3>4. QED
      BY <3>1, <3>3, FS_EmptySet DEF Scores
  <2>3. QED
    BY <2>1, <2>2 DEF ScanOK
<1>2. CASE SkipRange
  <2>0. /\ pc = "range" /\ Count(ri) <= 1 /\ ri' = ri + 1
        /\ UNCHANGED <<args, pc, begin, end, acc, trim, scored>>
    BY <1>2 DEF SkipRange
  <2>1. CursorOK' /\ TrimOK'
    BY <1>0, <2>0 DEF CursorOK, TrimOK
  <2>2. \A m \in Mergeable : Passed(m)' <=> Passed(m)
    <3>1. \A m \in Mergeable : m[1] # ri
      BY <1>a, <2>0
    <3>2. QED
      BY <1>0, <1>a, <2>0, <3>1 DEF Passed
  <2>3. Scores(Scanned)
    BY <1>0, <2>0 DEF CursorOK
  <2>4. QED
    BY <2>0, <2>1, <2>2, <2>3, SameScores DEF ScanOK
<1>3. CASE OpenRange
  <2>0. /\ pc = "range" /\ Count(ri) > 1 /\ begin' = FirstBegin(ri) /\ pc' = "begin"
        /\ UNCHANGED <<args, ri, end, acc, trim, scored>> /\ ri <= Len(args.ranges)
    BY <1>3 DEF OpenRange
  <2>1. CursorOK' /\ TrimOK'
    <3>1. FirstBegin(ri)' = FirstBegin(ri) /\ Count(ri)' = Count(ri)
      BY <2>0 DEF FirstBegin, Count, S
    <3>2. ri \in DOMAIN args.ranges
      BY <1>0, <2>0, ArgumentTypes
    <3>3. FirstBegin(ri) \in Nat
      BY <1>0, <3>2, FirstBeginType
    <3>4. QED
      BY <1>0, <2>0, <3>1, <3>3 DEF CursorOK, TrimOK
  <2>2. \A m \in Mergeable : Passed(m)' <=> Passed(m)
    <3>1. \A m \in Mergeable : m[1] = ri => ~(m[2] < begin')
      <4>1. ri \in DOMAIN args.ranges
        BY <1>0, <2>0, ArgumentTypes
      <4>2. FirstBegin(ri) \in Nat
        BY <1>0, <4>1, FirstBeginType
      <4>3. QED
        BY <1>a, <2>0, <4>2
    <3>2. QED
      BY <2>0, <3>1 DEF Passed
  <2>3. Scores(Scanned)
    BY <1>0, <2>0 DEF CursorOK
  <2>4. QED
    BY <2>0, <2>1, <2>2, <2>3, SameScores DEF ScanOK
<1>4. CASE CloseRange
  <2>0. /\ pc = "begin" /\ begin >= Count(ri) /\ ri' = ri + 1 /\ pc' = "range"
        /\ UNCHANGED <<args, begin, end, acc, trim, scored>>
    BY <1>4 DEF CloseRange
  <2>1. CursorOK' /\ TrimOK'
    BY <1>0, <2>0 DEF CursorOK, TrimOK
  <2>2. \A m \in Mergeable : Passed(m)' <=> Passed(m)
    <3>1. \A m \in Mergeable : m[1] = ri => m[2] < begin
      BY <1>0, <1>a, <2>0
    <3>2. \A m \in Mergeable : m[1] < ri + 1 <=> m[1] < ri \/ m[1] = ri
      BY <1>0, <1>a
    <3>3. QED
      BY <2>0, <3>1, <3>2 DEF Passed
  <2>3. Scores(Scanned)
    BY <1>0, <2>0 DEF CursorOK
  <2>4. QED
    BY <2>0, <2>1, <2>2, <2>3, SameScores DEF ScanOK
<1>5. CASE OpenBegin
  <2>0. /\ pc = "begin" /\ begin < Count(ri) /\ acc' = Start(Parts(ri)[begin + 1])
        /\ end' = begin + 2 /\ pc' = "extend" /\ UNCHANGED <<args, ri, begin, trim, scored>>
    BY <1>5 DEF OpenBegin
  <2>1. CursorOK'
    <3>1. ri \in DOMAIN args.ranges /\ Count(ri) \in Nat
      BY <1>0, <2>0, ArgumentTypes DEF Inv, LoopOK
    <3>2. Holds(Start(Parts(ri)[begin + 1]), ri, begin, begin + 1)
      BY <1>0, <2>0, <3>1, HoldsStart
    <3>3. end' - 1 = begin + 1 /\ end' <= Count(ri) + 1
      BY <1>0, <2>0, <3>1
    <3>4. \A a, r, b, e : Holds(a, r, b, e)' <=> Holds(a, r, b, e)
      BY <2>0, SameArgs
    <3>5. Holds(acc, ri, begin, end - 1)'
      BY <2>0, <3>2, <3>3, <3>4
    <3>6. FirstBegin(ri)' = FirstBegin(ri) /\ Count(ri)' = Count(ri)
      BY <2>0 DEF FirstBegin, Count, S
    <3>7. QED
      BY <1>0, <2>0, <3>3, <3>5, <3>6 DEF CursorOK
  <2>2. TrimOK'
    BY <2>0 DEF TrimOK
  <2>3. \A m \in Mergeable : Passed(m)' <=> Passed(m)
    <3>1. \A m \in Mergeable : m[2] = begin => ~(m[3] < begin + 2)
      BY <1>0, <1>a
    <3>2. QED
      BY <2>0, <3>1 DEF Passed
  <2>4. Scores(Scanned)
    BY <1>0, <2>0 DEF CursorOK
  <2>5. QED
    BY <2>0, <2>1, <2>2, <2>3, <2>4, SameScores DEF ScanOK
<1>6. CASE CloseBegin
  <2>0. /\ pc = "extend" /\ ~CanGrow /\ begin' = begin + 1 /\ pc' = "begin"
        /\ UNCHANGED <<args, ri, end, acc, trim, scored>>
    BY <1>6 DEF CloseBegin
  <2>1. CursorOK' /\ TrimOK'
    <3>1. FirstBegin(ri)' = FirstBegin(ri) /\ Count(ri)' = Count(ri)
      BY <2>0 DEF FirstBegin, Count, S
    <3>2. ri \in DOMAIN args.ranges
      BY <2>0 DEF Inv, LoopOK
    <3>3. FirstBegin(ri) \in Nat
      BY <1>0, <3>2, FirstBeginType
    <3>4. QED
      BY <1>0, <2>0, <3>1, <3>3 DEF CursorOK, TrimOK
  <2>2. \A m \in Mergeable : Passed(m)' <=> Passed(m)
    <3>1. \A m \in Mergeable : m[1] = ri /\ m[2] = begin => m[3] < end
      BY <1>0, <2>0, AcceptedIs
    <3>2. \A m \in Mergeable : m[2] < begin + 1 <=> m[2] < begin \/ m[2] = begin
      BY <1>0, <1>a
    <3>3. QED
      BY <2>0, <3>1, <3>2 DEF Passed
  <2>3. Scores(Scanned)
    BY <1>0, <2>0 DEF CursorOK
  <2>4. QED
    BY <2>0, <2>1, <2>2, <2>3, SameScores DEF ScanOK
<1>7. ASSUME pc = "extend", CanGrow
      PROVE  /\ end <= Count(ri) /\ Count(ri) \in Nat /\ Holds(Grown, ri, begin, end)
  BY <1>0, <1>7, LookedAt DEF CanGrow
<1>8. CASE Refuse
  <2>0. /\ pc = "extend" /\ CanGrow /\ ~Allowed /\ acc' = Grown /\ end' = end + 1
        /\ UNCHANGED <<args, pc, ri, begin, trim, scored>>
    BY <1>8 DEF Refuse
  <2>1. CursorOK' /\ TrimOK'
    <3>1. FirstBegin(ri)' = FirstBegin(ri) /\ Count(ri)' = Count(ri)
      BY <2>0 DEF FirstBegin, Count, S
    <3>2. \A a, r, b, e : Holds(a, r, b, e)' <=> Holds(a, r, b, e)
      BY <2>0, SameArgs
    <3>3. end' - 1 = end /\ end' <= Count(ri) + 1
      BY <1>0, <1>7, <2>0
    <3>4. Holds(acc, ri, begin, end - 1)'
      BY <1>7, <2>0, <3>2, <3>3
    <3>5. QED
      BY <1>0, <2>0, <3>1, <3>3, <3>4 DEF CursorOK, TrimOK
  <2>2. \A m \in Mergeable : Passed(m)' <=> Passed(m)
    <3>1. \A m \in Mergeable : m[1] = ri /\ m[2] = begin => m[3] # end
      BY <1>0, <1>a, <2>0, AcceptedIs
    <3>2. \A m \in Mergeable : m[3] < end + 1 <=> m[3] < end \/ m[3] = end
      BY <1>0, <1>a
    <3>3. QED
      BY <2>0, <3>1, <3>2 DEF Passed
  <2>3. Scores(Scanned)
    BY <1>0, <2>0 DEF CursorOK
  <2>4. QED
    BY <2>0, <2>1, <2>2, <2>3, SameScores DEF ScanOK
<1>9. CASE Accept
  <2>0. /\ pc = "extend" /\ CanGrow /\ Allowed /\ acc' = Grown /\ pc' = "trim"
        /\ trim' = [end |-> end, bytes |-> 0, rows |-> 0]
        /\ UNCHANGED <<args, ri, begin, end, scored>>
    BY <1>9 DEF Accept
  <2>1. /\ \A a, r, b, e : Holds(a, r, b, e)' <=> Holds(a, r, b, e)
        /\ \A r, b, e : Bytes(r, b, e)' = Bytes(r, b, e) /\ Rows(r, b, e)' = Rows(r, b, e)
        /\ Mergeable' = Mergeable
    BY <2>0, SameArgs
  <2>2. CursorOK'
    <3>1. FirstBegin(ri)' = FirstBegin(ri) /\ Count(ri)' = Count(ri)
      BY <2>0 DEF FirstBegin, Count, S
    <3>2. Holds(acc, ri, begin, end)'
      BY <1>7, <2>0, <2>1
    <3>3. <<ri', begin', end'>> \in Mergeable'
      BY <1>0, <2>0, <2>1, AcceptedIs
    <3>4. QED
      BY <1>0, <2>0, <3>1, <3>2, <3>3 DEF CursorOK
  <2>3. TrimOK'
    <3>1. /\ acc'.bytes = Bytes(ri, begin, end) /\ acc'.rows = Rows(ri, begin, end)
          /\ acc'.bytes \in Nat /\ acc'.rows \in Nat
      BY <1>7, <2>0 DEF Holds, Sums
    <3>2. trim'.end = end /\ trim'.bytes = 0 /\ trim'.rows = 0
      BY <2>0
    <3>3. \A k : ~(k \in end + 1 .. end)
      BY <1>0
    <3>4. /\ acc'.bytes - trim'.bytes = Bytes(ri, begin, trim.end)'
          /\ acc'.rows - trim'.rows = Rows(ri, begin, trim.end)'
      BY <2>0, <2>1, <3>1, <3>2
    <3>5. \A k \in trim'.end + 1 .. end' : SmallAtRight(k)'
      BY <2>0, <3>2, <3>3
    <3>6. QED
      BY <2>0, <3>2, <3>4, <3>5 DEF TrimOK
  <2>4. \A m \in Mergeable : Passed(m)' <=> Passed(m)
    BY <2>0 DEF Passed
  <2>5. Scores(Scanned)
    BY <1>0, <2>0 DEF CursorOK
  <2>6. QED
    BY <2>0, <2>2, <2>3, <2>4, <2>5, SameScores DEF ScanOK
<1>10. CASE TrimRight
  <2>0. pc = "trim" /\ UNCHANGED <<args, pc, ri, begin, end, acc, scored>>
    BY <1>10 DEF TrimRight
  <2>1. /\ \A a, r, b, e : Holds(a, r, b, e)' <=> Holds(a, r, b, e)
        /\ Mergeable' = Mergeable
    BY <2>0, SameArgs
  <2>2. CursorOK'
    <3>1. FirstBegin(ri)' = FirstBegin(ri) /\ Count(ri)' = Count(ri)
      BY <2>0 DEF FirstBegin, Count, S
    <3>2. QED
      BY <1>0, <2>0, <2>1, <3>1 DEF CursorOK
  <2>3. TrimOK'
    BY <1>0, <1>10, TrimStep
  <2>4. \A m \in Mergeable : Passed(m)' <=> Passed(m)
    BY <2>0 DEF Passed
  <2>5. Scores(Scanned)
    BY <1>0, <2>0 DEF CursorOK
  <2>6. QED
    BY <2>0, <2>2, <2>3, <2>4, <2>5, SameScores DEF ScanOK
<1>11. CASE Consider
  <2>0. /\ pc = "trim" /\ ~SmallAtRight(trim.end) /\ end' = end + 1 /\ pc' = "extend"
        /\ scored' = Append(scored, Estimate(ri, begin, trim.end, acc.bytes - trim.bytes,
                                       acc.rows - trim.rows, PrevAtLeft(ri, begin)))
        /\ UNCHANGED <<args, ri, begin, acc, trim>>
    BY <1>11 DEF Consider
  <2> DEFINE m == <<ri, begin, end>>
  <2>1. m \in Mergeable /\ m[1] = ri /\ m[2] = begin /\ m[3] = end
    BY <1>0, <2>0 DEF CursorOK
  <2>2. scored' = Append(scored, Expected(m))
    BY <1>0, <2>0, TrimmedIs
  <2>3. CursorOK' /\ TrimOK'
    <3>1. FirstBegin(ri)' = FirstBegin(ri) /\ Count(ri)' = Count(ri)
      BY <2>0 DEF FirstBegin, Count, S
    <3>2. \A a, r, b, e : Holds(a, r, b, e)' <=> Holds(a, r, b, e)
      BY <2>0, SameArgs
    <3>3. end' - 1 = end /\ end' <= Count(ri) + 1
      <4>1. end <= Count(ri) /\ Count(ri) \in Nat
        BY <1>0, <1>a, <2>1
      <4>2. QED
        BY <1>0, <2>0, <4>1
    <3>4. Holds(acc, ri, begin, end - 1)'
      BY <1>0, <2>0, <3>2, <3>3 DEF CursorOK
    <3>5. QED
      BY <1>0, <2>0, <3>1, <3>3, <3>4 DEF CursorOK, TrimOK
  <2>4. ASSUME NEW n \in Mergeable PROVE Passed(n)' <=> Passed(n) \/ n = m
    <3>1. n = m <=> n[1] = ri /\ n[2] = begin /\ n[3] = end
      BY <1>a, <2>1
    <3>2. n[3] < end + 1 <=> n[3] < end \/ n[3] = end
      BY <1>0, <1>a
    <3> HIDE DEF m
    <3>3. QED
      BY <1>0, <1>a, <2>0, <3>1, <3>2 DEF Passed
  <2>5. ~Passed(m)
    <3> HIDE DEF m
    <3>1. QED
      BY <1>0, <2>1 DEF Passed
  <2>6. Scores(Scanned)
    BY <1>0, <2>0 DEF CursorOK
  <2>7. Scores(Scanned)'
    <3> HIDE DEF m
    <3>1. QED
      BY <1>0, <2>0, <2>1, <2>2, <2>4, <2>5, <2>6, OneMoreScore
  <2>8. QED
    BY <2>3, <2>7 DEF ScanOK
<1>12. CASE SortScored
  <2>0. /\ pc = "range" /\ ri > Len(args.ranges) /\ pc' = "pick"
        /\ UNCHANGED <<args, ri, begin, end, acc, trim, scored>>
    BY <1>12 DEF SortScored, scan
  <2>1. CursorOK' /\ TrimOK'
    BY <1>0, <2>0 DEF CursorOK, TrimOK
  <2>2. \A m \in Mergeable : Passed(m)' <=> Passed(m)
    BY <2>0 DEF Passed
  <2>3. Scores(Scanned)
    BY <1>0, <2>0 DEF CursorOK
  <2>4. QED
    BY <2>0, <2>1, <2>2, <2>3, SameScores DEF ScanOK
<1>13. ASSUME pc = "pick", pc' \in {"pick", "done"},
              UNCHANGED <<args, ri, begin, end, acc, trim, scored>>
       PROVE  ScanOK'
  <2>1. CursorOK' /\ TrimOK'
    BY <1>0, <1>13 DEF CursorOK, TrimOK
  <2>2. \A m \in Mergeable : Passed(m)' <=> Passed(m)
    BY <1>13 DEF Passed
  <2>3. Scores(Scanned)
    BY <1>0, <1>13 DEF CursorOK
  <2>4. QED
    BY <1>13, <2>1, <2>2, <2>3, SameScores DEF ScanOK
<1>14. ASSUME NEW i \in rest, Take(i) \/ Pass(i) PROVE ScanOK'
  BY <1>13, <1>14 DEF Take, Pass, scan
<1>15. CASE Return
  BY <1>13, <1>15 DEF Return, scan
<1>16. CASE UNCHANGED vars
  <2>0. UNCHANGED <<args, pc, ri, begin, end, acc, trim, scored>>
    BY <1>16 DEF vars, scan
  <2>1. /\ \A a, r, b, e : Holds(a, r, b, e)' <=> Holds(a, r, b, e)
        /\ \A r, b, e : Bytes(r, b, e)' = Bytes(r, b, e) /\ Rows(r, b, e)' = Rows(r, b, e)
        /\ Mergeable' = Mergeable
    BY <2>0, SameArgs
  <2>2. CursorOK'
    <3>1. FirstBegin(ri)' = FirstBegin(ri) /\ Count(ri)' = Count(ri)
      BY <2>0 DEF FirstBegin, Count, S
    <3>2. QED
      BY <1>0, <2>0, <2>1, <3>1 DEF CursorOK
  <2>3. TrimOK'
    <3>1. \A k : SmallAtRight(k)' <=> SmallAtRight(k)
      BY <2>0 DEF SmallAtRight, S, Parts
    <3>2. S'.removeSmall = S.removeSmall
      BY <2>0 DEF S
    <3>3. QED
      BY <1>0, <2>0, <2>1, <3>1, <3>2 DEF TrimOK
  <2>4. \A m \in Mergeable : Passed(m)' <=> Passed(m)
    BY <2>0 DEF Passed
  <2>5. ASSUME pc # "entry", args.limits # <<>> PROVE Scores(Scanned)'
    BY <1>0, <2>0, <2>4, <2>5, SameScores
  <2>6. QED
    BY <2>0, <2>2, <2>3, <2>5 DEF ScanOK
<1>17. QED
  BY <1>1, <1>2, <1>3, <1>4, <1>5, <1>6, <1>8, <1>9, <1>10, <1>11, <1>12, <1>14, <1>15, <1>16
     DEF Next

-----------------------------------------------------------------------------
(***************************************************************************)
(* The candidates, and the theorem.                                        *)
(***************************************************************************)
\* A candidate was small enough for its own constraint when it was taken.
TakenFits == \A k \in DOMAIN out : Fits(scored[out[k]], args.limits[k])

LEMMA StepFits == Inv /\ TakenFits /\ [Next]_vars => TakenFits'
<1> SUFFICES ASSUME Inv, TakenFits, [Next]_vars PROVE TakenFits'
  OBVIOUS
<1>1. CASE UNCHANGED <<args, scored, out>>
  BY <1>1 DEF TakenFits, Fits
<1>2. ASSUME NEW i \in rest, Take(i) PROVE TakenFits'
  <2>1. /\ DOMAIN out' = 1 .. Len(out) + 1 /\ DOMAIN out = 1 .. Len(out) /\ Len(out) \in Nat
        /\ out'[Len(out) + 1] = i
        /\ \A k \in DOMAIN out : out'[k] = out[k]
    BY <1>2, TakeAppends
  <2>2. UNCHANGED <<args, scored>> /\ Fits(scored[i], args.limits[Len(out) + 1])
    BY <1>2 DEF Take, Takeable, scan
  <2>3. \A k \in DOMAIN out' : k \in DOMAIN out \/ k = Len(out) + 1
    BY <2>1
  <2>4. \A k \in DOMAIN out' : Fits(scored[out'[k]], args.limits[k])
    BY <2>1, <2>2, <2>3 DEF TakenFits
  <2>5. QED
    BY <2>2, <2>4 DEF TakenFits, Fits
<1>3. CASE Consider
  <2>1. out = <<>> /\ out' = out
    BY <1>3 DEF Consider, picks, Inv, LoopOK
  <2>2. QED
    BY <2>1 DEF TakenFits
<1>4. QED
  BY <1>1, <1>2, <1>3 DEF Next, Enter, SkipRange, OpenRange, CloseRange, OpenBegin, CloseBegin,
     Refuse, Accept, TrimRight, SortScored, Pass, Return, vars, scan, picks

AgreeInv == Inv /\ PickOK /\ ScanOK /\ TakenFits

\* A mergeable range is trimmed to at least two of its parts.
LEMMA TrimmedType ==
  ASSUME args \in Inputs, NEW m \in Mergeable
  PROVE  TrimmedEnd(m[1], m[2], m[3]) \in m[2] + 2 .. m[3]
<1>1. /\ m[1] \in DOMAIN args.ranges /\ m[2] \in Nat /\ m[3] \in Nat /\ m[2] + 2 <= m[3]
      /\ m[3] <= Count(m[1])
  BY MergeableFacts
<1>2. CASE ~S.removeSmall
  BY <1>1, <1>2 DEF TrimmedEnd
<1>3. CASE S.removeSmall
  <2> DEFINE X == {m[2] + 2} \cup {k \in m[2] + 3 .. m[3] :
                     Parts(m[1])[k].size * Unit >= S.removeSmallRatio * Bytes(m[1], m[2], m[3])}
             Bounds == {k \in Nat : \A x \in X : x <= k}
  <2>1. X \in SUBSET (m[2] + 2 .. m[3]) /\ m[2] + 2 \in X
    BY <1>1
  <2>2. TrimmedEnd(m[1], m[2], m[3]) = Max(X)
    BY <1>3 DEF TrimmedEnd
  <2> HIDE DEF X
  <2>3. m[3] \in Bounds
    BY <1>1, <2>1
  <2>4. PICK k \in Bounds : \A l \in Bounds : k <= l
    BY <2>3, LeastNumber
  <2>5. k \in X
    <3> SUFFICES ASSUME k \notin X PROVE FALSE
      OBVIOUS
    <3>1. k - 1 \in Nat /\ \A x \in X : x <= k - 1
      BY <1>1, <2>1
    <3>2. k - 1 \in Bounds
      BY <3>1
    <3>3. QED
      BY <2>4, <3>2
  <2>6. X \in SUBSET Int /\ \A x \in X : k >= x
    BY <1>1, <2>1
  <2>7. Max(X) = k
    BY <2>5, <2>6, MaxIs
  <2>8. QED
    BY <2>1, <2>2, <2>5, <2>7
<1>4. S.removeSmall \in BOOLEAN
  BY ArgumentTypes DEF Settings
<1>5. QED
  BY <1>2, <1>3, <1>4

\* When the scan is over there is exactly one estimate per mergeable range.
LEMMA AllScored == AgreeInv => EverySubRangeScored
<1> SUFFICES ASSUME AgreeInv, pc \in {"pick", "done"}, args.limits # <<>>
             PROVE  /\ Len(scored) = Cardinality(Mergeable)
                    /\ {scored[i] : i \in DOMAIN scored} = {Expected(m) : m \in Mergeable}
  BY DEF EverySubRangeScored
<1>1. ri > Len(args.ranges) /\ Scores(Scanned) /\ args \in Inputs /\ ri \in Nat
      /\ Len(args.ranges) \in Nat
  BY ArgumentTypes DEF AgreeInv, ScanOK, CursorOK, Inv, TypeOK
<1>2. \A m \in Mergeable : m[1] \in Nat /\ m[1] <= Len(args.ranges)
  BY <1>1, MergeableFacts
<1>3. Scanned = Mergeable
  BY <1>1, <1>2 DEF Scanned, Passed
<1>4. QED
  BY <1>1, <1>3 DEF Scores

\* Whatever Select is called with, its loops score the sub-ranges that may be merged, each
\* once, with the sums of its parts; a candidate's sums are those of the parts it lists,
\* within its constraint; and the heuristic only lowers max_parts_to_merge_at_once.
THEOREM Agrees == Spec => []AgreesWithReference
<1>1. Init => AgreeInv
  BY InitInv, InitPick, InitScan DEF AgreeInv, TakenFits, Init, Idle
<1>2. AgreeInv /\ [Next]_vars => AgreeInv'
  BY StepInv, StepPick, StepScan, StepFits DEF AgreeInv
<1>3. AgreeInv => CandidatesExact
  <2> SUFFICES ASSUME AgreeInv, NEW k \in DOMAIN out
               PROVE  LET c == scored[out[k]]
                      IN /\ c.bytes = Bytes(c.range, c.begin, c.end)
                         /\ c.rows = Rows(c.range, c.begin, c.end)
                         /\ c.bytes <= args.limits[k].bytes /\ c.rows <= args.limits[k].rows
                         /\ S.maxParts # 0 /\ S.base >= Unit => c.end - c.begin <= S.maxParts
    BY DEF CandidatesExact
  <2> DEFINE c == scored[out[k]]
  <2>1. out \in Seq(DOMAIN scored) /\ args \in Inputs
    BY DEF AgreeInv, Inv, TypeOK
  <2>2. out[k] \in DOMAIN scored
    BY <2>1
  <2>3. pc \in {"pick", "done"}
    BY DEF AgreeInv, Inv, TypeOK, LoopOK
  <2>4. c.bytes <= args.limits[k].bytes /\ c.rows <= args.limits[k].rows
    BY DEF AgreeInv, TakenFits, Fits
  <2>5. args.limits # <<>>
    <3>1. Len(out) <= Len(args.limits)
      BY <2>3 DEF AgreeInv, PickOK
    <3>2. Len(out) \in Nat \ {0}
      BY <2>1
    <3>3. QED
      BY <3>1, <3>2
  <2>6. PICK m \in Mergeable : c = Expected(m)
    <3>1. {scored[i] : i \in DOMAIN scored} = {Expected(m) : m \in Mergeable}
      BY <2>3, <2>5, AllScored DEF EverySubRangeScored
    <3>2. c \in {scored[i] : i \in DOMAIN scored}
      BY <2>2
    <3>3. QED
      BY <3>1, <3>2
  <2> DEFINE e == TrimmedEnd(m[1], m[2], m[3])
  <2>7. /\ c.range = m[1] /\ c.begin = m[2] /\ c.end = e
        /\ c.bytes = Bytes(m[1], m[2], e) /\ c.rows = Rows(m[1], m[2], e)
    BY <2>6 DEF Expected, Estimate
  <2>8. ASSUME S.maxParts # 0, S.base >= Unit PROVE c.end - c.begin <= S.maxParts
    <3>1. /\ MayMerge(m[1], m[2], m[3]) /\ m[1] \in DOMAIN args.ranges
          /\ m[2] \in Nat /\ m[3] \in Nat /\ m[2] + 2 <= m[3] /\ m[3] <= Count(m[1])
          /\ Count(m[1]) \in Nat
      BY <2>1, MergeableFacts
    <3>2. e \in m[2] + 2 .. m[3]
      BY <2>1, TrimmedType
    <3>3. MaxParts(m[1]) \in 1 .. S.maxParts /\ S.maxParts \in Nat
      <4>1. Count(m[1]) > 0
        BY <3>1
      <4>2. MaxParts(m[1]) \in 1 .. S.maxParts
        BY <2>1, <2>8, <3>1, <4>1, MaxPartsType
      <4>3. S.maxParts \in Nat
        BY <2>1, ArgumentTypes DEF Settings
      <4>4. QED
        BY <4>2, <4>3
    <3>4. m[3] - m[2] <= MaxParts(m[1])
      BY <3>1, <3>3 DEF MayMerge
    <3> HIDE DEF c, e
    <3>5. QED
      BY <2>7, <3>1, <3>2, <3>3, <3>4
  <2> HIDE DEF c, e
  <2>9. QED
    BY <2>4, <2>7, <2>8 DEF c
<1>4. AgreeInv => AgreesWithReference
  BY <1>3, AllScored DEF AgreesWithReference
<1>5. QED
  BY <1>1, <1>2, <1>4, PTL DEF Spec

-----------------------------------------------------------------------------
(***************************************************************************)
(* The end.  Every step of Select counts down what its loops have left     *)
(* (Left), the outermost loop first, and there is no way to count down for *)
(* ever; the loops rest on the guards that are the negations of each other, *)
(* the pass over the estimates on there being a first one of those left.   *)
(***************************************************************************)
\* With CursorOK: the loops never run past the end of what they go through.
WithinOK ==
  /\ pc = "range" => ri <= Len(args.ranges) + 1
  /\ pc = "begin" => begin <= Count(ri)

\* What each loop has left, the outermost first; a loop that is about to open the next
\* one inside it counts for one more.
Left ==
  LET ranges == 2 * ((Len(args.ranges) + 1) - ri)
      begins == 2 * (Count(ri) - begin)
      ends   == 2 * ((Count(ri) + 1) - end)
  IN CASE pc = "entry"  -> <<3, 0, 0, 0, 0>>
       [] pc = "range"  -> <<2, ranges + 1, 0, 0, 0>>
       [] pc = "begin"  -> <<2, ranges, begins + 1, 0, 0>>
       [] pc = "extend" -> <<2, ranges, begins, ends + 1, 0>>
       [] pc = "trim"   -> <<2, ranges, begins, ends, trim.end>>
       [] pc = "pick"   -> <<1, Cardinality(rest), 0, 0, 0>>
       [] pc = "done"   -> <<0, 0, 0, 0, 0>>

\* Five numbers, one for a loop.
Counts == Nat \X Nat \X Nat \X Nat \X Nat

\* Less is left: of the outermost loop where anything changes.
Below(s, t) == \E k \in 1..5 : s[k] < t[k] /\ \A j \in 1 .. k - 1 : s[j] = t[j]

\* What the counting rests on.
CountInv == AgreeInv /\ WithinOK

\* Where the first difference of two such counts can be.
LEMMA BelowIs ==
  ASSUME NEW s, NEW t
  PROVE  /\ s[1] < t[1] => Below(s, t)
         /\ s[1] = t[1] /\ s[2] < t[2] => Below(s, t)
         /\ s[1] = t[1] /\ s[2] = t[2] /\ s[3] < t[3] => Below(s, t)
         /\ s[1] = t[1] /\ s[2] = t[2] /\ s[3] = t[3] /\ s[4] < t[4] => Below(s, t)
         /\ s[1] = t[1] /\ s[2] = t[2] /\ s[3] = t[3] /\ s[4] = t[4] /\ s[5] < t[5] => Below(s, t)
<1>1. s[1] < t[1] => Below(s, t)
  <2>1. 1 \in 1..5 /\ \A j \in 1..1-1 : FALSE
    OBVIOUS
  <2>2. QED
    BY <2>1 DEF Below
<1>2. s[1] = t[1] /\ s[2] < t[2] => Below(s, t)
  <2>1. 2 \in 1..5 /\ \A j \in 1..2-1 : j = 1
    OBVIOUS
  <2>2. QED
    BY <2>1 DEF Below
<1>3. s[1] = t[1] /\ s[2] = t[2] /\ s[3] < t[3] => Below(s, t)
  <2>1. 3 \in 1..5 /\ \A j \in 1..3-1 : j = 1 \/ j = 2
    OBVIOUS
  <2>2. QED
    BY <2>1 DEF Below
<1>4. s[1] = t[1] /\ s[2] = t[2] /\ s[3] = t[3] /\ s[4] < t[4] => Below(s, t)
  <2>1. 4 \in 1..5 /\ \A j \in 1..4-1 : j = 1 \/ j = 2 \/ j = 3
    OBVIOUS
  <2>2. QED
    BY <2>1 DEF Below
<1>5. s[1] = t[1] /\ s[2] = t[2] /\ s[3] = t[3] /\ s[4] = t[4] /\ s[5] < t[5] => Below(s, t)
  <2>1. 5 \in 1..5 /\ \A j \in 1..5-1 : j = 1 \/ j = 2 \/ j = 3 \/ j = 4
    OBVIOUS
  <2>2. QED
    BY <2>1 DEF Below
<1>6. QED
  BY <1>1, <1>2, <1>3, <1>4, <1>5

\* The bounds of the loops hold at the beginning, wherever a range begins to be scanned,
\* and after every step.
LEMMA InitWithin == Init => WithinOK
  BY DEF Init, Idle, WithinOK

\* The scan of a range begins within it.
LEMMA FirstBeginWithin ==
  ASSUME AgreeInv, NEW r \in DOMAIN args.ranges PROVE FirstBegin(r) \in 0 .. Count(r)
<1>1. S.window \in Nat /\ Count(r) \in Nat
  BY ArgumentTypes DEF AgreeInv, Inv, TypeOK, Settings
<1>2. QED
  BY <1>1 DEF FirstBegin

\* The loops never run past the end.
LEMMA StepWithin == AgreeInv /\ WithinOK /\ [Next]_vars => WithinOK'
<1> SUFFICES ASSUME AgreeInv, WithinOK, [Next]_vars PROVE WithinOK'
  OBVIOUS
<1>0. /\ Len(args.ranges) \in Nat /\ \A r \in DOMAIN args.ranges : Count(r) \in Nat
      /\ ri \in Nat \ {0} /\ begin \in Nat
      /\ pc \in {"begin", "extend", "trim"} => ri \in 1 .. Len(args.ranges)
      /\ pc \in {"extend", "trim"} => begin < Count(ri)
      /\ DOMAIN args.ranges = 1 .. Len(args.ranges)
      /\ pc = "entry" => ri = 1
  BY ArgumentTypes DEF AgreeInv, Inv, TypeOK, LoopOK, ScanOK, CursorOK
<1>1. CASE Enter
  BY <1>0, <1>1 DEF Enter, scan, WithinOK
<1>2. CASE SkipRange
  BY <1>0, <1>2 DEF SkipRange, WithinOK
<1>3. CASE OpenRange
  BY <1>0, <1>3, FirstBeginWithin DEF OpenRange, WithinOK, Count
<1>4. CASE CloseRange
  BY <1>0, <1>4 DEF CloseRange, WithinOK
<1>5. CASE CloseBegin
  BY <1>0, <1>5 DEF CloseBegin, WithinOK, Count
<1>6. CASE OpenBegin \/ Refuse \/ Accept \/ TrimRight \/ Consider \/ SortScored \/ Return
  BY <1>6 DEF OpenBegin, Refuse, Accept, TrimRight, Consider, SortScored, Return, WithinOK
<1>7. ASSUME NEW i \in rest, Take(i) \/ Pass(i) PROVE WithinOK'
  BY <1>7 DEF Take, Pass, WithinOK
<1>8. CASE UNCHANGED vars
  BY <1>8 DEF vars, scan, picks, WithinOK, Count
<1>9. QED
  BY <1>1, <1>2, <1>3, <1>4, <1>5, <1>6, <1>7, <1>8 DEF Next

\* All this holds of every behaviour.
LEMMA CountInvariant == Spec => []CountInv
<1>1. Init => CountInv
  BY InitInv, InitPick, InitScan, InitWithin DEF CountInv, AgreeInv, TakenFits, Init, Idle
<1>2. CountInv /\ [Next]_vars => CountInv'
  <2>1. AgreeInv /\ [Next]_vars => AgreeInv'
    BY StepInv, StepPick, StepScan, StepFits DEF AgreeInv
  <2>2. QED
    BY <2>1, StepWithin DEF CountInv
<1>3. QED
  BY <1>1, <1>2, PTL DEF Spec

\* What is left can be counted.
LEMMA LeftType == CountInv => Left \in Counts
<1> SUFFICES ASSUME CountInv PROVE Left \in Counts
  OBVIOUS
<1> DEFINE ranges == 2 * ((Len(args.ranges) + 1) - ri)
           begins == 2 * (Count(ri) - begin)
           ends   == 2 * ((Count(ri) + 1) - end)
<1>1. /\ Len(args.ranges) \in Nat /\ ri \in Nat \ {0} /\ begin \in Nat /\ end \in Nat
      /\ trim.end \in Int
      /\ \A r \in DOMAIN args.ranges : Count(r) \in Nat
      /\ DOMAIN args.ranges = 1 .. Len(args.ranges)
  BY ArgumentTypes DEF CountInv, AgreeInv, Inv, TypeOK, Trim
<1>2. /\ pc = "range" => ri <= Len(args.ranges) + 1
      /\ pc = "begin" => begin <= Count(ri)
      /\ pc \in {"begin", "extend", "trim"} => ri \in DOMAIN args.ranges
      /\ pc \in {"extend", "trim"} => begin < Count(ri)
      /\ pc = "extend" => end <= Count(ri) + 1
      /\ pc = "trim" => end <= Count(ri) /\ begin + 2 <= trim.end
  BY DEF CountInv, WithinOK, AgreeInv, Inv, LoopOK, ScanOK, CursorOK
<1>3. Cardinality(rest) \in Nat
  <2>1. IsFiniteSet(1 .. Len(scored)) /\ rest \subseteq 1 .. Len(scored)
    BY FS_Interval DEF CountInv, AgreeInv, Inv, TypeOK
  <2>2. QED
    BY <2>1, FS_Subset, FS_CardinalityType
<1>4. pc \in {"range", "begin", "extend", "trim"} => ranges \in Nat
  BY <1>1, <1>2
<1>5. pc \in {"begin", "extend", "trim"} => begins \in Nat
  BY <1>1, <1>2
<1>6. pc \in {"extend", "trim"} => ends \in Nat
  BY <1>1, <1>2
<1>7. pc = "trim" => trim.end \in Nat
  BY <1>1, <1>2
<1>8. pc \in {"entry", "range", "begin", "extend", "trim", "pick", "done"}
  BY DEF CountInv, AgreeInv, Inv, TypeOK
<1> HIDE DEF ranges, begins, ends
<1>9. CASE pc = "entry" \/ pc = "done"
  BY <1>9 DEF Left, Counts
<1>10. CASE pc = "range"
  BY <1>4, <1>10 DEF Left, Counts, ranges
<1>11. CASE pc = "begin"
  <2>1. Left = <<2, ranges, begins + 1, 0, 0>>
    BY <1>11 DEF Left, ranges, begins
  <2>2. QED
    BY <1>4, <1>5, <1>11, <2>1 DEF Counts
<1>12. CASE pc = "extend"
  <2>1. Left = <<2, ranges, begins, ends + 1, 0>>
    BY <1>12 DEF Left, ranges, begins, ends
  <2>2. QED
    BY <1>4, <1>5, <1>6, <1>12, <2>1 DEF Counts
<1>13. CASE pc = "trim"
  <2>1. Left = <<2, ranges, begins, ends, trim.end>>
    BY <1>13 DEF Left, ranges, begins, ends
  <2>2. QED
    BY <1>4, <1>5, <1>6, <1>7, <1>13, <2>1 DEF Counts
<1>14. CASE pc = "pick"
  BY <1>3, <1>14 DEF Left, Counts
<1>15. QED
  BY <1>8, <1>9, <1>10, <1>11, <1>12, <1>13, <1>14

\* A step leaves less: each by the loop it is in or closes.
LEMMA StepCounts == CountInv /\ CountInv' /\ [Next]_vars => [Below(Left', Left)]_vars
<1> SUFFICES ASSUME CountInv, CountInv', Next PROVE Below(Left', Left)
  OBVIOUS
<1>1. /\ Len(args.ranges) \in Nat /\ ri \in Nat \ {0} /\ begin \in Nat /\ end \in Nat
      /\ trim.end \in Int /\ trim'.end \in Int
      /\ \A r \in DOMAIN args.ranges : Count(r) \in Nat
      /\ DOMAIN args.ranges = 1 .. Len(args.ranges)
      /\ pc \in {"begin", "extend", "trim"} => ri \in DOMAIN args.ranges
  BY ArgumentTypes DEF CountInv, AgreeInv, Inv, TypeOK, Trim, LoopOK
<1>2. CASE Enter
  <2>1. Left[1] = 3
    BY <1>2 DEF Enter, Left
  <2>2. CASE pc' = "done"
    <3>1. Left'[1] = 0
      BY <2>2 DEF Left
    <3>2. QED
      BY <2>1, <3>1, BelowIs
  <2>3. CASE pc' = "range"
    <3>1. Left'[1] = 2
      BY <2>3 DEF Left
    <3>2. QED
      BY <2>1, <3>1, BelowIs
  <2>4. QED
    BY <1>2, <2>2, <2>3 DEF Enter
<1>3. CASE SkipRange
  <2>1. /\ Left[1] = 2 /\ Left[2] = 2 * ((Len(args.ranges) + 1) - ri) + 1
        /\ Left'[1] = 2 /\ Left'[2] = 2 * ((Len(args.ranges) + 1) - (ri + 1)) + 1
    BY <1>3 DEF SkipRange, Left
  <2>2. QED
    BY <1>1, <2>1, BelowIs
<1>4. CASE OpenRange
  <2>1. /\ Left[1] = 2 /\ Left[2] = 2 * ((Len(args.ranges) + 1) - ri) + 1
        /\ Left'[1] = 2 /\ Left'[2] = 2 * ((Len(args.ranges) + 1) - ri)
    BY <1>4 DEF OpenRange, Left
  <2>2. QED
    BY <1>1, <2>1, BelowIs
<1>5. CASE CloseRange
  <2>1. /\ Left[1] = 2 /\ Left[2] = 2 * ((Len(args.ranges) + 1) - ri)
        /\ Left'[1] = 2 /\ Left'[2] = 2 * ((Len(args.ranges) + 1) - (ri + 1)) + 1
    BY <1>5 DEF CloseRange, Left
  <2>2. QED
    BY <1>1, <2>1, BelowIs
<1>6. CASE OpenBegin
  <2>1. /\ Left[1] = 2 /\ Left[2] = 2 * ((Len(args.ranges) + 1) - ri)
        /\ Left[3] = 2 * (Count(ri) - begin) + 1
        /\ Left'[1] = 2 /\ Left'[2] = 2 * ((Len(args.ranges) + 1) - ri)
        /\ Left'[3] = 2 * (Count(ri) - begin)
    BY <1>6 DEF OpenBegin, Left, Count
  <2>2. Count(ri) \in Nat
    BY <1>1, <1>6 DEF OpenBegin
  <2>3. QED
    BY <1>1, <2>1, <2>2, BelowIs
<1>7. CASE CloseBegin
  <2>1. /\ Left[1] = 2 /\ Left[2] = 2 * ((Len(args.ranges) + 1) - ri)
        /\ Left[3] = 2 * (Count(ri) - begin)
        /\ Left'[1] = 2 /\ Left'[2] = 2 * ((Len(args.ranges) + 1) - ri)
        /\ Left'[3] = 2 * (Count(ri) - (begin + 1)) + 1
    BY <1>7 DEF CloseBegin, Left, Count
  <2>2. Count(ri) \in Nat
    BY <1>1, <1>7 DEF CloseBegin
  <2>3. QED
    BY <1>1, <2>1, <2>2, BelowIs
<1>8. CASE Refuse \/ Accept \/ Consider
  <2>1. /\ Left[1] = 2 /\ Left[2] = 2 * ((Len(args.ranges) + 1) - ri)
        /\ Left[3] = 2 * (Count(ri) - begin)
        /\ Left'[1] = 2 /\ Left'[2] = 2 * ((Len(args.ranges) + 1) - ri)
        /\ Left'[3] = 2 * (Count(ri) - begin)
    BY <1>8 DEF Refuse, Accept, Consider, Left, Count
  <2>2. Count(ri) \in Nat
    BY <1>1, <1>8 DEF Refuse, Accept, Consider
  <2>3. CASE Refuse
    <3>1. /\ Left[4] = 2 * ((Count(ri) + 1) - end) + 1
          /\ Left'[4] = 2 * ((Count(ri) + 1) - (end + 1)) + 1
      BY <2>3 DEF Refuse, Left, Count
    <3>2. QED
      BY <1>1, <2>1, <2>2, <3>1, BelowIs
  <2>4. CASE Accept
    <3>1. Left[4] = 2 * ((Count(ri) + 1) - end) + 1 /\ Left'[4] = 2 * ((Count(ri) + 1) - end)
      BY <2>4 DEF Accept, Left, Count
    <3>2. QED
      BY <1>1, <2>1, <2>2, <3>1, BelowIs
  <2>5. CASE Consider
    <3>1. Left[4] = 2 * ((Count(ri) + 1) - end) /\ Left'[4] = 2 * ((Count(ri) + 1) - (end + 1)) + 1
      BY <2>5 DEF Consider, Left, Count
    <3>2. QED
      BY <1>1, <2>1, <2>2, <3>1, BelowIs
  <2>6. QED
    BY <1>8, <2>3, <2>4, <2>5
<1>9. CASE TrimRight
  <2>1. /\ Left[1] = 2 /\ Left'[1] = 2 /\ Left'[2] = Left[2] /\ Left'[3] = Left[3]
        /\ Left'[4] = Left[4] /\ Left[5] = trim.end /\ Left'[5] = trim'.end
    BY <1>9 DEF TrimRight, Left, Count
  <2>2. trim'.end = trim.end - 1
    BY <1>9 DEF TrimRight, DropRight
  <2>3. QED
    BY <1>1, <2>1, <2>2, BelowIs
<1>10. CASE SortScored
  <2>1. Left[1] = 2 /\ Left'[1] = 1
    BY <1>10 DEF SortScored, Left
  <2>2. QED
    BY <2>1, BelowIs
<1>11. ASSUME NEW i \in rest, Take(i) \/ Pass(i) PROVE Below(Left', Left)
  <2>1. /\ Left[1] = 1 /\ Left[2] = Cardinality(rest)
        /\ Left'[1] = 1 /\ Left'[2] = Cardinality(rest \ {i})
    BY <1>11 DEF Take, Pass, Left
  <2>2. IsFiniteSet(rest)
    <3>1. IsFiniteSet(1 .. Len(scored)) /\ rest \subseteq 1 .. Len(scored)
      BY FS_Interval DEF CountInv, AgreeInv, Inv, TypeOK
    <3>2. QED
      BY <3>1, FS_Subset
  <2>3. Cardinality(rest \ {i}) = Cardinality(rest) - 1 /\ Cardinality(rest) \in Nat
    BY <1>11, <2>2, FS_RemoveElement, FS_CardinalityType
  <2>4. QED
    BY <2>1, <2>3, BelowIs
<1>12. CASE Return
  <2>1. Left[1] = 1 /\ Left'[1] = 0
    BY <1>12 DEF Return, Left
  <2>2. QED
    BY <2>1, BelowIs
<1>13. QED
  BY <1>2, <1>3, <1>4, <1>5, <1>6, <1>7, <1>8, <1>9, <1>10, <1>11, <1>12 DEF Next

\* One cannot count down for ever: from some moment on the outermost number stays as it is,
\* then the next, and so all five.
LEMMA NoneBelowForEver == ~ \E f \in [Nat -> Counts] : \A n \in Nat : Below(f[n + 1], f[n])
<1> SUFFICES ASSUME NEW f \in [Nat -> Counts], \A n \in Nat : Below(f[n + 1], f[n])
             PROVE  FALSE
  OBVIOUS
<1>0. \A n \in Nat, k \in 1..5 : f[n][k] \in Nat
  <2> SUFFICES ASSUME NEW n \in Nat, NEW k \in 1..5 PROVE f[n][k] \in Nat
    OBVIOUS
  <2>1. f[n] \in Counts
    OBVIOUS
  <2>2. k = 1 \/ k = 2 \/ k = 3 \/ k = 4 \/ k = 5
    OBVIOUS
  <2>3. QED
    BY <2>1, <2>2 DEF Counts
<1> DEFINE Settled(m, k) ==
             m \in Nat /\ \A n \in Nat : n >= m => \A j \in 1 .. k - 1 : f[n][j] = f[m][j]
<1>1. ASSUME NEW k \in 1..5, NEW l, Settled(l, k) PROVE \E m : Settled(m, k + 1)
  <2> DEFINE Values == {f[n][k] : n \in {i \in Nat : i >= l}}
  <2>1. Values \in SUBSET Nat /\ f[l][k] \in Values
    BY <1>0, <1>1
  <2>2. PICK v \in Values : \A w \in Values : v <= w
    BY <2>1, LeastNumber
  <2>3. PICK m \in Nat : m >= l /\ f[m][k] = v
    OBVIOUS
  <2>4. \A n \in Nat : n >= m => n >= l /\ f[n][k] >= f[m][k]
    <3> SUFFICES ASSUME NEW n \in Nat, n >= m PROVE n >= l /\ f[n][k] >= f[m][k]
      OBVIOUS
    <3>1. n >= l
      BY <1>1, <2>3
    <3>2. f[n][k] \in Values
      BY <3>1
    <3>3. v <= f[n][k]
      BY <2>2, <3>2
    <3>4. QED
      BY <1>0, <2>3, <3>1, <3>3
  <2>5. ASSUME NEW n \in Nat, n >= m PROVE f[n + 1][k] <= f[n][k]
    <3>1. n >= l /\ n + 1 >= l /\ n + 1 \in Nat
      BY <1>1, <2>3, <2>5
    <3>2. \A j \in 1 .. k - 1 : f[n + 1][j] = f[n][j]
      BY <1>1, <3>1
    <3>3. PICK i \in 1..5 : f[n + 1][i] < f[n][i] /\ \A j \in 1 .. i - 1 : f[n + 1][j] = f[n][j]
      BY DEF Below
    <3>4. f[n + 1][i] \in Nat /\ f[n][i] \in Nat /\ f[n + 1][k] \in Nat /\ f[n][k] \in Nat
      BY <1>0, <3>1
    <3>5. i >= k
      BY <3>2, <3>3, <3>4
    <3>6. CASE i = k
      BY <3>3, <3>4, <3>6
    <3>7. CASE i > k
      <4>1. k \in 1 .. i - 1
        BY <3>7
      <4>2. QED
        BY <3>3, <3>4, <4>1
    <3>8. QED
      BY <3>5, <3>6, <3>7
  <2> DEFINE Higher == {n \in Nat : n >= m /\ f[n][k] > f[m][k]}
  <2>6. Higher = {}
    <3> SUFFICES ASSUME Higher # {} PROVE FALSE
      OBVIOUS
    <3>1. PICK h \in Higher : \A n \in Higher : h <= n
      BY LeastNumber
    <3>2. h \in Nat /\ h >= m /\ f[h][k] > f[m][k] /\ f[m][k] \in Nat /\ f[h][k] \in Nat
      BY <1>0
    <3>3. h # m
      BY <3>2
    <3>4. h - 1 \in Nat /\ h - 1 >= m /\ (h - 1) + 1 = h
      BY <3>2, <3>3
    <3>5. h - 1 \notin Higher
      BY <3>1, <3>2
    <3>6. f[h - 1][k] \in Nat /\ ~(f[h - 1][k] > f[m][k])
      BY <1>0, <3>4, <3>5
    <3>7. f[(h - 1) + 1][k] <= f[h - 1][k]
      BY <2>5, <3>4
    <3>8. QED
      BY <3>2, <3>4, <3>6, <3>7
  <2>7. \A n \in Nat : n >= m => f[n][k] = f[m][k]
    <3> SUFFICES ASSUME NEW n \in Nat, n >= m PROVE f[n][k] = f[m][k]
      OBVIOUS
    <3>1. n \notin Higher
      BY <2>6
    <3>2. f[n][k] \in Nat /\ f[m][k] \in Nat
      BY <1>0
    <3>3. QED
      BY <2>4, <3>1, <3>2
  <2>8. \A n \in Nat : n >= m => \A j \in 1 .. k - 1 : f[n][j] = f[m][j]
    BY <1>1, <2>3, <2>4
  <2>9. \A j \in 1 .. (k + 1) - 1 : j \in 1 .. k - 1 \/ j = k
    OBVIOUS
  <2>10. Settled(m, k + 1)
    BY <2>7, <2>8, <2>9
  <2>11. QED
    BY <2>10
<1>2. Settled(0, 1)
  OBVIOUS
<1> HIDE DEF Settled
<1>3. \E m : Settled(m, 2)
  BY <1>1, <1>2
<1>4. \E m : Settled(m, 3)
  BY <1>1, <1>3
<1>5. \E m : Settled(m, 4)
  BY <1>1, <1>4
<1>6. \E m : Settled(m, 5)
  BY <1>1, <1>5
<1>7. PICK m : Settled(m, 6)
  BY <1>1, <1>6
<1>8. m \in Nat /\ m + 1 \in Nat /\ \A j \in 1..5 : f[m + 1][j] = f[m][j]
  <2>1. m \in Nat /\ m + 1 >= m
    BY <1>7 DEF Settled
  <2>2. QED
    BY <1>7, <2>1 DEF Settled
<1>9. PICK k \in 1..5 : f[m + 1][k] < f[m][k]
  BY <1>8 DEF Below
<1>10. QED
  BY <1>0, <1>8, <1>9

\* While candidates may be added and estimates are left, one of them is next.
PassGoesOn ==
  pc = "pick" /\ Len(out) < Len(args.limits) /\ rest # {} => \E i \in rest : IsNext(i)

\* Of two estimates one comes before the other.
LEMMA BeforeIsOrder ==
  ASSUME Inv
  PROVE  /\ \A i, j \in DOMAIN scored : i # j => Before(i, j) \/ Before(j, i)
         /\ \A i, j, k \in DOMAIN scored : Before(i, j) /\ Before(j, k) => Before(i, k)
<1>1. \A i \in DOMAIN scored : /\ scored[i].score \in Int /\ scored[i].range \in Int
                               /\ scored[i].begin \in Int /\ i \in Int
  <2> SUFFICES ASSUME NEW i \in DOMAIN scored
               PROVE  /\ scored[i].score \in Int /\ scored[i].range \in Int
                      /\ scored[i].begin \in Int /\ i \in Int
    OBVIOUS
  <2>1. EstimateOK(scored[i]) /\ i \in 1 .. Len(scored) /\ args \in Inputs
    BY DEF Inv, TypeOK
  <2>2. DOMAIN args.ranges = 1 .. Len(args.ranges) /\ Len(args.ranges) \in Nat
    BY <2>1, ArgumentTypes
  <2>3. QED
    BY <2>1, <2>2 DEF EstimateOK
<1>2. ASSUME NEW i \in DOMAIN scored, NEW j \in DOMAIN scored, i # j
      PROVE  Before(i, j) \/ Before(j, i)
  BY <1>1, <1>2 DEF Before
<1>3. ASSUME NEW i \in DOMAIN scored, NEW j \in DOMAIN scored, NEW k \in DOMAIN scored,
             Before(i, j), Before(j, k)
      PROVE  Before(i, k)
  BY <1>1, <1>3 DEF Before
<1>4. QED
  BY <1>2, <1>3

\* Some of them have a first one, however many: otherwise take fewest that have none.
LEMMA FirstExists ==
  ASSUME Inv, NEW R \in SUBSET DOMAIN scored, R # {}
  PROVE  \E i \in R : \A j \in R \ {i} : Before(i, j)
<1> DEFINE HasFirst(Q) == \E i \in Q : \A j \in Q \ {i} : Before(i, j)
           Lacks == {n \in Nat : \E Q \in SUBSET DOMAIN scored :
                                   Q # {} /\ Q \subseteq 1 .. n /\ ~HasFirst(Q)}
<1>1. SUFFICES ASSUME ~HasFirst(R) PROVE FALSE
  OBVIOUS
<1>2. Len(scored) \in Lacks
  BY <1>1 DEF Inv, TypeOK
<1>3. PICK n \in Lacks : \A m \in Lacks : n <= m
  BY <1>2, LeastNumber
<1>4. PICK Q \in SUBSET DOMAIN scored : Q # {} /\ Q \subseteq 1 .. n /\ ~HasFirst(Q)
  BY <1>3
<1>5. n \in Nat /\ n # 0
  BY <1>3, <1>4
<1>6. n - 1 \notin Lacks /\ n - 1 \in Nat
  BY <1>3, <1>5
<1>7. n \in Q
  <2>1. n \notin Q => Q \subseteq 1 .. n - 1
    BY <1>4, <1>5
  <2>2. QED
    BY <1>4, <1>6, <2>1
<1> DEFINE P == Q \ {n}
<1>8. P # {}
  BY <1>4, <1>7
<1>9. P \subseteq 1 .. n - 1 /\ P \in SUBSET DOMAIN scored
  BY <1>4, <1>5
<1>10. HasFirst(P)
  BY <1>6, <1>8, <1>9
<1>11. PICK i \in P : \A j \in P \ {i} : Before(i, j)
  BY <1>10
<1>12. i \in DOMAIN scored /\ n \in DOMAIN scored /\ i # n /\ i \in Q
  BY <1>4, <1>7
<1>13. CASE Before(i, n)
  BY <1>4, <1>11, <1>12, <1>13
<1>14. CASE Before(n, i)
  <2>1. \A j \in P \ {i} : Before(n, j)
    BY <1>9, <1>11, <1>12, <1>14, BeforeIsOrder
  <2>2. \A j \in Q \ {n} : Before(n, j)
    BY <1>14, <2>1
  <2>3. QED
    BY <1>4, <1>7, <2>2
<1>15. QED
  BY <1>12, <1>13, <1>14, BeforeIsOrder

\* The pass over the sorted estimates (simple.go, pickSelected) has a next one until it ends.
THEOREM NeverStuck == Spec => []PassGoesOn
<1>1. Inv => PassGoesOn
  <2> SUFFICES ASSUME Inv, rest # {} PROVE \E i \in rest : IsNext(i)
    BY DEF PassGoesOn
  <2>1. rest \in SUBSET DOMAIN scored
    BY DEF Inv, TypeOK
  <2>2. QED
    BY <2>1, FirstExists DEF IsNext
<1>2. QED
  BY <1>1, InitInv, StepInv, PTL DEF Spec

\* What the steps of the loops may do to what is left.
Lower == {d \in Counts \X Counts : Below(d[1], d[2])}

\* A step of Select on any input takes what its loops have left down in an order in which
\* nothing goes down for ever; so no call takes infinitely many steps.
THEOREM CountsDown ==
  /\ Spec => [][(<<Left', Left>> \in Lower)]_vars
  /\ IsWellFoundedOn(Lower, Counts)
<1>0. CountInv' => (Left \in Counts)'
  BY LeftType, PTL
<1>1. CountInv /\ CountInv' /\ [Next]_vars => [(<<Left', Left>> \in Lower)]_vars
  <2> SUFFICES ASSUME CountInv, CountInv', Next, ~UNCHANGED vars PROVE <<Left', Left>> \in Lower
    OBVIOUS
  <2>1. Left \in Counts /\ Left' \in Counts
    BY <1>0, LeftType
  <2>2. Below(Left', Left)
    BY StepCounts
  <2>3. QED
    BY <2>1, <2>2 DEF Lower
<1>2. Spec => [][(<<Left', Left>> \in Lower)]_vars
  BY <1>1, CountInvariant, PTL DEF Spec
<1>3. IsWellFoundedOn(Lower, Counts)
  <2> SUFFICES ASSUME NEW f \in [Nat -> Counts], \A n \in Nat : <<f[n + 1], f[n]>> \in Lower
               PROVE  FALSE
    BY DEF IsWellFoundedOn
  <2>1. \A n \in Nat : Below(f[n + 1], f[n])
    BY DEF Lower
  <2>2. QED
    BY <2>1, NoneBelowForEver
<1>4. QED
  BY <1>2, <1>3
=============================================================================
