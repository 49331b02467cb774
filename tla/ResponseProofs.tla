----------------------------- MODULE ResponseProofs -----------------------------
(***************************************************************************)
(* Proofs about what becomes of a response: CandidateRanges, for any       *)
(* response, and PageDrawing, for any page, weights and width of the       *)
(* chart.                                                                  *)
(***************************************************************************)
EXTENDS MCResponse, FiniteSetTheorems, WellFoundedInduction, NaturalsInduction, TLAPS

-----------------------------------------------------------------------------
(***************************************************************************)
(* CandidateRanges.                                                        *)
(***************************************************************************)
Positions == 1 .. Len(resp.parts)

\* A sequence of adjacent idle positions of one partition; one alone is no run yet.
Adjacent(s) ==
  /\ s \in Seq(Positions)
  /\ \A k \in 1 .. Len(s) : /\ s[k] = s[1] + k - 1
                            /\ resp.parts[s[k]].name \notin Busy(resp)
                            /\ resp.parts[s[k]].pid = resp.parts[s[1]].pid

\* The range being built ends at the part before the loop's.
CurOK == Adjacent(cur) /\ (Len(cur) > 0 => cur[1] + Len(cur) = pos)

\* The finished ranges are to the left of the one being built, in order.
RangesOK ==
  /\ ranges \in Seq(Seq(Positions))
  /\ \A r \in 1 .. Len(ranges) :
       /\ Len(ranges[r]) > 1 /\ Adjacent(ranges[r])
       /\ ranges[r][1] + Len(ranges[r]) <= (IF Len(cur) > 0 THEN cur[1] ELSE pos)
  /\ \A r, s \in 1 .. Len(ranges) :
       r < s => ranges[r][1] + Len(ranges[r]) <= ranges[s][1]

StatsOK == stats \in [Partitions -> [count : Nat, minAge : 0 .. MaxAge]]

Inv ==
  /\ resp \in Responses
  /\ pc \in {"split", "select", "done"}
  /\ pos \in 1 .. Len(resp.parts) + 1
  /\ CurOK /\ RangesOK /\ StatsOK
  /\ pc # "done" => answer = <<>>
  /\ pc = "done" => Selector!Answers(Call, answer)
  /\ answer \in Seq(SubRanges)

\* The parts of a response are a sequence of parts.
LEMMA ResponseTypes ==
  ASSUME Inv
  PROVE  /\ Len(resp.parts) \in Nat /\ DOMAIN resp.parts = Positions
         /\ resp.limit \in Nat /\ resp.now \in Int
         /\ \A k \in Positions : resp.parts[k].pid \in Partitions /\ resp.parts[k].mtime \in Int
  BY ResponseAssumption DEF Inv, Positions

\* Nothing is built before the loop starts.
LEMMA InitInv == Init => Inv
<1> SUFFICES ASSUME Init PROVE Inv
  OBVIOUS
<1>1. Len(resp.parts) \in Nat
  BY ResponseAssumption DEF Init
<1>2. CurOK /\ RangesOK
  BY <1>1 DEF Init, CurOK, RangesOK, Adjacent, Positions
<1>3. StatsOK
  BY ResponseAssumption DEF Init, StatsOK
<1>4. QED
  BY <1>1, <1>2, <1>3 DEF Init, Inv

\* What a flush leaves: the range built so far is the last one, if it is a range.
LEMMA FlushRanges ==
  ASSUME Inv
  PROVE  /\ Flushed \in Seq(Seq(Positions))
         /\ \A r \in 1 .. Len(Flushed) :
              /\ Len(Flushed[r]) > 1 /\ Adjacent(Flushed[r])
              /\ Flushed[r][1] + Len(Flushed[r]) <= pos
         /\ \A r, s \in 1 .. Len(Flushed) :
              r < s => Flushed[r][1] + Len(Flushed[r]) <= Flushed[s][1]
<1>1. CASE Len(cur) > 1
  <2>1. Flushed = Append(ranges, cur)
    BY <1>1 DEF Flushed
  <2>2. cur \in Seq(Positions) /\ ranges \in Seq(Seq(Positions))
    BY DEF Inv, CurOK, Adjacent, RangesOK
  <2>3. /\ Flushed \in Seq(Seq(Positions)) /\ Len(Flushed) = Len(ranges) + 1
        /\ Len(ranges) \in Nat /\ Flushed[Len(ranges) + 1] = cur
        /\ \A r \in 1 .. Len(ranges) : Flushed[r] = ranges[r]
    BY <2>1, <2>2
  <2>4. \A r \in 1 .. Len(ranges) : /\ ranges[r] \in Seq(Positions)
                                    /\ Len(ranges[r]) \in Nat
                                    /\ (Len(ranges[r]) > 1 => ranges[r][1] \in Nat)
    BY <2>2 DEF Positions
  <2>5. Len(cur) \in Nat /\ cur[1] \in Nat /\ pos \in Nat /\ cur[1] + Len(cur) = pos
    BY <1>1, <2>2 DEF Inv, CurOK, Positions
  <2>6. \A r \in 1 .. Len(ranges) : ranges[r][1] + Len(ranges[r]) <= cur[1]
    BY <2>5, <1>1 DEF Inv, RangesOK
  <2>7. ASSUME NEW r \in 1 .. Len(Flushed)
        PROVE  /\ Len(Flushed[r]) > 1 /\ Adjacent(Flushed[r])
               /\ Flushed[r][1] + Len(Flushed[r]) <= pos
    <3>1. CASE r = Len(ranges) + 1
      BY <1>1, <2>3, <2>5, <3>1 DEF Inv, CurOK
    <3>2. CASE r \in 1 .. Len(ranges)
      <4>1. Flushed[r] = ranges[r]
        BY <2>3, <3>2
      <4>2. Len(ranges[r]) > 1 /\ Adjacent(ranges[r])
        BY <3>2 DEF Inv, RangesOK
      <4>3. ranges[r][1] + Len(ranges[r]) <= pos
        BY <2>4, <2>5, <2>6, <3>2, <4>2
      <4>4. QED
        BY <4>1, <4>2, <4>3
    <3>3. QED
      BY <2>3, <3>1, <3>2
  <2>8. ASSUME NEW r \in 1 .. Len(Flushed), NEW s \in 1 .. Len(Flushed), r < s
        PROVE  Flushed[r][1] + Len(Flushed[r]) <= Flushed[s][1]
    <3>1. r \in 1 .. Len(ranges) /\ Flushed[r] = ranges[r]
      BY <2>3, <2>8
    <3>2. CASE s = Len(ranges) + 1
      BY <2>3, <2>6, <3>1, <3>2
    <3>3. CASE s \in 1 .. Len(ranges)
      BY <2>3, <2>8, <3>1, <3>3 DEF Inv, RangesOK
    <3>4. QED
      BY <2>3, <3>2, <3>3
  <2>9. QED
    BY <2>3, <2>7, <2>8
<1>2. CASE ~(Len(cur) > 1)
  <2>1. Flushed = ranges
    BY <1>2 DEF Flushed
  <2>2. \A r \in 1 .. Len(ranges) : ranges[r][1] + Len(ranges[r]) <= pos
    <3>1. cur \in Seq(Positions) /\ Len(cur) \in Nat /\ pos \in Nat
      BY DEF Inv, CurOK, Adjacent
    <3>2. CASE Len(cur) = 0
      BY <3>1, <3>2 DEF Inv, RangesOK
    <3>3. CASE Len(cur) > 0
      <4>1. cur[1] \in Nat /\ cur[1] <= pos
        BY <3>1, <3>3 DEF Inv, CurOK, Positions
      <4>2. ASSUME NEW r \in 1 .. Len(ranges) PROVE ranges[r][1] + Len(ranges[r]) <= pos
        <5>1. /\ ranges[r] \in Seq(Positions) /\ Len(ranges[r]) > 1
              /\ ranges[r][1] + Len(ranges[r]) <= cur[1]
          BY <3>3 DEF Inv, RangesOK
        <5>2. ranges[r][1] \in Nat /\ Len(ranges[r]) \in Nat
          BY <5>1 DEF Positions
        <5>3. QED
          BY <3>1, <4>1, <5>1, <5>2
      <4>3. QED
        BY <4>2
    <3>4. QED
      BY <3>1, <3>2, <3>3
  <2>3. QED
    BY <2>1, <2>2 DEF Inv, RangesOK
<1>3. QED
  BY <1>1, <1>2

\* The range being built takes the part the loop is at, starts with it, or is given up.
LEMMA NextCur == ASSUME Inv, NextPart PROVE CurOK' /\ cur' \in Seq(Positions)
<1>1. /\ pos \in Positions /\ pos' = pos + 1 /\ resp' = resp /\ cur' = Joined
      /\ cur \in Seq(Positions) /\ Len(cur) \in Nat
  BY ResponseTypes DEF NextPart, Inv, CurOK, Adjacent, Positions
<1>2. CASE InUse
  BY <1>1, <1>2 DEF Joined, CurOK, Adjacent
<1>3. CASE ~InUse /\ Other
  <2>1. cur' = <<pos>>
    BY <1>1, <1>3 DEF Joined
  <2>2. QED
    BY <1>1, <1>3, <2>1 DEF InUse, P, CurOK, Adjacent, Positions
<1>4. CASE ~InUse /\ ~Other
  <2>1. cur' = Append(cur, pos)
    BY <1>1, <1>4 DEF Joined
  <2>2. /\ cur' \in Seq(Positions) /\ Len(cur') = Len(cur) + 1 /\ cur'[Len(cur) + 1] = pos
        /\ \A k \in 1 .. Len(cur) : cur'[k] = cur[k]
    BY <1>1, <2>1
  <2>3. CASE Len(cur) = 0
    BY <1>1, <1>4, <2>2, <2>3 DEF InUse, P, CurOK, Adjacent, Positions
  <2>4. CASE Len(cur) > 0
    <3>1. /\ cur'[1] = cur[1] /\ cur[1] \in Positions /\ cur[1] + Len(cur) = pos
          /\ resp.parts[pos].pid = resp.parts[cur[1]].pid
      <4>1. 1 \in 1 .. Len(cur)
        BY <1>1, <2>4
      <4>2. cur'[1] = cur[1] /\ cur[1] \in Positions /\ cur # <<>>
        BY <1>1, <2>2, <4>1
      <4>3. cur[1] + Len(cur) = pos
        BY <2>4 DEF Inv, CurOK
      <4>4. resp.parts[pos].pid = resp.parts[cur[1]].pid
        BY <1>4, <4>2 DEF Other, P
      <4>5. QED
        BY <4>2, <4>3, <4>4
    <3>2. ASSUME NEW k \in 1 .. Len(cur')
          PROVE  /\ cur'[k] = cur'[1] + k - 1
                 /\ resp.parts[cur'[k]].name \notin Busy(resp)
                 /\ resp.parts[cur'[k]].pid = resp.parts[cur'[1]].pid
      <4>1. CASE k \in 1 .. Len(cur)
        <5>1. cur'[k] = cur[k]
          BY <2>2, <4>1
        <5>2. /\ cur[k] = cur[1] + k - 1 /\ resp.parts[cur[k]].name \notin Busy(resp)
              /\ resp.parts[cur[k]].pid = resp.parts[cur[1]].pid
          BY <4>1 DEF Inv, CurOK, Adjacent
        <5>3. QED
          BY <3>1, <5>1, <5>2
      <4>2. CASE k = Len(cur) + 1
        BY <1>1, <1>4, <2>2, <3>1, <4>2 DEF InUse, P, Positions
      <4>3. QED
        BY <1>1, <2>2, <4>1, <4>2
    <3>3. cur'[1] + Len(cur') = pos'
      <4>1. cur[1] \in Int /\ pos \in Int
        BY <1>1, <3>1 DEF Positions
      <4>2. cur[1] + (Len(cur) + 1) = pos + 1
        BY <1>1, <3>1, <4>1
      <4>3. QED
        BY <1>1, <2>2, <3>1, <4>2
    <3>4. QED
      BY <1>1, <2>2, <3>2, <3>3 DEF CurOK, Adjacent, Positions
  <2>5. QED
    BY <1>1, <2>3, <2>4
<1>5. QED
  BY <1>2, <1>3, <1>4

\* A range is finished where the one being built ends.
LEMMA NextRanges == ASSUME Inv, NextPart PROVE RangesOK'
<1>1. /\ pos \in Positions /\ pos \in Nat /\ pos' = pos + 1 /\ resp' = resp /\ cur' = Joined
      /\ cur \in Seq(Positions) /\ Len(cur) \in Nat
      /\ ranges' = IF Other \/ InUse THEN Flushed ELSE ranges
  BY ResponseTypes DEF NextPart, Inv, CurOK, Adjacent, Positions
<1>2. CASE Other \/ InUse
  <2>1. ranges' = Flushed
    BY <1>1, <1>2
  <2>2. cur' = <<>> \/ cur' = <<pos>>
    BY <1>1, <1>2 DEF Joined
  <2>3. pos <= (IF Len(cur') > 0 THEN cur'[1] ELSE pos')
        /\ (IF Len(cur') > 0 THEN cur'[1] ELSE pos') \in Nat
    BY <1>1, <2>2
  <2>4. ASSUME NEW r \in 1 .. Len(Flushed)
        PROVE  Flushed[r][1] + Len(Flushed[r]) <= (IF Len(cur') > 0 THEN cur'[1] ELSE pos')
    <3>1. /\ Flushed[r] \in Seq(Positions) /\ Len(Flushed[r]) > 1
          /\ Flushed[r][1] + Len(Flushed[r]) <= pos
      BY FlushRanges DEF Adjacent
    <3>2. Flushed[r][1] \in Nat /\ Len(Flushed[r]) \in Nat
      BY <3>1 DEF Positions
    <3>3. QED
      BY <1>1, <2>3, <3>1, <3>2
  <2>5. QED
    BY <1>1, <2>1, <2>4, FlushRanges DEF RangesOK, Adjacent, Positions
<1>3. CASE ~Other /\ ~InUse
  <2>1. ranges' = ranges /\ cur' = Append(cur, pos)
    BY <1>1, <1>3 DEF Joined
  <2>2. Len(cur') > 0 /\ cur'[1] = IF Len(cur) > 0 THEN cur[1] ELSE pos
    BY <1>1, <2>1
  <2>3. QED
    BY <1>1, <2>1, <2>2 DEF Inv, RangesOK, Adjacent, Positions
<1>4. QED
  BY <1>2, <1>3

\* A part counts for its partition, and no age is negative.
LEMMA NextStats == ASSUME Inv, NextPart PROVE StatsOK'
<1>1. P.pid \in Partitions /\ P.mtime \in Int /\ resp.now \in Int
  BY ResponseTypes DEF NextPart, Inv, P, Positions
<1>2. Age(P) \in Nat
  BY <1>1 DEF Age, Greatest
<1>3. stats[P.pid].count \in Nat /\ stats[P.pid].minAge \in 0 .. MaxAge
  BY <1>1 DEF Inv, StatsOK
<1>4. Least(stats[P.pid].minAge, Age(P)) \in 0 .. MaxAge
  BY <1>2, <1>3, ResponseAssumption DEF Least
<1>5. stats' = [stats EXCEPT ![P.pid] = [count  |-> stats[P.pid].count + 1,
                                        minAge |-> Least(stats[P.pid].minAge, Age(P))]]
  BY DEF NextPart, Counted
<1>6. QED
  BY <1>1, <1>3, <1>4, <1>5 DEF Inv, StatsOK

\* No step of candidates breaks the invariant.
LEMMA StepInv == Inv /\ [Next]_vars => Inv'
<1> SUFFICES ASSUME Inv, [Next]_vars PROVE Inv'
  OBVIOUS
<1>1. CASE NextPart
  <2>1. pos' \in 1 .. Len(resp.parts) + 1
    BY <1>1, ResponseTypes DEF NextPart, Inv
  <2>2. QED
    BY <1>1, <2>1, NextCur, NextRanges, NextStats DEF NextPart, Inv
<1>2. CASE LastFlush
  <2>1. ranges' = Flushed /\ cur' = <<>> /\ pos' = pos /\ resp' = resp
    BY <1>2 DEF LastFlush
  <2>2. CurOK'
    BY <2>1 DEF CurOK, Adjacent
  <2>3. RangesOK'
    <3>1. Len(cur') = 0
      BY <2>1
    <3>2. \A r \in 1 .. Len(ranges') : Adjacent(ranges[r])'
      BY <2>1, FlushRanges DEF Adjacent, Positions
    <3>3. QED
      BY <2>1, <3>1, <3>2, FlushRanges DEF RangesOK, Positions
  <2>4. QED
    BY <1>2, <2>1, <2>2, <2>3 DEF LastFlush, Inv, StatsOK
<1>3. CASE Select
  <2>1. /\ resp' = resp /\ ranges' = ranges /\ cur' = cur /\ pos' = pos /\ stats' = stats
        /\ pc' = "done"
    BY <1>3 DEF Select
  <2>2. PICK n \in 0 .. resp.limit : \E seq \in [1..n -> SubRanges] :
          Selector!Answers(Call, seq) /\ answer' = seq
    BY <1>3 DEF Select
  <2>3. answer' \in [1..n -> SubRanges] /\ Selector!Answers(Call, answer')
    BY <2>2
  <2>4. Selector!Answers(Call, answer)'
    BY <2>1, <2>3 DEF Call, Selector!Answers, Selector!SubRangeOf, Selector!Covered
  <2>5. answer' \in Seq(SubRanges')
    BY <2>1, <2>3 DEF SubRanges
  <2>6. CurOK' /\ RangesOK' /\ StatsOK'
    BY <2>1 DEF Inv, CurOK, RangesOK, StatsOK, Adjacent, Positions
  <2>7. QED
    BY <2>1, <2>4, <2>5, <2>6 DEF Inv
<1>4. CASE UNCHANGED vars
  <2>1. CurOK' /\ RangesOK' /\ StatsOK'
    BY <1>4 DEF vars, Inv, CurOK, RangesOK, StatsOK, Adjacent, Positions
  <2>2. Call' = Call /\ SubRanges' = SubRanges
    BY <1>4 DEF vars, Call, SubRanges
  <2>3. Selector!Answers(Call, answer) => Selector!Answers(Call, answer)'
    BY <1>4, <2>2 DEF vars, Selector!Answers, Selector!SubRangeOf, Selector!Covered
  <2>4. QED
    BY <1>4, <2>1, <2>2, <2>3 DEF vars, Inv
<1>5. QED
  BY <1>1, <1>2, <1>3, <1>4 DEF Next

LEMMA RangesInvariant == Spec => []Inv
BY InitInv, StepInv, PTL DEF Spec

\* Whatever the response holds, the loop's variables and the answer are what they are
\* said to be, and no partition's age is negative.
THEOREM TypeCorrect == Spec => []TypeOK
<1>1. Inv => TypeOK
  BY DEF Inv, TypeOK, CurOK, RangesOK, StatsOK, Adjacent, Positions
<1>2. QED
  BY <1>1, RangesInvariant, PTL

-----------------------------------------------------------------------------
(***************************************************************************)
(* The candidates of a response.                                           *)
(***************************************************************************)
First(c) == ranges[c.range][c.begin + 1]
Last(c)  == ranges[c.range][c.end]

\* A candidate's first and last parts are as far from its range's as it says.
LEMMA Ends ==
  ASSUME Inv, NEW c \in SubRanges
  PROVE  /\ c.range \in 1 .. Len(ranges) /\ c.begin \in Nat /\ c.end \in Nat
         /\ c.begin + 2 <= c.end /\ c.end <= Len(ranges[c.range])
         /\ Len(ranges[c.range]) \in Nat /\ ranges[c.range][1] \in Nat \ {0}
         /\ First(c) = ranges[c.range][1] + c.begin
         /\ Last(c) = ranges[c.range][1] + c.end - 1
         /\ First(c) \in Nat /\ Last(c) \in Nat
<1> DEFINE s == ranges[c.range]
<1>1. Len(resp.parts) \in Nat
  BY ResponseTypes
<1>2. ranges \in Seq(Seq(Positions)) /\ DOMAIN ranges = 1 .. Len(ranges)
  BY DEF Inv, RangesOK
<1>3. /\ c.range \in DOMAIN ranges
      /\ c.begin \in 0 .. Len(resp.parts) /\ c.end \in 0 .. Len(resp.parts)
      /\ c.begin + 2 <= c.end /\ c.end <= Len(s)
  BY DEF SubRanges
<1>4. c.begin \in Nat /\ c.end \in Nat
  BY <1>1, <1>3
<1>5. s \in Seq(Positions) /\ Len(s) \in Nat
  BY <1>2, <1>3
<1>6. \A k \in 1 .. Len(s) : s[k] = s[1] + k - 1
  BY <1>2, <1>3 DEF Inv, RangesOK, Adjacent
<1> HIDE DEF s
<1>7. s[1] \in Nat \ {0}
  <2>1. 1 \in 1 .. Len(s)
    BY <1>3, <1>4, <1>5
  <2>2. s[1] \in Positions
    BY <1>5, <2>1
  <2>3. QED
    BY <1>1, <2>2 DEF Positions
<1>8. c.begin + 1 \in 1 .. Len(s) /\ c.end \in 1 .. Len(s)
  BY <1>3, <1>4, <1>5
<1>9. s[c.begin + 1] = s[1] + c.begin /\ s[c.end] = s[1] + c.end - 1
  BY <1>4, <1>6, <1>7, <1>8
<1>10. First(c) = s[c.begin + 1] /\ Last(c) = s[c.end]
  BY DEF First, Last, s
<1>11. s[1] + c.begin \in Nat /\ s[1] + c.end - 1 \in Nat
  BY <1>4, <1>7
<1>12. QED
  BY <1>2, <1>3, <1>4, <1>5, <1>7, <1>9, <1>10, <1>11 DEF s

\* Where a part of a candidate stands in its range.
LEMMA OffsetInRange ==
  ASSUME NEW f \in Nat, NEW b \in Nat, NEW e \in Nat, NEW n \in Nat, NEW k \in f + b .. f + e - 1,
         b + 2 <= e, e <= n
  PROVE  /\ k - f + 1 \in 1 .. n /\ b + 1 \in 1 .. n
         /\ f + (k - f + 1) - 1 = k /\ f + (b + 1) - 1 = f + b
<1>1. k \in Int /\ f + b <= k /\ k <= f + e - 1
  OBVIOUS
<1>2. k - f + 1 \in Int /\ 1 <= k - f + 1 /\ k - f + 1 <= n
  BY <1>1
<1>3. QED
  BY <1>1, <1>2

\* Two sub-ranges of a range that share no part: one ends where the other begins or before.
LEMMA Disjoint ==
  ASSUME NEW b \in Nat, NEW e \in Nat, NEW g \in Nat, NEW h \in Nat,
         b + 2 <= e, g + 2 <= h,
         (b + 1 .. e) \cap (g + 1 .. h) = {}
  PROVE  e <= g \/ h <= b
<1>1. SUFFICES ASSUME g < e, b < h PROVE FALSE
  OBVIOUS
<1>2. CASE b < g
  <2>1. g + 1 \in b + 1 .. e /\ g + 1 \in g + 1 .. h
    BY <1>1, <1>2
  <2>2. QED
    BY <2>1
<1>3. CASE g <= b
  <2>1. b + 1 \in b + 1 .. e /\ b + 1 \in g + 1 .. h
    BY <1>1, <1>3
  <2>2. QED
    BY <2>1
<1>4. QED
  BY <1>2, <1>3

\* A last part is one before the end its candidate is known by.
LEMMA EndsBefore ==
  ASSUME NEW f \in Nat, NEW e \in Nat, NEW g \in Nat, NEW b \in Nat, f + e <= g + b
  PROVE  f + e - 1 < g + b
  OBVIOUS

\* A candidate is a run of idle parts.
LEMMA CandidateIsRun ==
  ASSUME Inv, NEW c \in SubRanges
  PROVE  IsRun(resp.parts, Busy(resp), First(c), Last(c))
<1>1. PICK s \in Seq(Positions), b \in Nat, e \in Nat, f \in Nat \ {0} :
        /\ s = ranges[c.range] /\ b = c.begin /\ e = c.end /\ f = s[1]
        /\ b + 2 <= e /\ e <= Len(s) /\ First(c) = f + b /\ Last(c) = f + e - 1
  <2>1. c.range \in 1 .. Len(ranges) /\ ranges \in Seq(Seq(Positions))
    BY Ends DEF Inv, RangesOK
  <2>2. ranges[c.range] \in Seq(Positions)
    BY <2>1
  <2>3. QED
    BY <2>2, Ends
<1>2. Adjacent(s) /\ Len(s) \in Nat
  BY <1>1, Ends DEF Inv, RangesOK
<1>3. f + e - 1 \in Positions
  <2>1. e \in 1 .. Len(s)
    BY <1>1, <1>2
  <2>2. s[e] \in Positions /\ s[e] = f + e - 1
    BY <1>1, <1>2, <2>1 DEF Adjacent
  <2>3. QED
    BY <2>2
<1>4. 1 <= f + b /\ f + b < f + e - 1 /\ f + e - 1 <= Len(resp.parts)
  <2>1. f \in Nat /\ 1 <= f /\ b \in Nat /\ e \in Nat /\ b + 2 <= e
    BY <1>1
  <2>2. Len(resp.parts) \in Nat
    BY ResponseTypes
  <2>3. f + e - 1 <= Len(resp.parts)
    BY <1>3, <2>2 DEF Positions
  <2>4. 1 <= f + b /\ f + b < f + e - 1
    BY <2>1
  <2>5. QED
    BY <2>3, <2>4
<1>5. ASSUME NEW k \in f + b .. f + e - 1
      PROVE  /\ resp.parts[k].name \notin Busy(resp)
             /\ resp.parts[k].pid = resp.parts[f + b].pid
  <2> DEFINE n == Len(s)
  <2>1. /\ k - f + 1 \in 1 .. n /\ b + 1 \in 1 .. n
        /\ f + (k - f + 1) - 1 = k /\ f + (b + 1) - 1 = f + b
    <3>1. f \in Nat /\ b \in Nat /\ e \in Nat /\ n \in Nat /\ b + 2 <= e /\ e <= n
      BY <1>1, <1>2
    <3> HIDE DEF n
    <3>2. QED
      BY <3>1, <1>5, OffsetInRange
  <2>2. s[k - f + 1] = k /\ s[b + 1] = f + b
    <3>1. s[k - f + 1] = f + (k - f + 1) - 1 /\ s[b + 1] = f + (b + 1) - 1
      BY <1>1, <1>2, <2>1 DEF Adjacent
    <3>2. QED
      BY <2>1, <3>1
  <2>3. QED
    BY <1>2, <2>1, <2>2 DEF Adjacent
<1>6. QED
  BY <1>1, <1>4, <1>5 DEF IsRun

\* Two candidates without a part in common are apart in the list of the response.
LEMMA CandidatesApart ==
  ASSUME Inv, NEW c \in SubRanges, NEW d \in SubRanges,
         Selector!Covered(c) \cap Selector!Covered(d) = {}
  PROVE  Last(c) < First(d) \/ Last(d) < First(c)
<1>1. PICK rc \in 1 .. Len(ranges), bc \in Nat, ec \in Nat, fc \in Nat, nc \in Nat :
        /\ rc = c.range /\ bc = c.begin /\ ec = c.end
        /\ fc = ranges[rc][1] /\ nc = Len(ranges[rc])
        /\ bc + 2 <= ec /\ ec <= nc /\ First(c) = fc + bc /\ Last(c) = fc + ec - 1
  BY Ends
<1>2. PICK rd \in 1 .. Len(ranges), bd \in Nat, ed \in Nat, fd \in Nat, nd \in Nat :
        /\ rd = d.range /\ bd = d.begin /\ ed = d.end
        /\ fd = ranges[rd][1] /\ nd = Len(ranges[rd])
        /\ bd + 2 <= ed /\ ed <= nd /\ First(d) = fd + bd /\ Last(d) = fd + ed - 1
  BY Ends
<1>1a. bc \in Nat /\ ec \in Nat /\ fc \in Nat /\ nc \in Nat /\ bc + 2 <= ec /\ ec <= nc
  BY <1>1
<1>1b. First(c) = fc + bc /\ Last(c) = fc + ec - 1
  BY <1>1
<1>2a. bd \in Nat /\ ed \in Nat /\ fd \in Nat /\ nd \in Nat /\ bd + 2 <= ed /\ ed <= nd
  BY <1>2
<1>2b. First(d) = fd + bd /\ Last(d) = fd + ed - 1
  BY <1>2
<1>3. CASE rc = rd
  <2>1. (bc + 1 .. ec) \cap (bd + 1 .. ed) = {}
    <3>1. SUFFICES ASSUME NEW p \in bc + 1 .. ec, p \in bd + 1 .. ed PROVE FALSE
      OBVIOUS
    <3>2. <<rc, p>> \in Selector!Covered(c) /\ <<rc, p>> \in Selector!Covered(d)
      BY <1>1, <1>2, <1>3, <3>1 DEF Selector!Covered
    <3>3. QED
      BY <3>2
  <2>2. ec <= bd \/ ed <= bc
    BY <1>1a, <1>2a, <2>1, Disjoint
  <2>3. fc = fd
    BY <1>1, <1>2, <1>3
  <2>4. fc + ec <= fd + bd \/ fd + ed <= fc + bc
    BY <1>1a, <1>2a, <2>2, <2>3
  <2>5. QED
    BY <1>1a, <1>2a, <1>1b, <1>2b, <2>4, EndsBefore
<1>4. CASE rc < rd
  <2>1. fc + nc <= fd
    BY <1>1, <1>2, <1>4 DEF Inv, RangesOK
  <2>2. fc + ec <= fd + bd
    BY <1>1a, <1>2a, <2>1
  <2>3. QED
    BY <1>1a, <1>2a, <1>1b, <1>2b, <2>2, EndsBefore
<1>5. CASE rd < rc
  <2>1. fd + nd <= fc
    BY <1>1, <1>2, <1>5 DEF Inv, RangesOK
  <2>2. fd + ed <= fc + bc
    BY <1>1a, <1>2a, <2>1
  <2>3. QED
    BY <1>1a, <1>2a, <1>1b, <1>2b, <2>2, EndsBefore
<1>6. rc < rd \/ rd < rc \/ rc = rd
  BY DEF Inv, RangesOK
<1>7. QED
  BY <1>3, <1>4, <1>5, <1>6

\* Whatever the response holds, its candidates are runs of idle adjacent parts of one
\* partition, apart from each other and no more than were asked for.
THEOREM OffersIdleRuns == Spec => []OffersCandidates
<1>2. ASSUME Inv, pc = "done"
      PROVE  AreCandidates(resp.parts, Busy(resp), resp.limit, Offered)
  <2>1. answer \in Seq(SubRanges) /\ DOMAIN answer = 1 .. Len(answer) /\ Len(answer) \in Nat
    BY <1>2 DEF Inv
  <2>2. \A k \in DOMAIN answer : Offered[k] = <<First(answer[k]), Last(answer[k])>>
    BY DEF Offered, First, Last
  <2>3. DOMAIN Offered = DOMAIN answer /\ Len(Offered) = Len(answer)
    BY <2>1 DEF Offered
  <2>4. /\ Len(answer) <= resp.limit
        /\ \A k, l \in DOMAIN answer :
             k # l => Selector!Covered(answer[k]) \cap Selector!Covered(answer[l]) = {}
    BY <1>2 DEF Inv, Selector!Answers, Call
  <2>5. \A k \in DOMAIN answer : answer[k] \in SubRanges
    BY <2>1
  <2>6. \A k \in DOMAIN Offered : IsRun(resp.parts, Busy(resp), Offered[k][1], Offered[k][2])
    BY <1>2, <2>2, <2>3, <2>5, CandidateIsRun
  <2>7. \A k, l \in DOMAIN Offered :
          k # l => Offered[k][2] < Offered[l][1] \/ Offered[l][2] < Offered[k][1]
    BY <1>2, <2>2, <2>3, <2>4, <2>5, CandidatesApart
  <2>8. QED
    BY <2>3, <2>4, <2>6, <2>7 DEF AreCandidates
<1>3. Inv => OffersCandidates
  BY <1>2 DEF OffersCandidates
<1>4. QED
  BY <1>3, RangesInvariant, PTL

-----------------------------------------------------------------------------
(***************************************************************************)
(* The ranges are all there are.  Two neighbours that may be merged are a  *)
(* link; a range holds its links, and there is none at either end of it.   *)
(***************************************************************************)
Link(k) ==
  /\ k \in Positions /\ k + 1 \in Positions
  /\ resp.parts[k].name \notin Busy(resp) /\ resp.parts[k + 1].name \notin Busy(resp)
  /\ resp.parts[k].pid = resp.parts[k + 1].pid

Holds(s, k) == s[1] <= k /\ k + 1 < s[1] + Len(s)

NoLinkBeside(s) == ~Link(s[1] - 1) /\ ~Link(s[1] + Len(s) - 1)

\* The links seen so far are in a range or in the one being built; no range could have been
\* longer; and if none is being built, the part before the loop's is busy.
LinksOK ==
  /\ \A k \in Nat : Link(k) /\ k + 1 < pos =>
       (Len(cur) > 0 /\ cur[1] <= k) \/ \E r \in 1 .. Len(ranges) : Holds(ranges[r], k)
  /\ \A r \in 1 .. Len(ranges) : NoLinkBeside(ranges[r])
  /\ Len(cur) > 0 => ~Link(cur[1] - 1)
  /\ pc = "split" /\ Len(cur) = 0 => ~Link(pos - 1)

\* No link is lost in a flush where there is none.
LEMMA FlushLinks ==
  ASSUME Inv, LinksOK, ~Link(pos - 1)
  PROVE  /\ \A k \in Nat : Link(k) /\ k + 1 < pos => \E r \in 1 .. Len(Flushed) : Holds(Flushed[r], k)
         /\ \A r \in 1 .. Len(Flushed) : NoLinkBeside(Flushed[r])
<1>1. /\ cur \in Seq(Positions) /\ ranges \in Seq(Seq(Positions)) /\ Len(cur) \in Nat
      /\ Len(ranges) \in Nat /\ pos \in Nat /\ (Len(cur) > 0 => cur[1] + Len(cur) = pos /\ cur[1] \in Nat)
  BY ResponseTypes DEF Inv, CurOK, Adjacent, RangesOK, Positions
<1>2. CASE Len(cur) > 1
  <2>1. /\ Len(Flushed) = Len(ranges) + 1 /\ Flushed[Len(ranges) + 1] = cur
        /\ \A r \in 1 .. Len(ranges) : Flushed[r] = ranges[r]
    BY <1>1, <1>2 DEF Flushed
  <2>2. NoLinkBeside(cur)
    <3>1. Len(cur) > 0
      BY <1>1, <1>2
    <3>2. cur[1] + Len(cur) - 1 = pos - 1
      BY <1>1, <3>1
    <3>3. ~Link(cur[1] - 1)
      BY <3>1 DEF LinksOK
    <3>4. QED
      BY <3>2, <3>3 DEF NoLinkBeside
  <2>3. ASSUME NEW k \in Nat, Link(k), k + 1 < pos
        PROVE  \E r \in 1 .. Len(Flushed) : Holds(Flushed[r], k)
    <3>1. CASE cur[1] <= k
      <4>1. Holds(cur, k)
        BY <1>1, <1>2, <2>3, <3>1 DEF Holds
      <4>2. QED
        BY <1>1, <2>1, <4>1
    <3>2. CASE \E r \in 1 .. Len(ranges) : Holds(ranges[r], k)
      <4>1. PICK r \in 1 .. Len(ranges) : Holds(ranges[r], k)
        BY <3>2
      <4>2. r \in 1 .. Len(Flushed) /\ Flushed[r] = ranges[r]
        BY <1>1, <2>1
      <4>3. QED
        BY <4>1, <4>2
    <3>3. QED
      BY <2>3, <3>1, <3>2 DEF LinksOK
  <2>4. ASSUME NEW r \in 1 .. Len(Flushed) PROVE NoLinkBeside(Flushed[r])
    <3>1. r \in 1 .. Len(ranges) \/ r = Len(ranges) + 1
      BY <1>1, <2>1
    <3>2. QED
      BY <2>1, <2>2, <3>1 DEF LinksOK
  <2>5. QED
    BY <2>3, <2>4
<1>3. CASE ~(Len(cur) > 1)
  <2>1. Flushed = ranges
    BY <1>3 DEF Flushed
  <2>2. ASSUME NEW k \in Nat, Link(k), k + 1 < pos, Len(cur) > 0, cur[1] <= k PROVE FALSE
    BY <1>1, <1>3, <2>2
  <2>3. QED
    BY <2>1, <2>2 DEF LinksOK
<1>4. QED
  BY <1>2, <1>3

LEMMA NextLinks == ASSUME Inv, Inv', LinksOK, NextPart PROVE LinksOK'
<1>1. /\ pos \in Positions /\ pos \in Nat /\ pos' = pos + 1 /\ resp' = resp /\ cur' = Joined
      /\ cur \in Seq(Positions) /\ Len(cur) \in Nat /\ pc = "split" /\ pc' = "split"
      /\ ranges' = IF Other \/ InUse THEN Flushed ELSE ranges
      /\ (Len(cur) > 0 => cur[1] + Len(cur) = pos /\ cur[1] \in Nat)
  BY ResponseTypes DEF NextPart, Inv, CurOK, Adjacent, Positions
<1>2. /\ \A k : Link(k)' <=> Link(k)
      /\ \A s : NoLinkBeside(s)' <=> NoLinkBeside(s)
  BY <1>1 DEF Link, NoLinkBeside, Positions, Busy
<1>3. CASE ~Link(pos - 1) /\ (Other \/ InUse)
  <2>1. ranges' = Flushed /\ (cur' = <<>> \/ cur' = <<pos>>) /\ (cur' = <<>> => InUse)
    BY <1>1, <1>3 DEF Joined
  <2>2. ASSUME NEW k \in Nat, Link(k), k + 1 < pos + 1
        PROVE  \E r \in 1 .. Len(Flushed) : Holds(Flushed[r], k)
    <3>1. k # pos - 1
      BY <1>3, <2>2
    <3>2. k + 1 < pos
      BY <1>1, <2>2, <3>1
    <3>3. QED
      BY <1>3, <2>2, <3>2, FlushLinks
  <2>3. InUse => ~Link(pos)
    BY DEF InUse, P, Link
  <2>4. Len(cur') > 0 => ~Link(cur'[1] - 1)
    BY <1>3, <2>1
  <2>5. Len(cur') = 0 => ~Link(pos' - 1)
    <3>1. pos' - 1 = pos
      BY <1>1
    <3>2. Len(<<pos>>) = 1
      OBVIOUS
    <3>3. QED
      BY <2>1, <2>3, <3>1, <3>2
  <2>6. \A r \in 1 .. Len(Flushed) : NoLinkBeside(Flushed[r])
    BY <1>3, FlushLinks
  <2>7. QED
    BY <1>1, <1>2, <2>1, <2>2, <2>4, <2>5, <2>6 DEF LinksOK, Holds
<1>4. CASE ~(Other \/ InUse)
  <2>1. /\ ranges' = ranges /\ cur' = Append(cur, pos) /\ Len(cur') = Len(cur) + 1
        /\ cur'[1] = IF Len(cur) > 0 THEN cur[1] ELSE pos
    BY <1>1, <1>4 DEF Joined
  <2>2. ~Link(cur'[1] - 1)
    BY <1>1, <2>1 DEF LinksOK
  <2>3. ASSUME NEW k \in Nat, Link(k), k + 1 < pos + 1
        PROVE  cur'[1] <= k \/ \E r \in 1 .. Len(ranges) : Holds(ranges[r], k)
    <3>1. CASE k + 1 < pos
      <4>1. (Len(cur) > 0 /\ cur[1] <= k) \/ \E r \in 1 .. Len(ranges) : Holds(ranges[r], k)
        BY <2>3, <3>1 DEF LinksOK
      <4>2. QED
        BY <2>1, <4>1
    <3>2. CASE k = pos - 1
      <4>1. Len(cur) > 0
        BY <1>1, <2>3, <3>2 DEF LinksOK
      <4>2. QED
        BY <1>1, <2>1, <3>2, <4>1
    <3>3. QED
      BY <1>1, <2>3, <3>1, <3>2
  <2>4. ASSUME NEW k \in Nat, Link(k)', k + 1 < pos'
        PROVE  (Len(cur') > 0 /\ cur'[1] <= k) \/ \E r \in 1 .. Len(ranges') : Holds(ranges[r], k)'
    <3>1. Link(k) /\ k + 1 < pos + 1 /\ Len(cur') > 0
      BY <1>1, <1>2, <2>1, <2>4
    <3>2. cur'[1] <= k \/ \E r \in 1 .. Len(ranges) : Holds(ranges[r], k)
      BY <2>3, <3>1
    <3>3. QED
      BY <2>1, <3>1, <3>2 DEF Holds
  <2>5. \A r \in 1 .. Len(ranges') : NoLinkBeside(ranges[r])'
    BY <1>2, <2>1 DEF LinksOK
  <2>6. ~Link(cur[1] - 1)' /\ Len(cur') # 0
    BY <1>1, <1>2, <2>1, <2>2
  <2>7. QED
    BY <2>4, <2>5, <2>6 DEF LinksOK
<1>5. CASE Other \/ InUse
  <2>1. CASE InUse
    <3>1. pos - 1 + 1 = pos
      BY <1>1
    <3>2. QED
      BY <1>3, <2>1, <3>1 DEF InUse, P, Link
  <2>2. CASE Other
    <3>1. Len(cur) > 0
      BY <1>1, <2>2 DEF Other
    <3>2. /\ cur[Len(cur)] = cur[1] + Len(cur) - 1
          /\ resp.parts[cur[Len(cur)]].pid = resp.parts[cur[1]].pid
      BY <1>1, <3>1 DEF Inv, CurOK, Adjacent
    <3>3. cur[1] + Len(cur) - 1 = pos - 1 /\ pos - 1 + 1 = pos
      BY <1>1, <3>1
    <3>4. resp.parts[pos - 1].pid # resp.parts[pos].pid
      BY <2>2, <3>2, <3>3 DEF Other, P
    <3>5. QED
      BY <1>3, <2>2, <3>3, <3>4 DEF Link
  <2>3. QED
    BY <1>5, <2>1, <2>2
<1>6. QED
  BY <1>4, <1>5

LEMMA StepLinks == ASSUME Inv, Inv', LinksOK, [Next]_vars PROVE LinksOK'
<1>1. CASE NextPart
  BY <1>1, NextLinks
<1>2. CASE LastFlush
  <2>1. /\ ranges' = Flushed /\ cur' = <<>> /\ pos' = pos /\ resp' = resp /\ pc' = "select"
        /\ pos \in Nat /\ pos > Len(resp.parts) /\ Len(resp.parts) \in Nat
    BY <1>2, ResponseTypes DEF LastFlush, Inv
  <2>2. pos - 1 + 1 = pos /\ ~(pos \in Positions)
    BY <2>1 DEF Positions
  <2>3. ~Link(pos - 1)
    BY <2>2 DEF Link
  <2>4. /\ \A k : Link(k)' <=> Link(k)
        /\ \A s : NoLinkBeside(s)' <=> NoLinkBeside(s)
    BY <2>1 DEF Link, NoLinkBeside, Positions, Busy
  <2>5. QED
    BY <2>1, <2>3, <2>4, FlushLinks DEF LinksOK, Holds
<1>3. CASE Select \/ UNCHANGED vars
  <2>1. UNCHANGED <<resp, ranges, cur, pos>> /\ (pc' = "split" => pc = "split")
    BY <1>3 DEF Select, vars
  <2>2. /\ \A k : Link(k)' <=> Link(k)
        /\ \A s : NoLinkBeside(s)' <=> NoLinkBeside(s)
    BY <2>1 DEF Link, NoLinkBeside, Positions, Busy
  <2>3. QED
    BY <2>1, <2>2 DEF LinksOK, Holds
<1>4. QED
  BY <1>1, <1>2, <1>3 DEF Next

LEMMA InitLinks == Init => LinksOK
<1> SUFFICES ASSUME Init PROVE LinksOK
  OBVIOUS
<1>1. pos = 1 /\ Len(cur) = 0 /\ Len(ranges) = 0
  BY DEF Init
<1>2. ~(0 \in Positions) /\ pos - 1 = 0
  BY <1>1 DEF Positions
<1>3. \A k \in Nat : ~(k + 1 < pos)
  BY <1>1
<1>4. QED
  BY <1>1, <1>2, <1>3 DEF LinksOK, Link

LEMMA LinksInvariant == Spec => []LinksOK
<1>1. Inv /\ Inv' /\ LinksOK /\ [Next]_vars => LinksOK'
  BY StepLinks
<1>2. QED
  BY <1>1, InitLinks, RangesInvariant, PTL DEF Spec

\* A finished range, by its first part and its last.
LEMMA RangeEnds ==
  ASSUME Inv, NEW r \in 1 .. Len(ranges)
  PROVE  \E f \in Nat, e \in Nat :
           /\ f = ranges[r][1] /\ e = ranges[r][Len(ranges[r])]
           /\ 1 <= f /\ f < e /\ e <= Len(resp.parts)
           /\ ranges[r][1] + Len(ranges[r]) = e + 1 /\ ranges[r][1] + Len(ranges[r]) - 1 = e
           /\ \A k \in f .. e : /\ k \in Positions /\ resp.parts[k].name \notin Busy(resp)
                                /\ resp.parts[k].pid = resp.parts[f].pid
<1>1. PICK s \in Seq(Positions) : s = ranges[r] /\ Len(s) > 1 /\ Adjacent(s)
  BY DEF Inv, RangesOK, Adjacent
<1>2. Len(s) \in Nat /\ s[1] \in Positions /\ s[Len(s)] \in Positions
  BY <1>1
<1>3. s[1] \in Nat /\ 1 <= s[1] /\ Len(resp.parts) \in Nat
  BY <1>2, ResponseTypes DEF Positions
<1>4. s[Len(s)] = s[1] + Len(s) - 1
  BY <1>1, <1>2 DEF Adjacent
<1>5. PICK f \in Nat, e \in Nat, n \in Nat :
        /\ f = s[1] /\ e = s[Len(s)] /\ n = Len(s) /\ e = f + n - 1 /\ 1 <= f /\ n > 1
        /\ e <= Len(resp.parts)
  BY <1>1, <1>2, <1>3, <1>4 DEF Positions
<1>6. ASSUME NEW k \in f .. e
      PROVE  /\ k \in Positions /\ resp.parts[k].name \notin Busy(resp)
             /\ resp.parts[k].pid = resp.parts[f].pid
  <2>1. PICK i \in 1 .. n : f + i - 1 = k
    <3>1. k - f + 1 \in 1 .. n /\ f + (k - f + 1) - 1 = k
      BY <1>5
    <3>2. QED
      BY <3>1
  <2>2. s[i] = k /\ s[i] \in Positions
    BY <1>1, <1>5, <2>1 DEF Adjacent
  <2>3. QED
    BY <1>1, <1>5, <2>1, <2>2 DEF Adjacent
<1>7. f < e /\ f + n = e + 1 /\ f + n - 1 = e
  BY <1>5
<1>8. QED
  BY <1>1, <1>5, <1>6, <1>7

\* A longer run would have a link at its end.
LEMMA RangeIsMaximal ==
  ASSUME Inv, LinksOK, NEW r \in 1 .. Len(ranges)
  PROVE  <<ranges[r][1], ranges[r][Len(ranges[r])]>> \in MaximalRuns(resp.parts, Busy(resp))
<1>1. PICK a \in Nat, b \in Nat :
        /\ a = ranges[r][1] /\ b = ranges[r][Len(ranges[r])]
        /\ 1 <= a /\ a < b /\ b <= Len(resp.parts) /\ ranges[r][1] + Len(ranges[r]) - 1 = b
        /\ \A k \in a .. b : /\ k \in Positions /\ resp.parts[k].name \notin Busy(resp)
                             /\ resp.parts[k].pid = resp.parts[a].pid
  BY RangeEnds
<1>2. Len(resp.parts) \in Nat /\ ~Link(a - 1) /\ ~Link(b)
  <2>1. ranges[r][1] + Len(ranges[r]) - 1 = b
    BY <1>1
  <2>2. QED
    BY <1>1, <2>1, ResponseTypes DEF LinksOK, NoLinkBeside
<1>3. IsRun(resp.parts, Busy(resp), a, b)
  BY <1>1 DEF IsRun
<1>4. ~IsRun(resp.parts, Busy(resp), a - 1, b)
  <2> SUFFICES ASSUME IsRun(resp.parts, Busy(resp), a - 1, b) PROVE FALSE
    OBVIOUS
  <2>1. 1 <= a - 1 /\ a - 1 \in a - 1 .. b /\ a \in a - 1 .. b /\ a - 1 + 1 = a
    BY <1>1 DEF IsRun
  <2>2. /\ resp.parts[a - 1].name \notin Busy(resp) /\ resp.parts[a].name \notin Busy(resp)
        /\ resp.parts[a].pid = resp.parts[a - 1].pid
    BY <2>1 DEF IsRun
  <2>3. a - 1 \in Positions /\ a \in Positions
    <3>1. a \in Int /\ 1 <= a - 1 /\ a <= Len(resp.parts)
      BY <1>1, <1>2, <2>1
    <3>2. \A n \in Nat : a <= n => a \in 1 .. n /\ a - 1 \in 1 .. n
      BY <3>1
    <3>3. QED
      BY <1>2, <3>1, <3>2 DEF Positions
  <2>4. QED
    BY <1>2, <2>1, <2>2, <2>3 DEF Link
<1>5. ~IsRun(resp.parts, Busy(resp), a, b + 1)
  <2> SUFFICES ASSUME IsRun(resp.parts, Busy(resp), a, b + 1) PROVE FALSE
    OBVIOUS
  <2>1. b + 1 <= Len(resp.parts) /\ b \in a .. b + 1 /\ b + 1 \in a .. b + 1
    BY <1>1 DEF IsRun
  <2>2. /\ resp.parts[b].name \notin Busy(resp) /\ resp.parts[b + 1].name \notin Busy(resp)
        /\ resp.parts[b].pid = resp.parts[b + 1].pid
    BY <2>1 DEF IsRun
  <2>3. b \in Positions /\ b + 1 \in Positions
    BY <1>1, <1>2, <2>1 DEF Positions
  <2>4. QED
    BY <1>2, <2>2, <2>3 DEF Link
<1>6. <<a, b>> \in MaximalRuns(resp.parts, Busy(resp))
  <2>1. <<a, b>> \in (1 .. Len(resp.parts)) \X (1 .. Len(resp.parts))
    BY <1>1, <1>2
  <2>2. <<a, b>> \in Runs(resp.parts, Busy(resp))
    BY <1>3, <2>1 DEF Runs
  <2>3. QED
    BY <1>4, <1>5, <2>2 DEF MaximalRuns
<1>7. QED
  BY <1>1, <1>6

\* The loop ends behind the last part, and with nothing being built.
Through == pc # "split" => Len(cur) = 0 /\ pos = Len(resp.parts) + 1

\* The first link of a run is in a range; and a range that has it has the same ends.
LEMMA RunIsRange ==
  ASSUME Inv, LinksOK, Through, pc # "split",
         NEW ab \in MaximalRuns(resp.parts, Busy(resp))
  PROVE  \E r \in 1 .. Len(ranges) : ab = <<ranges[r][1], ranges[r][Len(ranges[r])]>>
<1>1. PICK a \in Nat, b \in Nat :
        /\ ab = <<a, b>> /\ IsRun(resp.parts, Busy(resp), a, b)
        /\ ~IsRun(resp.parts, Busy(resp), a - 1, b) /\ ~IsRun(resp.parts, Busy(resp), a, b + 1)
  BY ResponseTypes DEF MaximalRuns, Runs
<1>2. /\ 1 <= a /\ a < b /\ b <= Len(resp.parts) /\ Len(resp.parts) \in Nat
      /\ \A k \in a .. b : /\ resp.parts[k].name \notin Busy(resp)
                           /\ resp.parts[k].pid = resp.parts[a].pid
  BY <1>1, ResponseTypes DEF IsRun
<1>3. \A k \in Nat : a <= k /\ k < b => Link(k)
  <2> SUFFICES ASSUME NEW k \in Nat, a <= k, k < b PROVE Link(k)
    OBVIOUS
  <2>1. k \in a .. b /\ k + 1 \in a .. b /\ k \in Positions /\ k + 1 \in Positions
    BY <1>2 DEF Positions
  <2>2. QED
    BY <1>2, <2>1 DEF Link
<1>4. PICK r \in 1 .. Len(ranges) : Holds(ranges[r], a)
  <2>1. Link(a) /\ a + 1 < pos /\ Len(cur) = 0
    BY <1>2, <1>3 DEF Through
  <2>2. QED
    BY <2>1 DEF LinksOK
<1>5. PICK f \in Nat, e \in Nat :
        /\ f = ranges[r][1] /\ e = ranges[r][Len(ranges[r])]
        /\ 1 <= f /\ f < e /\ e <= Len(resp.parts)
        /\ ranges[r][1] + Len(ranges[r]) = e + 1 /\ ranges[r][1] + Len(ranges[r]) - 1 = e
        /\ \A k \in f .. e : /\ k \in Positions /\ resp.parts[k].name \notin Busy(resp)
                             /\ resp.parts[k].pid = resp.parts[f].pid
  BY RangeEnds
<1>5a. f <= a /\ a < e
  BY <1>4, <1>5 DEF Holds
<1>6. ~Link(e)
  <2>1. ranges[r][1] + Len(ranges[r]) - 1 = e
    BY <1>5
  <2>2. QED
    BY <2>1 DEF LinksOK, NoLinkBeside
<1>7. a = f
  <2> SUFFICES ASSUME f < a PROVE FALSE
    BY <1>5, <1>5a
  <2>1. a - 1 \in f .. e /\ a \in f .. e
    BY <1>5, <1>5a
  <2>2. ASSUME NEW k \in a - 1 .. b
        PROVE  /\ resp.parts[k].name \notin Busy(resp)
               /\ resp.parts[k].pid = resp.parts[a - 1].pid
    <3>1. k = a - 1 \/ k \in a .. b
      BY <1>1, <2>2
    <3>2. resp.parts[a - 1].pid = resp.parts[a].pid
      BY <1>5, <1>5a, <2>1
    <3>3. QED
      BY <1>2, <1>5, <1>5a, <2>1, <3>1, <3>2
  <2>3. 1 <= a - 1 /\ a - 1 < b
    BY <1>2, <1>5, <1>5a
  <2>4. QED
    BY <1>1, <1>2, <2>2, <2>3 DEF IsRun
<1>8. e >= b
  BY <1>2, <1>3, <1>5, <1>5a, <1>6
<1>9. e <= b
  <2> SUFFICES ASSUME b < e PROVE FALSE
    BY <1>5, <1>5a
  <2>1. \A k \in a .. b + 1 : k \in f .. e
    BY <1>7
  <2>2. a < b + 1
    BY <1>1, <1>2
  <2>3. b + 1 <= Len(resp.parts)
    <3>1. \A n \in Nat : b < e /\ e <= n => b + 1 <= n
      BY <1>1, <1>5
    <3>2. QED
      BY <1>2, <1>5, <3>1
  <2>4. QED
    BY <1>1, <1>2, <1>5, <1>5a, <1>7, <2>1, <2>2, <2>3 DEF IsRun
<1>10. QED
  BY <1>1, <1>5, <1>7, <1>8, <1>9

LEMMA ThroughInvariant == Spec => []Through
<1>1. Init => Through
  BY DEF Init, Through
<1>2. Inv /\ Through /\ [Next]_vars => Through'
  <2> SUFFICES ASSUME Inv, Through, [Next]_vars PROVE Through'
    OBVIOUS
  <2>1. CASE NextPart
    BY <2>1 DEF NextPart, Through
  <2>2. CASE LastFlush
    BY <2>2, ResponseTypes DEF LastFlush, Through, Inv
  <2>3. CASE Select
    BY <2>3 DEF Select, Through
  <2>4. CASE UNCHANGED vars
    BY <2>4 DEF vars, Through
  <2>5. QED
    BY <2>1, <2>2, <2>3, <2>4 DEF Next
<1>3. QED
  BY <1>1, <1>2, RangesInvariant, PTL DEF Spec

\* Whatever the response holds, the ranges are the longest runs of idle parts of one
\* partition, each once, from left to right.
THEOREM RangesMaximal == Spec => []RangesAreMaximalRuns
<1>1. ASSUME Inv, LinksOK, Through, pc # "split"
      PROVE  /\ \A r \in DOMAIN ranges : \A k \in DOMAIN ranges[r] : ranges[r][k] = ranges[r][1] + k - 1
             /\ {<<ranges[r][1], ranges[r][Len(ranges[r])]>> : r \in DOMAIN ranges}
                  = MaximalRuns(resp.parts, Busy(resp))
             /\ \A r, s \in DOMAIN ranges : r < s => ranges[r][1] < ranges[s][1]
  <2>1. DOMAIN ranges = 1 .. Len(ranges) /\ ranges \in Seq(Seq(Positions))
    BY <1>1 DEF Inv, RangesOK
  <2>2. ASSUME NEW r \in DOMAIN ranges, NEW k \in DOMAIN ranges[r]
        PROVE  ranges[r][k] = ranges[r][1] + k - 1
    <3>1. Adjacent(ranges[r]) /\ k \in 1 .. Len(ranges[r])
      BY <1>1, <2>1, <2>2 DEF Inv, RangesOK
    <3>2. QED
      BY <3>1 DEF Adjacent
  <2>3. {<<ranges[r][1], ranges[r][Len(ranges[r])]>> : r \in DOMAIN ranges}
          = MaximalRuns(resp.parts, Busy(resp))
    <3>1. \A r \in DOMAIN ranges :
            <<ranges[r][1], ranges[r][Len(ranges[r])]>> \in MaximalRuns(resp.parts, Busy(resp))
      BY <1>1, <2>1, RangeIsMaximal
    <3>2. \A ab \in MaximalRuns(resp.parts, Busy(resp)) :
            \E r \in DOMAIN ranges : ab = <<ranges[r][1], ranges[r][Len(ranges[r])]>>
      BY <1>1, <2>1, RunIsRange
    <3>3. QED
      BY <3>1, <3>2
  <2>4. ASSUME NEW r \in DOMAIN ranges, NEW s \in DOMAIN ranges, r < s
        PROVE  ranges[r][1] < ranges[s][1]
    <3>1. PICK f \in Nat, n \in Nat : f = ranges[r][1] /\ n = Len(ranges[r]) /\ n > 1
      <4>1. ranges[r] \in Seq(Positions) /\ Len(ranges[r]) > 1
        BY <1>1, <2>1 DEF Inv, RangesOK
      <4>2. ranges[r][1] \in Positions /\ Len(ranges[r]) \in Nat
        BY <4>1
      <4>3. QED
        BY <4>1, <4>2 DEF Positions
    <3>2. ranges[s][1] \in Nat
      <4>1. ranges[s] \in Seq(Positions) /\ Len(ranges[s]) > 1
        BY <1>1, <2>1 DEF Inv, RangesOK
      <4>2. ranges[s][1] \in Positions
        BY <4>1
      <4>3. QED
        BY <4>2 DEF Positions
    <3>3. f + n <= ranges[s][1]
      BY <1>1, <2>1, <2>4, <3>1 DEF Inv, RangesOK
    <3>4. QED
      BY <3>1, <3>2, <3>3
  <2>5. QED
    BY <2>2, <2>3, <2>4
<1>2. Inv /\ LinksOK /\ Through => RangesAreMaximalRuns
  BY <1>1 DEF RangesAreMaximalRuns
<1>3. QED
  BY <1>2, RangesInvariant, LinksInvariant, ThroughInvariant, PTL

-----------------------------------------------------------------------------
(***************************************************************************)
(* The statistics of a partition are those of its parts up to the loop's.  *)
(***************************************************************************)
Mine(pid, n) == {k \in Positions : k <= n /\ resp.parts[k].pid = pid}

CountsOK ==
  \A pid \in Partitions :
    /\ IsFiniteSet(Mine(pid, pos - 1))
    /\ stats[pid].count = Cardinality(Mine(pid, pos - 1))
    /\ \A k \in Mine(pid, pos - 1) : stats[pid].minAge <= Age(resp.parts[k])
    /\ IF Mine(pid, pos - 1) = {} THEN stats[pid].minAge = MaxAge
       ELSE \E k \in Mine(pid, pos - 1) : stats[pid].minAge = Age(resp.parts[k])

LEMMA InitCounts == ASSUME Init PROVE CountsOK
<1>1. \A pid : Mine(pid, pos - 1) = {}
  BY DEF Init, Mine, Positions
<1>2. QED
  BY <1>1, FS_EmptySet DEF Init, CountsOK

\* The ages of a response are those of an int64.
LEMMA Ages ==
  ASSUME Inv, NEW k \in Positions
  PROVE  Age(resp.parts[k]) \in 0 .. MaxAge
<1>1. resp.parts[k].mtime \in Int /\ resp.now \in Int /\ resp.now - resp.parts[k].mtime <= MaxAge
  BY ResponseAssumption DEF Inv, Positions
<1>2. QED
  BY <1>1, ResponseAssumption DEF Age, Greatest

LEMMA NextCounts == ASSUME Inv, CountsOK, NextPart PROVE CountsOK'
<1>1. /\ pos \in Positions /\ pos \in Nat /\ pos' = pos + 1 /\ resp' = resp /\ P.pid \in Partitions
      /\ stats' = [stats EXCEPT ![P.pid] = [count  |-> stats[P.pid].count + 1,
                                            minAge |-> Least(stats[P.pid].minAge, Age(P))]]
  BY ResponseTypes DEF NextPart, Inv, Counted, P, Positions
<1>2. /\ \A k : Age(resp.parts[k])' = Age(resp.parts[k])
      /\ \A pid, n : Mine(pid, n)' = Mine(pid, n)
  BY <1>1 DEF Age, Mine, Positions
<1>3. pos' - 1 = pos
  BY <1>1
<1>4. ASSUME NEW pid \in Partitions
      PROVE  /\ IsFiniteSet(Mine(pid, pos))
             /\ stats'[pid].count = Cardinality(Mine(pid, pos))
             /\ \A k \in Mine(pid, pos) : stats'[pid].minAge <= Age(resp.parts[k])
             /\ IF Mine(pid, pos) = {} THEN stats'[pid].minAge = MaxAge
                ELSE \E k \in Mine(pid, pos) : stats'[pid].minAge = Age(resp.parts[k])
  <2>1. CASE pid # P.pid
    <3>1. Mine(pid, pos) = Mine(pid, pos - 1)
      BY <1>1, <2>1 DEF Mine, P, Positions
    <3>2. stats'[pid] = stats[pid]
      BY <1>1, <2>1 DEF Inv, StatsOK
    <3>3. QED
      BY <3>1, <3>2 DEF CountsOK
  <2>2. CASE pid = P.pid
    <3>1. Mine(pid, pos) = Mine(pid, pos - 1) \cup {pos} /\ pos \notin Mine(pid, pos - 1)
      BY <1>1, <2>2 DEF Mine, P, Positions
    <3>2. stats'[pid].count = stats[pid].count + 1
          /\ stats'[pid].minAge = Least(stats[pid].minAge, Age(P))
      BY <1>1, <2>2 DEF Inv, StatsOK
    <3>3. /\ IsFiniteSet(Mine(pid, pos))
          /\ Cardinality(Mine(pid, pos)) = Cardinality(Mine(pid, pos - 1)) + 1
      BY <3>1, FS_AddElement DEF CountsOK
    <3>4. PICK m \in 0 .. MaxAge, a \in 0 .. MaxAge :
            /\ m = stats[pid].minAge /\ a = Age(P) /\ stats'[pid].minAge = Least(m, a)
      BY <1>1, <3>2, Ages DEF Inv, StatsOK, P
    <3>5. Least(m, a) \in {m, a} /\ Least(m, a) <= m /\ Least(m, a) <= a
      BY <3>4, ResponseAssumption DEF Least
    <3>6. ASSUME NEW k \in Mine(pid, pos) PROVE stats'[pid].minAge <= Age(resp.parts[k])
      <4>1. CASE k = pos
        BY <3>4, <3>5, <4>1 DEF P
      <4>2. CASE k \in Mine(pid, pos - 1)
        <5>1. m <= Age(resp.parts[k]) /\ k \in Positions
          BY <3>4, <4>2 DEF CountsOK, Mine
        <5>2. Age(resp.parts[k]) \in 0 .. MaxAge
          BY <5>1, Ages
        <5>3. Least(m, a) \in 0 .. MaxAge
          BY <3>5
        <5>4. QED
          BY <3>4, <3>5, <5>1, <5>2, <5>3, ResponseAssumption
      <4>3. QED
        BY <3>1, <4>1, <4>2
    <3>7. \E k \in Mine(pid, pos) : stats'[pid].minAge = Age(resp.parts[k])
      <4>1. CASE Least(m, a) = a
        BY <3>1, <3>4, <4>1 DEF P
      <4>2. CASE Least(m, a) # a
        <5>1. Least(m, a) = m /\ m # MaxAge
          BY <3>4, <3>5, <4>2, ResponseAssumption DEF Least
        <5>2. QED
          BY <3>1, <3>4, <5>1 DEF CountsOK
      <4>3. QED
        BY <4>1, <4>2
    <3>8. stats[pid].count = Cardinality(Mine(pid, pos - 1))
      BY DEF CountsOK
    <3>9. QED
      BY <3>1, <3>2, <3>3, <3>6, <3>7, <3>8
  <2>3. QED
    BY <2>1, <2>2
<1>5. QED
  BY <1>2, <1>3, <1>4 DEF CountsOK

LEMMA CountsInvariant == Spec => []CountsOK
<1>1. Inv /\ CountsOK /\ [Next]_vars => CountsOK'
  <2> SUFFICES ASSUME Inv, CountsOK, [Next]_vars PROVE CountsOK'
    OBVIOUS
  <2>1. CASE NextPart
    BY <2>1, NextCounts
  <2>2. CASE LastFlush \/ Select \/ UNCHANGED vars
    <3>1. resp' = resp /\ pos' = pos /\ stats' = stats
      BY <2>2 DEF LastFlush, Select, vars
    <3>2. /\ \A k : Age(resp.parts[k])' = Age(resp.parts[k])
          /\ \A pid, n : Mine(pid, n)' = Mine(pid, n)
      BY <3>1 DEF Age, Mine, Positions
    <3>3. QED
      BY <3>1, <3>2 DEF CountsOK
  <2>3. QED
    BY <2>1, <2>2 DEF Next
<1>2. Init => CountsOK
  BY InitCounts
<1>3. QED
  BY <1>1, <1>2, RangesInvariant, PTL DEF Spec

\* Whatever the response holds, the statistics Select judges a partition by are those of
\* all its active parts, the busy ones too.
THEOREM StatsCover == Spec => []StatsCoverPartitions
<1>1. ASSUME Inv, CountsOK, Through, pc # "split", NEW pid \in Partitions
      PROVE  LET mine == {k \in DOMAIN resp.parts : resp.parts[k].pid = pid}
             IN  /\ stats[pid].count = Cardinality(mine)
                 /\ \A k \in mine : stats[pid].minAge <= Age(resp.parts[k])
                 /\ mine # {} => \E k \in mine : stats[pid].minAge = Age(resp.parts[k])
  <2>1. pos - 1 = Len(resp.parts) /\ DOMAIN resp.parts = Positions
    BY <1>1, ResponseTypes DEF Through
  <2>2. {k \in DOMAIN resp.parts : resp.parts[k].pid = pid} = Mine(pid, pos - 1)
    BY <2>1, ResponseTypes DEF Mine, Positions
  <2>3. QED
    BY <1>1, <2>2 DEF CountsOK
<1>2. Inv /\ CountsOK /\ Through => StatsCoverPartitions
  BY <1>1 DEF StatsCoverPartitions
<1>3. QED
  BY <1>2, RangesInvariant, CountsInvariant, ThroughInvariant, PTL

-----------------------------------------------------------------------------
(***************************************************************************)
(* PageDrawing.                                                            *)
(***************************************************************************)
\* The parts of the page, and where they are.
Part(i) == page.parts[i]
Places  == 1 .. Len(page.parts)

\* Of some numbers one is the least.
LEMMA LeastNumber ==
  ASSUME NEW Q \in SUBSET Nat, Q # {}
  PROVE  \E m \in Q : \A n \in Q : m <= n
<1> DEFINE R == OpToRel(<, Nat)
<1>1. IsWellFoundedOn(R, Nat)
  BY NatLessThanWellFounded, Zenon
<1>2. \A m, n \in Nat : m < n => <<m, n>> \in R
  BY DEF OpToRel
<1> HIDE DEF R
<1>3. PICK m \in Q : \A n \in Q : ~(<<n, m>> \in R)
  BY <1>1, WFMin
<1>4. \A n \in Q : ~(n < m)
  BY <1>2, <1>3
<1>5. QED
  BY <1>4

\* The three loops of render over parts, as one; what a loop does is a fold, which is a
\* recursive function on the sets of its steps.
Then(loop, pid, acc, i) ==
  IF loop = "lane" THEN IF Part(i).pid = pid THEN Append(acc, i) ELSE acc
  ELSE IF loop = "total" THEN acc + Part(i).weight
  ELSE Append(acc, <<IF acc = <<>> THEN Drawing!Px(Drawing!Pad)
                     ELSE Drawing!Last(acc)[1] + Drawing!Last(acc)[2] + Drawing!Px(Drawing!Gap),
                     Drawing!Width(i)>>)

IsFold(f, loop, pid, base, list, n) ==
  f = [T \in SUBSET (1 .. n) |->
         IF T = {} THEN base
         ELSE Then(loop, pid, f[T \ {Drawing!Max(T)}], list[Drawing!Max(T)])]

\* Its value after each step.
Stepwise(f, loop, pid, base, list, n) ==
  /\ f[0] = base
  /\ \A m \in 1 .. n : f[m] = Then(loop, pid, f[m - 1], list[m])

\* The greatest of some positions.
LEMMA MaxOfPlaces ==
  ASSUME NEW n \in Nat, NEW T \in SUBSET (1 .. n), T # {}
  PROVE  Drawing!Max(T) \in T /\ \A i \in T : Drawing!Max(T) >= i
<1> DEFINE Bounds == {m \in Nat : \A i \in T : i <= m}
<1>1. n \in Bounds
  OBVIOUS
<1>2. PICK m \in Bounds : \A k \in Bounds : m <= k
  BY <1>1, LeastNumber
<1>3. m \in T
  <2> SUFFICES ASSUME m \notin T PROVE FALSE
    OBVIOUS
  <2>1. PICK i \in T : TRUE
    OBVIOUS
  <2>2. m - 1 \in Nat /\ \A j \in T : j <= m - 1
    BY <2>1
  <2>3. m - 1 \in Bounds
    BY <2>2
  <2>4. QED
    BY <1>2, <2>3
<1>4. \E x \in T : \A y \in T : x >= y
  BY <1>3
<1>5. QED
  BY <1>4 DEF Drawing!Max

\* There is such a function.
LEMMA FoldExists ==
  ASSUME NEW loop, NEW pid, NEW base, NEW list, NEW n \in Nat
  PROVE  \E f : IsFold(f, loop, pid, base, list, n)
<1> DEFINE Lacks == {m \in Nat : ~\E f : IsFold(f, loop, pid, base, list, m)}
<1> SUFFICES ASSUME Lacks # {} PROVE FALSE
  OBVIOUS
<1>1. PICK m \in Lacks : \A k \in Lacks : m <= k
  BY LeastNumber
<1>2. m # 0
  <2>1. IsFold([T \in SUBSET (1 .. 0) |-> base], loop, pid, base, list, 0)
    BY DEF IsFold
  <2>2. QED
    BY <1>1, <2>1
<1>3. PICK g : IsFold(g, loop, pid, base, list, m - 1)
  <2>1. m - 1 \in Nat /\ ~(m <= m - 1)
    BY <1>2
  <2>2. QED
    BY <1>1, <2>1
<1> DEFINE f == [T \in SUBSET (1 .. m) |->
                   IF m \in T THEN Then(loop, pid, g[T \ {m}], list[m]) ELSE g[T]]
<1>4. ASSUME NEW T \in SUBSET (1 .. m)
      PROVE  f[T] = IF T = {} THEN base
                    ELSE Then(loop, pid, f[T \ {Drawing!Max(T)}], list[Drawing!Max(T)])
  <2>1. CASE T = {}
    BY <2>1, <1>3 DEF IsFold
  <2>2. CASE m \in T
    <3>1. Drawing!Max(T) = m
      <4>1. m \in Nat /\ T # {}
        BY <2>2
      <4>2. Drawing!Max(T) \in 1 .. m /\ Drawing!Max(T) >= m
        BY <2>2, <4>1, MaxOfPlaces
      <4>3. QED
        BY <4>1, <4>2
    <3>2. T \ {m} \in SUBSET (1 .. m) /\ m \notin T \ {m}
      OBVIOUS
    <3>3. f[T \ {m}] = g[T \ {m}]
      BY <3>2
    <3>4. f[T] = Then(loop, pid, g[T \ {m}], list[m])
      BY <2>2
    <3>5. QED
      BY <2>2, <3>1, <3>3, <3>4
  <2>3. CASE T # {} /\ m \notin T
    <3>1. T \in SUBSET (1 .. (m - 1))
      BY <2>3
    <3>2. /\ Drawing!Max(T) \in T /\ T \ {Drawing!Max(T)} \in SUBSET (1 .. m)
          /\ m \notin T \ {Drawing!Max(T)}
      BY <2>3, MaxOfPlaces
    <3>3. f[T \ {Drawing!Max(T)}] = g[T \ {Drawing!Max(T)}] /\ f[T] = g[T]
      BY <2>3, <3>2
    <3>4. g[T] = Then(loop, pid, g[T \ {Drawing!Max(T)}], list[Drawing!Max(T)])
      BY <1>3, <2>3, <3>1 DEF IsFold
    <3>5. QED
      BY <2>3, <3>3, <3>4
  <2>4. QED
    BY <2>1, <2>2, <2>3
<1>5. f = [T \in SUBSET (1 .. m) |-> f[T]]
  OBVIOUS
<1> HIDE DEF f
<1>6. IsFold(f, loop, pid, base, list, m)
  BY <1>4, <1>5 DEF IsFold
<1>7. QED
  BY <1>1, <1>6

\* The value after each step.
LEMMA FoldSteps ==
  ASSUME NEW loop, NEW pid, NEW base, NEW list, NEW n \in Nat,
         NEW f, IsFold(f, loop, pid, base, list, n)
  PROVE  \E g : Stepwise(g, loop, pid, base, list, n) /\ g[n] = f[1 .. n]
<1> DEFINE g == [m \in 0 .. n |-> f[1 .. m]]
<1>1. g[0] = base
  <2>1. 1 .. 0 = {} /\ {} \in SUBSET (1 .. n)
    OBVIOUS
  <2>2. f[{}] = base
    BY <2>1 DEF IsFold
  <2>3. QED
    BY <2>1, <2>2
<1>2. ASSUME NEW m \in 1 .. n PROVE g[m] = Then(loop, pid, g[m - 1], list[m])
  <2>1. /\ 1 .. m \in SUBSET (1 .. n) /\ 1 .. m \in SUBSET (1 .. m)
        /\ 1 .. m # {} /\ m \in 1 .. m /\ m \in Nat
    OBVIOUS
  <2>2. Drawing!Max(1 .. m) = m
    <3>1. Drawing!Max(1 .. m) \in 1 .. m /\ Drawing!Max(1 .. m) >= m
      BY <2>1, MaxOfPlaces
    <3>2. QED
      BY <3>1
  <2>3. (1 .. m) \ {m} = 1 .. (m - 1)
    OBVIOUS
  <2>4. f[1 .. m] = Then(loop, pid, f[1 .. (m - 1)], list[m])
    BY <2>1, <2>2, <2>3 DEF IsFold
  <2>5. g[m] = f[1 .. m] /\ g[m - 1] = f[1 .. (m - 1)]
    OBVIOUS
  <2>6. QED
    BY <2>4, <2>5
<1>3. g[n] = f[1 .. n]
  OBVIOUS
<1> HIDE DEF g
<1>4. QED
  BY <1>1, <1>2, <1>3 DEF Stepwise

\* The parts of a partition, as they are picked from the list.
LEMMA FoldLane ==
  ASSUME NEW pid, NEW n \in Nat, DOMAIN page.parts = 1 .. n
  PROVE  \E g : /\ Stepwise(g, "lane", pid, <<>>, [i \in 1 .. n |-> i], n)
                /\ Drawing!LaneOf(pid) = g[n]
<1> DEFINE list == [i \in DOMAIN page.parts |-> i]
           IsList(f) == f = [T \in SUBSET DOMAIN list |->
              IF T = {} THEN <<>>
              ELSE IF Part(list[Drawing!Max(T)]).pid = pid
                   THEN Append(f[T \ {Drawing!Max(T)}], list[Drawing!Max(T)])
                   ELSE f[T \ {Drawing!Max(T)}]]
<1>1. Drawing!LaneOf(pid) = (CHOOSE f : IsList(f))[DOMAIN list]
  BY DEF Drawing!LaneOf, Drawing!FoldLeftDomain, Drawing!FoldLeft, Drawing!MapThenFoldSet,
         Drawing!Max, Drawing!P, Part
<1>0. DOMAIN list = 1 .. n /\ list = [i \in 1 .. n |-> i]
  OBVIOUS
<1>2. \A f : IsList(f) <=> IsFold(f, "lane", pid, <<>>, list, n)
  BY <1>0 DEF IsFold, Then
<1>3. \E f : IsList(f)
  BY <1>2, FoldExists
<1> HIDE DEF IsList, list
<1>4. PICK f : f = CHOOSE g : IsList(g)
  OBVIOUS
<1>5. IsFold(f, "lane", pid, <<>>, list, n)
  BY <1>2, <1>3, <1>4
<1>6. PICK g : Stepwise(g, "lane", pid, <<>>, list, n) /\ g[n] = f[1 .. n]
  BY <1>5, FoldSteps
<1>7. Drawing!LaneOf(pid) = g[n]
  BY <1>0, <1>1, <1>4, <1>6
<1>8. QED
  BY <1>0, <1>6, <1>7

\* The sum of the weights of a lane.
LEMMA FoldTotal ==
  ASSUME NEW l, NEW n \in Nat, DOMAIN l = 1 .. n
  PROVE  \E g : Stepwise(g, "total", 0, 0, l, n) /\ Drawing!Total(l) = g[n]
<1> DEFINE IsList(f) == f = [T \in SUBSET DOMAIN l |->
              IF T = {} THEN 0
              ELSE f[T \ {Drawing!Max(T)}] + Part(l[Drawing!Max(T)]).weight]
<1>1. Drawing!Total(l) = (CHOOSE f : IsList(f))[DOMAIN l]
  BY DEF Drawing!Total, Drawing!FoldLeft, Drawing!MapThenFoldSet, Drawing!Max, Drawing!P, Part
<1>2. \A f : IsList(f) <=> IsFold(f, "total", 0, 0, l, n)
  BY DEF IsFold, Then
<1>3. \E f : IsList(f)
  BY <1>2, FoldExists
<1> HIDE DEF IsList
<1>4. PICK f : f = CHOOSE g : IsList(g)
  OBVIOUS
<1>5. IsFold(f, "total", 0, 0, l, n)
  BY <1>2, <1>3, <1>4
<1>6. PICK g : Stepwise(g, "total", 0, 0, l, n) /\ g[n] = f[1 .. n]
  BY <1>5, FoldSteps
<1>7. Drawing!Total(l) = g[n]
  BY <1>1, <1>4, <1>6
<1>8. QED
  BY <1>6, <1>7

\* The bars of a lane.
LEMMA FoldBars ==
  ASSUME NEW l, NEW n \in Nat, DOMAIN l = 1 .. n
  PROVE  \E g : Stepwise(g, "bars", 0, <<>>, l, n) /\ Drawing!Bars(l) = g[n]
<1> DEFINE IsList(f) == f = [T \in SUBSET DOMAIN l |->
              IF T = {} THEN <<>>
              ELSE Append(f[T \ {Drawing!Max(T)}],
                     <<IF f[T \ {Drawing!Max(T)}] = <<>> THEN Drawing!Px(Drawing!Pad)
                       ELSE Drawing!Last(f[T \ {Drawing!Max(T)}])[1]
                            + Drawing!Last(f[T \ {Drawing!Max(T)}])[2] + Drawing!Px(Drawing!Gap),
                       Drawing!Width(l[Drawing!Max(T)])>>)]
<1>1. Drawing!Bars(l) = (CHOOSE f : IsList(f))[DOMAIN l]
  BY DEF Drawing!Bars, Drawing!FoldLeft, Drawing!MapThenFoldSet, Drawing!Max
<1>2. \A f : IsList(f) <=> IsFold(f, "bars", 0, <<>>, l, n)
  BY DEF IsFold, Then
<1>3. \E f : IsList(f)
  BY <1>2, FoldExists
<1> HIDE DEF IsList
<1>4. PICK f : f = CHOOSE g : IsList(g)
  OBVIOUS
<1>5. IsFold(f, "bars", 0, <<>>, l, n)
  BY <1>2, <1>3, <1>4
<1>6. PICK g : Stepwise(g, "bars", 0, <<>>, l, n) /\ g[n] = f[1 .. n]
  BY <1>5, FoldSteps
<1>7. Drawing!Bars(l) = g[n]
  BY <1>1, <1>4, <1>6
<1>8. QED
  BY <1>6, <1>7

-----------------------------------------------------------------------------
\* What DrawingAssumption says of the page at hand.
LEMMA PageTypes ==
  ASSUME page \in Pages
  PROVE  /\ Len(page.parts) \in Nat /\ DOMAIN page.parts = Places
         /\ \A i \in Places : /\ Part(i).weight \in Nat /\ Part(i).min \in Nat
                              /\ Part(i).max \in Nat /\ Part(i).min <= Part(i).max
         /\ \A i, j \in Places :
              i < j /\ Part(i).pid = Part(j).pid => Part(i).max < Part(j).min
  BY DrawingAssumption DEF Part, Places

\* The greater of two numbers.
Greater(a, b) == IF a >= b THEN a ELSE b

LEMMA MaxOfTwo ==
  ASSUME NEW a \in Int, NEW b \in Int
  PROVE  Drawing!Max({a, b}) = Greater(a, b)
<1>1. \E x \in {a, b} : \A y \in {a, b} : x >= y
  OBVIOUS
<1>2. Drawing!Max({a, b}) \in {a, b} /\ \A y \in {a, b} : Drawing!Max({a, b}) >= y
  BY <1>1 DEF Drawing!Max
<1>3. QED
  BY <1>2 DEF Greater

\* A lane holds parts of one partition in the order of the page.
Orderly(l, pid) ==
  /\ l \in Seq(Places)
  /\ \A k \in 1 .. Len(l) : Part(l[k]).pid = pid
  /\ \A j, k \in 1 .. Len(l) : j < k => l[j] < l[k]

LEMMA LaneIsOrderly ==
  ASSUME page \in Pages, NEW pid
  PROVE  Orderly(Drawing!LaneOf(pid), pid)
<1> DEFINE n == Len(page.parts)
           Upto(l, m) == Orderly(l, pid) /\ \A k \in 1 .. Len(l) : l[k] <= m
<1>1. n \in Nat /\ DOMAIN page.parts = 1 .. n /\ Places = 1 .. n
  BY PageTypes DEF Places
<1> DEFINE list == [i \in 1 .. n |-> i]
<1>2. PICK g : Stepwise(g, "lane", pid, <<>>, list, n) /\ Drawing!LaneOf(pid) = g[n]
  BY <1>1, FoldLane
<1>3. \A m \in 1 .. n : list[m] = m
  OBVIOUS
<1> HIDE DEF n, list
<1>4. ASSUME NEW m \in 1 .. n, Upto(g[m - 1], m - 1) PROVE Upto(g[m], m)
  <2>1. g[m] = IF Part(m).pid = pid THEN Append(g[m - 1], m) ELSE g[m - 1]
    BY <1>2, <1>3 DEF Stepwise, Then
  <2> DEFINE l == g[m - 1]
  <2>2. /\ l \in Seq(Places) /\ Len(l) \in Nat /\ m \in Places
        /\ \A k \in 1 .. Len(l) : l[k] \in Int /\ l[k] <= m - 1 /\ Part(l[k]).pid = pid
        /\ \A j, k \in 1 .. Len(l) : j < k => l[j] < l[k]
    BY <1>1, <1>4 DEF Orderly
  <2> HIDE DEF l
  <2>3. CASE Part(m).pid = pid
    <3> DEFINE a == Append(l, m)
    <3>1. a \in Seq(Places) /\ Len(a) = Len(l) + 1 /\ a[Len(l) + 1] = m
          /\ \A k \in 1 .. Len(l) : a[k] = l[k]
      BY <2>2
    <3> HIDE DEF a
    <3>2. \A k \in 1 .. Len(a) : k \in 1 .. Len(l) \/ k = Len(l) + 1
      BY <2>2, <3>1
    <3>3. ASSUME NEW k \in 1 .. Len(a) PROVE a[k] <= m /\ Part(a[k]).pid = pid
      <4>1. CASE k = Len(l) + 1
        BY <1>1, <2>3, <3>1, <4>1
      <4>2. CASE k \in 1 .. Len(l)
        <5>1. a[k] = l[k] /\ l[k] \in Int /\ l[k] <= m - 1 /\ Part(l[k]).pid = pid
          BY <2>2, <3>1, <4>2
        <5>2. QED
          BY <1>1, <5>1
      <4>3. QED
        BY <3>2, <4>1, <4>2
    <3>4. ASSUME NEW j \in 1 .. Len(a), NEW k \in 1 .. Len(a), j < k PROVE a[j] < a[k]
      <4>1. j \in 1 .. Len(l)
        BY <2>2, <3>1, <3>4
      <4>2. a[j] = l[j] /\ l[j] \in Int /\ l[j] <= m - 1
        BY <2>2, <3>1, <4>1
      <4>3. CASE k = Len(l) + 1
        BY <1>1, <3>1, <4>2, <4>3
      <4>4. CASE k \in 1 .. Len(l)
        BY <2>2, <3>1, <3>4, <4>1, <4>2, <4>4
      <4>5. QED
        BY <3>2, <4>3, <4>4
    <3>5. g[m] = a
      BY <2>1, <2>3 DEF a, l
    <3>6. QED
      BY <3>1, <3>3, <3>4, <3>5 DEF Orderly
  <2>4. CASE Part(m).pid # pid
    <3>1. g[m] = l
      BY <2>1, <2>4 DEF l
    <3>2. \A k \in 1 .. Len(l) : l[k] <= m
      BY <1>1, <2>2
    <3>3. QED
      BY <2>2, <3>1, <3>2 DEF Orderly
  <2>5. QED
    BY <2>3, <2>4
<1>5. Upto(g[0], 0)
  BY <1>2 DEF Stepwise, Orderly
<1> HIDE DEF Upto
<1>6. Upto(g[n], n)
  <2> SUFFICES ASSUME ~Upto(g[n], n) PROVE FALSE
    OBVIOUS
  <2> DEFINE Q == {m \in 0 .. n : ~Upto(g[m], m)}
  <2>1. Q \in SUBSET Nat /\ Q # {}
    BY <1>1
  <2>2. PICK m \in Q : \A k \in Q : m <= k
    BY <2>1, LeastNumber
  <2>3. m # 0 /\ m \in 1 .. n
    BY <1>1, <1>5, <2>2
  <2>4. m - 1 \in 0 .. n /\ ~(m <= m - 1)
    BY <1>1, <2>3
  <2>5. QED
    BY <1>4, <2>2, <2>3, <2>4
<1>7. QED
  BY <1>2, <1>6 DEF Upto

\* The weight of the parts of a lane up to each.
IsSum(f, l) ==
  /\ f \in [0 .. Len(l) -> Nat] /\ f[0] = 0
  /\ \A k \in 1 .. Len(l) : f[k] = f[k - 1] + Part(l[k]).weight

LEMMA TotalIsSum ==
  ASSUME page \in Pages, NEW l \in Seq(Places)
  PROVE  \E f : IsSum(f, l) /\ Drawing!Total(l) = f[Len(l)]
<1> DEFINE n == Len(l)
<1>1. n \in Nat /\ DOMAIN l = 1 .. n /\ \A k \in 1 .. n : Part(l[k]).weight \in Nat
  BY PageTypes
<1>2. PICK g : Stepwise(g, "total", 0, 0, l, n) /\ Drawing!Total(l) = g[n]
  BY <1>1, FoldTotal
<1> HIDE DEF n
<1>3. \A m \in 1 .. n : g[m] = g[m - 1] + Part(l[m]).weight
  BY <1>2 DEF Stepwise, Then
<1>4. g[0] = 0
  BY <1>2 DEF Stepwise
<1>5. \A m \in 0 .. n : g[m] \in Nat
  <2> SUFFICES ASSUME ~\A m \in 0 .. n : g[m] \in Nat PROVE FALSE
    OBVIOUS
  <2> DEFINE Q == {m \in 0 .. n : ~(g[m] \in Nat)}
  <2>1. Q \in SUBSET Nat /\ Q # {}
    BY <1>1
  <2>2. PICK m \in Q : \A k \in Q : m <= k
    BY <2>1, LeastNumber
  <2>3. m # 0 /\ m \in 1 .. n
    BY <1>1, <1>4, <2>2
  <2>4. m - 1 \in 0 .. n /\ ~(m <= m - 1)
    BY <1>1, <2>3
  <2>5. g[m - 1] \in Nat /\ g[m] \notin Nat
    BY <2>2, <2>4
  <2>6. g[m] = g[m - 1] + Part(l[m]).weight /\ Part(l[m]).weight \in Nat
    BY <1>1, <1>3, <2>3
  <2>7. QED
    BY <2>5, <2>6
<1> DEFINE f == [m \in 0 .. n |-> g[m]]
<1>6. f \in [0 .. n -> Nat] /\ f[0] = 0 /\ f[n] = g[n]
  BY <1>1, <1>4, <1>5
<1>7. ASSUME NEW k \in 1 .. n PROVE f[k] = f[k - 1] + Part(l[k]).weight
  <2>1. k \in 0 .. n /\ k - 1 \in 0 .. n
    BY <1>1
  <2>2. QED
    BY <1>3, <2>1
<1> HIDE DEF f
<1>8. QED
  BY <1>2, <1>6, <1>7 DEF IsSum, n

\* How wide a bar is, and bars side by side.
Wide(i) == Greater(2 * scale[2], Part(i).weight * scale[1])
ScaleOK == scale \in Nat \X (Nat \ {0})

AreBars(b, l) ==
  /\ b \in Seq(Nat \X Nat) /\ Len(b) = Len(l)
  /\ Len(l) > 0 => b[1][1] = 4 * scale[2]
  /\ \A k \in 1 .. Len(l) : b[k][2] = Wide(l[k])
  /\ \A k \in 1 .. Len(l) : k > 1 => b[k][1] = b[k - 1][1] + b[k - 1][2] + 2 * scale[2]

LEMMA WidthIsWide ==
  ASSUME page \in Pages, ScaleOK, NEW i \in Places
  PROVE  Drawing!Width(i) = Wide(i) /\ Wide(i) \in Nat /\ Wide(i) >= 2 * scale[2]
<1>1. scale[2] \in Nat /\ scale[1] \in Nat /\ Part(i).weight \in Nat
  BY PageTypes DEF ScaleOK
<1>2. 2 * scale[2] \in Nat /\ Part(i).weight * scale[1] \in Nat
  BY <1>1
<1>3. Drawing!Width(i) = Greater(2 * scale[2], Part(i).weight * scale[1])
  BY <1>2, MaxOfTwo DEF Drawing!Width, Drawing!Px, Drawing!MinW, Drawing!P, Part
<1>4. QED
  BY <1>2, <1>3 DEF Wide, Greater

LEMMA BarsAreBars ==
  ASSUME page \in Pages, ScaleOK, NEW l \in Seq(Places)
  PROVE  AreBars(Drawing!Bars(l), l)
<1> DEFINE n == Len(l)
           D == scale[2]
<1>1. /\ n \in Nat /\ DOMAIN l = 1 .. n /\ D \in Nat
      /\ \A k \in 1 .. n : Drawing!Width(l[k]) = Wide(l[k]) /\ Wide(l[k]) \in Nat
  BY WidthIsWide DEF ScaleOK
<1>2. PICK g : Stepwise(g, "bars", 0, <<>>, l, n) /\ Drawing!Bars(l) = g[n]
  BY <1>1, FoldBars
<1> DEFINE Upto(b, m) ==
      /\ b \in Seq(Nat \X Nat) /\ Len(b) = m
      /\ m > 0 => b[1][1] = 4 * D
      /\ \A k \in 1 .. m : b[k][2] = Wide(l[k])
      /\ \A k \in 1 .. m : k > 1 => b[k][1] = b[k - 1][1] + b[k - 1][2] + 2 * D
<1> HIDE DEF n
<1>3. ASSUME NEW m \in 1 .. n, Upto(g[m - 1], m - 1) PROVE Upto(g[m], m)
  <2> DEFINE b == g[m - 1]
             x == IF b = <<>> THEN 4 * D ELSE b[Len(b)][1] + b[Len(b)][2] + 2 * D
             w == Wide(l[m])
  <2>1. g[m] = Append(b, <<x, w>>)
    BY <1>1, <1>2 DEF Stepwise, Then, Drawing!Px, Drawing!Pad, Drawing!Gap, Drawing!Last
  <2>2. b \in Seq(Nat \X Nat) /\ Len(b) = m - 1 /\ w \in Nat
    BY <1>1, <1>3
  <2>3. /\ m = 1 => b = <<>>
        /\ m > 1 => b # <<>> /\ m - 1 \in 1 .. Len(b) /\ b[m - 1] \in Nat \X Nat
    BY <1>1, <2>2
  <2>4. /\ x \in Nat
        /\ m = 1 => x = 4 * D
        /\ m > 1 => x = b[m - 1][1] + b[m - 1][2] + 2 * D
    <3>1. CASE m = 1
      BY <1>1, <2>3, <3>1
    <3>2. CASE m > 1
      <4>1. b[m - 1][1] \in Nat /\ b[m - 1][2] \in Nat
        BY <2>3, <3>2
      <4>2. x = b[m - 1][1] + b[m - 1][2] + 2 * D
        BY <2>2, <2>3, <3>2
      <4>3. \A p, q, d \in Nat : p + q + 2 * d \in Nat
        OBVIOUS
      <4>4. b[m - 1][1] + b[m - 1][2] + 2 * D \in Nat
        <5>1. D \in Nat
          BY <1>1
        <5> HIDE DEF D, b
        <5>2. QED
          BY <4>1, <4>3, <5>1
      <4> HIDE DEF x, b
      <4>5. x \in Nat
        BY <4>2, <4>4
      <4>6. QED
        BY <1>1, <3>2, <4>2, <4>5
    <3>3. QED
      BY <1>1, <3>1, <3>2
  <2>5. /\ \A k \in 1 .. m - 1 : b[k][2] = Wide(l[k])
        /\ \A k \in 1 .. m - 1 : k > 1 => b[k][1] = b[k - 1][1] + b[k - 1][2] + 2 * D
        /\ m > 1 => b[1][1] = 4 * D
    BY <1>1, <1>3
  <2> HIDE DEF b, x, w
  <2>6. x \in Nat
    BY <1>1, <2>4
  <2> DEFINE a == Append(b, <<x, w>>)
  <2>7. /\ a \in Seq(Nat \X Nat) /\ Len(a) = m /\ a[m] = <<x, w>>
        /\ \A k \in 1 .. m - 1 : a[k] = b[k]
    BY <1>1, <2>2, <2>6
  <2> HIDE DEF a
  <2>8. \A k \in 1 .. m : k = m \/ k \in 1 .. m - 1
    BY <1>1
  <2>9. m > 0 => a[1][1] = 4 * D
    <3>1. CASE m = 1
      BY <2>4, <2>7, <3>1
    <3>2. CASE m > 1
      <4>1. 1 \in 1 .. m - 1
        BY <1>1, <3>2
      <4>2. QED
        BY <2>5, <2>7, <3>2, <4>1
    <3>3. QED
      BY <1>1, <3>1, <3>2
  <2>10. \A k \in 1 .. m : a[k][2] = Wide(l[k])
    <3>1. a[m][2] = Wide(l[m])
      BY <2>7 DEF w
    <3>2. \A k \in 1 .. m - 1 : a[k][2] = Wide(l[k])
      BY <2>5, <2>7
    <3>3. QED
      BY <2>8, <3>1, <3>2
  <2>11. ASSUME NEW k \in 1 .. m, k > 1 PROVE a[k][1] = a[k - 1][1] + a[k - 1][2] + 2 * D
    <3>1. k - 1 \in 1 .. m - 1
      BY <1>1, <2>11
    <3>2. CASE k = m
      BY <2>4, <2>7, <2>11, <3>1, <3>2
    <3>3. CASE k \in 1 .. m - 1
      BY <2>5, <2>7, <2>11, <3>1, <3>3
    <3>4. QED
      BY <2>8, <3>2, <3>3
  <2>12. g[m] = a
    BY <2>1 DEF a
  <2>13. QED
    BY <2>7, <2>9, <2>10, <2>11, <2>12
<1>4. Upto(g[0], 0)
  BY <1>2 DEF Stepwise
<1> HIDE DEF Upto
<1>5. Upto(g[n], n)
  <2> SUFFICES ASSUME ~Upto(g[n], n) PROVE FALSE
    OBVIOUS
  <2> DEFINE Q == {m \in 0 .. n : ~Upto(g[m], m)}
  <2>1. Q \in SUBSET Nat /\ Q # {}
    BY <1>1
  <2>2. PICK m \in Q : \A k \in Q : m <= k
    BY <2>1, LeastNumber
  <2>3. m # 0 /\ m \in 1 .. n
    BY <1>1, <1>4, <2>2
  <2>4. m - 1 \in 0 .. n /\ ~(m <= m - 1)
    BY <1>1, <2>3
  <2>5. QED
    BY <1>3, <2>2, <2>3, <2>4
<1>6. QED
  BY <1>2, <1>5 DEF Upto, AreBars, n

-----------------------------------------------------------------------------
\* Products of numbers of either side.
LEMMA Times ==
  ASSUME NEW a \in Int, NEW b \in Int, NEW c \in Nat, a <= b
  PROVE  a * c \in Int /\ b * c \in Int /\ a * c <= b * c
<1>1. (b - a) * c >= 0
  BY b - a \in Nat
<1>2. (b - a) * c = b * c - a * c
  OBVIOUS
<1>3. QED
  BY <1>1, <1>2

\* And the other way round.
LEMMA Cancel ==
  ASSUME NEW a \in Int, NEW b \in Int, NEW c \in Nat \ {0}, a * c <= b * c
  PROVE  a <= b
<1> SUFFICES ASSUME a >= b + 1 PROVE FALSE
  OBVIOUS
<1>1. (b + 1) * c <= a * c
  BY Times
<1>2. (b + 1) * c = b * c + c
  OBVIOUS
<1>3. QED
  BY <1>1, <1>2

\* Of quotients, the least is no greater than what another is no greater than.
LEMMA LesserRatio ==
  ASSUME NEW rx \in Nat, NEW ry \in Nat, NEW rz \in Nat,
         NEW tx \in Nat \ {0}, NEW ty \in Nat \ {0}, NEW tz \in Nat \ {0},
         rx * ty <= ry * tx, ry * tz <= rz * ty
  PROVE  rx * tz <= rz * tx
<1>1. /\ rx * ty \in Int /\ ry * tx \in Int /\ ry * tz \in Int /\ rz * ty \in Int
      /\ rx * tz \in Int /\ rz * tx \in Int
  OBVIOUS
<1>2. (rx * ty) * tz <= (ry * tx) * tz /\ (ry * tz) * tx <= (rz * ty) * tx
  BY <1>1, Times
<1>3. /\ (rx * ty) * tz = (rx * tz) * ty /\ (ry * tx) * tz = (ry * tz) * tx
      /\ (rz * ty) * tx = (rz * tx) * ty
  OBVIOUS
<1>4. (rx * tz) * ty <= (rz * tx) * ty
  <2> DEFINE p == (rx * tz) * ty
             q == (ry * tz) * tx
             r == (rz * tx) * ty
  <2>1. p \in Int /\ q \in Int /\ r \in Int
    OBVIOUS
  <2>2. p <= q /\ q <= r
    BY <1>2, <1>3
  <2> HIDE DEF p, q, r
  <2>3. p <= r
    BY <2>1, <2>2
  <2>4. QED
    BY <2>3 DEF p, r
<1>5. QED
  BY <1>1, <1>4, Cancel

\* Finitely many quotients have a least.
LEMMA LeastRatio ==
  ASSUME NEW S, IsFiniteSet(S), S # {}, NEW r \in [S -> Nat], NEW t \in [S -> Nat \ {0}]
  PROVE  \E x \in S : \A y \in S : r[x] * t[y] <= r[y] * t[x]
<1> DEFINE HasLeast(T) == \E x \in T : \A y \in T : r[x] * t[y] <= r[y] * t[x]
           Lacks == {c \in Nat : \E T \in SUBSET S : T # {} /\ Cardinality(T) = c /\ ~HasLeast(T)}
<1>1. \A T \in SUBSET S : IsFiniteSet(T) /\ Cardinality(T) \in Nat
  BY FS_Subset, FS_CardinalityType
<1> SUFFICES ASSUME ~HasLeast(S) PROVE FALSE
  OBVIOUS
<1>2. Lacks # {} /\ Lacks \in SUBSET Nat
  <2>1. Cardinality(S) \in Lacks
    <3>1. S \in SUBSET S /\ Cardinality(S) \in Nat
      BY <1>1
    <3> HIDE DEF HasLeast
    <3>2. QED
      BY <3>1
  <2>2. QED
    BY <2>1
<1>3. PICK c \in Lacks : \A d \in Lacks : c <= d
  BY <1>2, LeastNumber
<1>4. PICK T \in SUBSET S : T # {} /\ Cardinality(T) = c /\ ~HasLeast(T)
  BY <1>3
<1>5. PICK x \in T : TRUE
  BY <1>4
<1>6. IsFiniteSet(T) /\ Cardinality(T \ {x}) = c - 1 /\ c \in Nat /\ Cardinality(T \ {x}) \in Nat
  BY <1>1, <1>3, <1>4, <1>5, FS_RemoveElement
<1>7. T # {x}
  <2> SUFFICES ASSUME T = {x} PROVE FALSE
    OBVIOUS
  <2>1. r[x] * t[x] <= r[x] * t[x]
    BY <1>5
  <2>2. \A y \in T : y = x
    OBVIOUS
  <2>3. HasLeast(T)
    BY <1>5, <2>1, <2>2
  <2>4. QED
    BY <1>4, <2>3
<1>8. HasLeast(T \ {x})
  <2>1. T \ {x} \in SUBSET S /\ T \ {x} # {} /\ ~(c <= c - 1)
    BY <1>5, <1>6, <1>7
  <2>2. c - 1 \notin Lacks
    BY <1>3, <1>6, <2>1
  <2> HIDE DEF HasLeast
  <2>3. QED
    BY <1>6, <2>1, <2>2
<1>9. PICK y \in T \ {x} : \A z \in T \ {x} : r[y] * t[z] <= r[z] * t[y]
  BY <1>8
<1>10. /\ \A z \in T : r[z] \in Nat /\ t[z] \in Nat \ {0}
       /\ y \in T /\ r[x] * t[y] \in Int /\ r[y] * t[x] \in Int
  BY <1>4, <1>5, <1>9
<1>11. CASE r[x] * t[y] <= r[y] * t[x]
  <2>1. ASSUME NEW z \in T PROVE r[x] * t[z] <= r[z] * t[x]
    <3>1. CASE z = x
      BY <1>10, <3>1
    <3>2. CASE z # x
      <4>1. r[y] * t[z] <= r[z] * t[y]
        BY <1>9, <3>2
      <4>2. QED
        BY <1>5, <1>10, <1>11, <4>1, LesserRatio
    <3>3. QED
      BY <3>1, <3>2
  <2>2. QED
    BY <1>4, <1>5, <2>1
<1>12. CASE r[y] * t[x] <= r[x] * t[y]
  <2>1. \A z \in T : r[y] * t[z] <= r[z] * t[y]
    BY <1>9, <1>12
  <2>2. QED
    BY <1>4, <1>10, <2>1
<1>13. QED
  BY <1>10, <1>11, <1>12

\* The room for the sizes of the parts of a lane, and whether they fit.
RoomOf(l) == Greater(Avail - 2 * (Len(l) - 1) - 2 * Len(l), Avail \div 10)
Fits(l)   == \E f : IsSum(f, l) /\ scale[1] * f[Len(l)] <= RoomOf(l) * scale[2]

LEMMA RoomIs ==
  ASSUME NEW l, Len(l) \in Nat
  PROVE  Drawing!Room(l) = RoomOf(l) /\ RoomOf(l) \in Nat
<1>1. Avail - 2 * (Len(l) - 1) - 2 * Len(l) \in Int /\ Avail \div 10 \in Nat
  BY DrawingAssumption
<1>2. Drawing!Room(l) = RoomOf(l)
  BY <1>1, MaxOfTwo DEF Drawing!Room, RoomOf, Drawing!Gap, Drawing!MinW
<1>3. QED
  BY <1>1, <1>2 DEF RoomOf, Greater

\* One scale does for every lane.
LEMMA ScaleFits ==
  ASSUME page \in Pages, shown \in Shown, scale = Drawing!Scale
  PROVE  ScaleOK /\ \A l \in Drawing!Lanes : Fits(l)
<1> DEFINE Lane(pid) == Drawing!LaneOf(pid)
           Heavy == {l \in Drawing!Lanes : Drawing!Total(l) > 0}
           Pids  == {pid \in shown : Drawing!Total(Lane(pid)) > 0}
           Tightest(l) == \A k \in Heavy : Drawing!Room(l) * Drawing!Total(k)
                                          <= Drawing!Room(k) * Drawing!Total(l)
<1>1. \A l \in Drawing!Lanes : \E pid \in shown : l = Lane(pid)
  BY DEF Drawing!Lanes
<1>2. \A pid \in shown : Lane(pid) \in Seq(Places)
  BY LaneIsOrderly DEF Orderly
<1> HIDE DEF Lane
<1>3. ASSUME NEW l, l \in Seq(Places)
      PROVE  /\ Drawing!Total(l) \in Nat /\ Drawing!Room(l) \in Nat
             /\ Drawing!Room(l) = RoomOf(l)
             /\ \E f : IsSum(f, l) /\ Drawing!Total(l) = f[Len(l)]
  <2>1. PICK f : IsSum(f, l) /\ Drawing!Total(l) = f[Len(l)]
    BY <1>3, TotalIsSum
  <2>2. Len(l) \in Nat
    BY <1>3
  <2>3. f[Len(l)] \in Nat
    BY <2>1, <2>2 DEF IsSum
  <2>4. QED
    BY <2>1, <2>2, <2>3, RoomIs
<1>4. CASE Heavy = {}
  <2>1. scale = <<1, 1>>
    BY <1>4 DEF Drawing!Scale
  <2>2. ASSUME NEW l \in Drawing!Lanes PROVE Fits(l)
    <3>1. l \in Seq(Places)
      BY <1>1, <1>2
    <3>2. PICK f : IsSum(f, l) /\ Drawing!Total(l) = f[Len(l)]
      BY <1>3, <3>1
    <3>3. Drawing!Total(l) = 0 /\ RoomOf(l) \in Nat
      BY <1>3, <1>4, <3>1
    <3>4. scale[1] * f[Len(l)] <= RoomOf(l) * scale[2]
      BY <2>1, <3>2, <3>3
    <3>5. QED
      BY <3>2, <3>4 DEF Fits
  <2>3. QED
    BY <2>1, <2>2 DEF ScaleOK
<1>5. CASE Heavy # {}
  <2>1. \E l \in Heavy : Tightest(l)
    <3> DEFINE r == [pid \in Pids |-> Drawing!Room(Lane(pid))]
               t == [pid \in Pids |-> Drawing!Total(Lane(pid))]
    <3>1. IsFiniteSet(Pids)
      <4>1. IsFiniteSet(shown) /\ Pids \in SUBSET shown
        BY DrawingAssumption
      <4> HIDE DEF Pids
      <4>2. QED
        BY <4>1, FS_Subset
    <3>2. \A l \in Heavy : \E pid \in Pids : l = Lane(pid)
      BY <1>1
    <3>3. Pids # {}
      BY <1>5, <3>2
    <3>4. r \in [Pids -> Nat] /\ t \in [Pids -> Nat \ {0}]
      <4>1. \A pid \in Pids : /\ Drawing!Room(Lane(pid)) \in Nat
                              /\ Drawing!Total(Lane(pid)) \in Nat \ {0}
        BY <1>2, <1>3
      <4>2. QED
        BY <4>1
    <3>5. \A pid \in Pids : Lane(pid) \in Heavy
      <4> SUFFICES ASSUME NEW pid \in Pids PROVE Lane(pid) \in Heavy
        OBVIOUS
      <4>1. Lane(pid) # <<>>
        <5> SUFFICES ASSUME Lane(pid) = <<>> PROVE FALSE
          OBVIOUS
        <5>1. <<>> \in Seq(Places) /\ Len(<<>>) = 0
          OBVIOUS
        <5>2. PICK f : IsSum(f, <<>>) /\ Drawing!Total(<<>>) = f[Len(<<>>)]
          BY <1>3, <5>1
        <5>3. Drawing!Total(<<>>) = 0
          BY <5>1, <5>2 DEF IsSum
        <5>4. QED
          BY <5>3
      <4>2. Lane(pid) \in Drawing!Lanes
        BY <4>1 DEF Drawing!Lanes, Lane
      <4>3. QED
        BY <4>2
    <3> HIDE DEF Pids
    <3>6. PICK x \in Pids : \A y \in Pids : r[x] * t[y] <= r[y] * t[x]
      <4> HIDE DEF r, t
      <4>1. QED
        BY <3>1, <3>3, <3>4, LeastRatio
    <3>7. \A y \in Pids : Drawing!Room(Lane(x)) * Drawing!Total(Lane(y))
                            <= Drawing!Room(Lane(y)) * Drawing!Total(Lane(x))
      BY <3>6
    <3>8. Tightest(Lane(x))
      BY <3>2, <3>7
    <3>9. QED
      BY <3>5, <3>8
  <2>2. PICK l \in Heavy : Tightest(l) /\ scale = <<Drawing!Room(l), Drawing!Total(l)>>
    <3> DEFINE c == CHOOSE l \in Heavy : Tightest(l)
    <3>1. c \in Heavy /\ Tightest(c)
      BY <2>1
    <3>2. scale = <<Drawing!Room(c), Drawing!Total(c)>>
      BY <1>5 DEF Drawing!Scale
    <3>3. QED
      BY <3>1, <3>2
  <2>3. l \in Seq(Places) /\ Drawing!Total(l) \in Nat \ {0} /\ Drawing!Room(l) \in Nat
    BY <1>1, <1>2, <1>3
  <2>4. ASSUME NEW k \in Drawing!Lanes PROVE Fits(k)
    <3>1. k \in Seq(Places)
      BY <1>1, <1>2
    <3>2. PICK f : IsSum(f, k) /\ Drawing!Total(k) = f[Len(k)]
      BY <1>3, <3>1
    <3>3. Drawing!Total(k) \in Nat /\ RoomOf(k) \in Nat /\ Drawing!Room(k) = RoomOf(k)
      BY <1>3, <3>1
    <3>4. Drawing!Room(l) * Drawing!Total(k) <= Drawing!Room(k) * Drawing!Total(l)
      <4>1. CASE Drawing!Total(k) > 0
        <5>1. k \in Heavy
          BY <4>1
        <5>2. QED
          BY <2>2, <5>1
      <4>2. CASE Drawing!Total(k) = 0
        <5>1. \A a, b, c \in Nat : a * 0 <= b * c
          OBVIOUS
        <5>2. QED
          BY <2>3, <3>3, <4>2, <5>1
      <4>3. QED
        BY <3>3, <4>1, <4>2
    <3>5. scale[1] * f[Len(k)] <= RoomOf(k) * scale[2]
      BY <2>2, <3>2, <3>3, <3>4
    <3>6. QED
      BY <3>2, <3>5 DEF Fits
  <2>5. QED
    BY <2>2, <2>3, <2>4 DEF ScaleOK
<1>6. QED
  BY <1>4, <1>5

-----------------------------------------------------------------------------
\* The numbers a row of bars is made of.
LEMMA BarTypes ==
  ASSUME page \in Pages, ScaleOK, NEW l \in Seq(Places), NEW b, AreBars(b, l)
  PROVE  /\ Len(l) \in Nat /\ scale[2] \in Nat \ {0} /\ scale[1] \in Nat
         /\ \A k \in 1 .. Len(l) : /\ b[k][1] \in Nat /\ b[k][2] \in Nat
                                   /\ b[k][2] = Wide(l[k]) /\ b[k][2] >= 2 * scale[2]
<1>1. Len(l) \in Nat /\ scale[2] \in Nat \ {0} /\ scale[1] \in Nat
  BY DEF ScaleOK
<1>2. ASSUME NEW k \in 1 .. Len(l)
      PROVE  b[k][1] \in Nat /\ b[k][2] \in Nat /\ b[k][2] = Wide(l[k]) /\ b[k][2] >= 2 * scale[2]
  <2>1. b[k] \in Nat \X Nat /\ b[k][2] = Wide(l[k])
    BY <1>1 DEF AreBars
  <2>2. l[k] \in Places
    BY <1>1
  <2>3. QED
    BY <2>1, <2>2, WidthIsWide
<1>3. QED
  BY <1>1, <1>2

\* A bar ends before a later one starts.
LEMMA BarsApart ==
  ASSUME page \in Pages, ScaleOK, NEW l \in Seq(Places), NEW b, AreBars(b, l),
         NEW j \in 1 .. Len(l), NEW k \in 1 .. Len(l), j < k
  PROVE  b[j][1] + b[j][2] < b[k][1]
<1> DEFINE Apart(m) == b[j][1] + b[j][2] < b[m][1]
           Q == {m \in 1 .. Len(l) : j < m /\ ~Apart(m)}
<1> SUFFICES ASSUME ~Apart(k) PROVE FALSE
  OBVIOUS
<1>1. Len(l) \in Nat
  BY BarTypes
<1>2. Q \in SUBSET Nat /\ Q # {}
  BY <1>1
<1>3. PICK m \in Q : \A i \in Q : m <= i
  BY <1>2, LeastNumber
<1>4. /\ m \in 1 .. Len(l) /\ j < m /\ ~Apart(m) /\ m - 1 \in 1 .. Len(l) /\ m > 1
      /\ ~(m <= m - 1)
  BY <1>1, <1>3
<1>5. b[m][1] = b[m - 1][1] + b[m - 1][2] + 2 * scale[2]
  BY <1>4 DEF AreBars
<1>6. /\ scale[2] \in Nat \ {0} /\ b[m][1] \in Nat /\ b[m - 1][1] \in Nat /\ b[m - 1][2] \in Nat
      /\ b[j][1] \in Nat /\ b[j][2] \in Nat
  BY <1>4, BarTypes
<1>7. CASE m - 1 = j
  <2>1. b[m][1] = b[j][1] + b[j][2] + 2 * scale[2]
    BY <1>5, <1>7
  <2>2. QED
    BY <1>4, <1>6, <2>1
<1>8. CASE m - 1 # j
  <2>1. j < m - 1
    BY <1>1, <1>4, <1>8
  <2>2. m - 1 \notin Q
    BY <1>3, <1>4
  <2>3. Apart(m - 1)
    BY <1>4, <2>1, <2>2
  <2>4. \A s, p, q \in Nat, d \in Nat \ {0} : s < p => s < p + q + 2 * d
    OBVIOUS
  <2>5. b[j][1] + b[j][2] \in Nat
    BY <1>6
  <2>6. b[j][1] + b[j][2] < b[m - 1][1] + b[m - 1][2] + 2 * scale[2]
    BY <1>6, <2>3, <2>4, <2>5
  <2>7. QED
    BY <1>4, <1>5, <2>6
<1>9. QED
  BY <1>7, <1>8

\* How far a row of bars reaches, at most: least widths, gaps and the sizes.
Reach(k, f) == (4 * k - 2) * scale[2] + scale[1] * f[k]

\* One bar more.
LEMMA ReachStep ==
  ASSUME NEW d \in Nat, NEW n \in Nat, NEW k \in Nat, NEW w \in Nat, NEW f \in Nat, NEW e \in Int,
         NEW v \in Int, NEW g \in Int, e <= (4 * k - 2) * d + n * f, g = f + w,
         v = Greater(2 * d, w * n)
  PROVE  e + 2 * d + v <= (4 * (k + 1) - 2) * d + n * g
<1>1. w * n \in Nat /\ 2 * d \in Nat /\ n * f \in Nat
  OBVIOUS
<1>2. v <= 2 * d + w * n
  BY <1>1 DEF Greater
<1>3. n * g = n * f + w * n
  OBVIOUS
<1>4. (4 * (k + 1) - 2) * d = (4 * k - 2) * d + 4 * d
  OBVIOUS
<1>5. (4 * k - 2) * d \in Int
  OBVIOUS
<1>6. QED
  BY <1>1, <1>2, <1>3, <1>4, <1>5

LEMMA BarsReach ==
  ASSUME page \in Pages, ScaleOK, NEW l \in Seq(Places), NEW b, AreBars(b, l),
         NEW f, IsSum(f, l), Len(l) > 0
  PROVE  (b[Len(l)][1] + b[Len(l)][2]) - 4 * scale[2] <= Reach(Len(l), f)
<1> DEFINE E(m) == (b[m][1] + b[m][2]) - 4 * scale[2]
           Q == {m \in 1 .. Len(l) : ~(E(m) <= Reach(m, f))}
<1> SUFFICES ASSUME ~(E(Len(l)) <= Reach(Len(l), f)) PROVE FALSE
  OBVIOUS
<1>1. Len(l) \in Nat /\ scale[2] \in Nat \ {0} /\ scale[1] \in Nat
  BY BarTypes
<1>2. Q \in SUBSET Nat /\ Q # {}
  BY <1>1
<1>3. PICK m \in Q : \A i \in Q : m <= i
  BY <1>2, LeastNumber
<1>4. m \in 1 .. Len(l) /\ m \in Nat /\ m - 1 \in 0 .. Len(l) /\ ~(m <= m - 1)
  BY <1>1, <1>3
<1>5. /\ f[m] = f[m - 1] + Part(l[m]).weight /\ f[m - 1] \in Nat /\ f[m] \in Nat /\ f[0] = 0
      /\ Part(l[m]).weight \in Nat
  <2>1. l[m] \in Places
    BY <1>4
  <2>2. m \in 0 .. Len(l)
    BY <1>1, <1>4
  <2>3. QED
    BY <1>4, <2>1, <2>2, PageTypes DEF IsSum
<1>6. /\ b[m][1] \in Nat /\ b[m][2] \in Nat
      /\ b[m][2] = Greater(2 * scale[2], Part(l[m]).weight * scale[1])
  BY <1>4, BarTypes DEF Wide
<1>7. CASE m = 1
  <2>1. b[m][1] = 4 * scale[2]
    BY <1>7 DEF AreBars
  <2>2. E(m) = b[m][2]
    BY <1>1, <1>6, <2>1
  <2>3. f[m] = Part(l[m]).weight
    BY <1>5, <1>7
  <2>4. Reach(m, f) = 2 * scale[2] + scale[1] * Part(l[m]).weight
    BY <1>1, <1>7, <2>3 DEF Reach
  <2>5. \A d, n, w \in Nat : Greater(2 * d, w * n) <= 2 * d + n * w
    <3> SUFFICES ASSUME NEW d \in Nat, NEW n \in Nat, NEW w \in Nat
                 PROVE  Greater(2 * d, w * n) <= 2 * d + n * w
      OBVIOUS
    <3>1. w * n \in Nat /\ w * n = n * w
      OBVIOUS
    <3>2. QED
      BY <3>1 DEF Greater
  <2>6. E(m) <= Reach(m, f)
    BY <1>1, <1>5, <1>6, <2>2, <2>4, <2>5
  <2>7. QED
    BY <1>3, <2>6
<1>8. CASE m # 1
  <2>1. m - 1 \in 1 .. Len(l) /\ m > 1 /\ m - 1 \in Nat
    BY <1>1, <1>4, <1>8
  <2>2. m - 1 \notin Q
    BY <1>3, <1>4
  <2>3. E(m - 1) <= Reach(m - 1, f)
    BY <2>1, <2>2
  <2>4. b[m][1] = b[m - 1][1] + b[m - 1][2] + 2 * scale[2]
    BY <1>4, <2>1 DEF AreBars
  <2>5. b[m - 1][1] \in Nat /\ b[m - 1][2] \in Nat
    BY <2>1, BarTypes
  <2>6. E(m - 1) \in Int /\ E(m) = E(m - 1) + 2 * scale[2] + b[m][2]
    <3>1. \A p, q, x, v, d \in Nat :
            x = p + q + 2 * d =>
              /\ (p + q) - 4 * d \in Int
              /\ (x + v) - 4 * d = ((p + q) - 4 * d) + 2 * d + v
      OBVIOUS
    <3>2. scale[2] \in Nat
      BY <1>1
    <3>3. PICK p, q, x, v, d \in Nat : /\ p = b[m - 1][1] /\ q = b[m - 1][2]
                                        /\ x = b[m][1] /\ v = b[m][2] /\ d = scale[2]
      BY <1>6, <2>5, <3>2
    <3>4. E(m - 1) = (p + q) - 4 * d /\ E(m) = (x + v) - 4 * d
      BY <3>3
    <3>5. x = p + q + 2 * d
      BY <2>4, <3>3
    <3> HIDE DEF E
    <3>6. E(m - 1) \in Int /\ E(m) = E(m - 1) + 2 * d + v
      BY <3>1, <3>4, <3>5
    <3>7. QED
      BY <3>3, <3>6
  <2>7. E(m - 1) <= (4 * (m - 1) - 2) * scale[2] + scale[1] * f[m - 1]
    BY <2>3 DEF Reach
  <2> HIDE DEF E
  <2>8. E(m - 1) + 2 * scale[2] + b[m][2]
          <= (4 * ((m - 1) + 1) - 2) * scale[2] + scale[1] * f[m]
    <3> DEFINE x == E(m - 1)
               k == m - 1
               w == Part(l[m]).weight
               v == b[m][2]
    <3>1. /\ scale[2] \in Nat /\ scale[1] \in Nat /\ k \in Nat /\ w \in Nat
          /\ f[m - 1] \in Nat /\ x \in Int /\ v \in Int /\ f[m] \in Int
          /\ x <= (4 * k - 2) * scale[2] + scale[1] * f[m - 1] /\ f[m] = f[m - 1] + w
          /\ v = Greater(2 * scale[2], w * scale[1])
      BY <1>1, <1>5, <1>6, <2>1, <2>6, <2>7
    <3> HIDE DEF x, k, w, v
    <3>2. x + 2 * scale[2] + v <= (4 * (k + 1) - 2) * scale[2] + scale[1] * f[m]
      BY <3>1, ReachStep
    <3>3. QED
      BY <3>2 DEF x, k, v
  <2>9. (m - 1) + 1 = m
    BY <1>4
  <2>10. E(m) <= Reach(m, f)
    BY <2>6, <2>8, <2>9 DEF Reach
  <2>11. QED
    BY <1>3, <2>10 DEF E
<1>9. QED
  BY <1>7, <1>8

\* With the scale that fits, they reach as far as the chart or a tenth of it more than
\* gaps and least widths.
LEMMA FitArithmetic ==
  ASSUME NEW n \in Nat, NEW d \in Nat, NEW e \in Int, NEW v \in Int, NEW a \in Nat, NEW t \in Nat,
         NEW r \in Int, e <= (4 * n - 2) * d + v, v <= r * d,
         r = Greater(a - 2 * (n - 1) - 2 * n, t)
  PROVE  e <= Greater(a, 2 * (n - 1) + 2 * n + t) * d
<1> DEFINE m == Greater(a, 2 * (n - 1) + 2 * n + t)
<1>1. m \in Int /\ (4 * n - 2) + r <= m
  BY DEF Greater
<1>2. ((4 * n - 2) + r) * d <= m * d /\ ((4 * n - 2) + r) * d \in Int /\ m * d \in Int
  BY <1>1, Times
<1>3. ((4 * n - 2) + r) * d = (4 * n - 2) * d + r * d
  OBVIOUS
<1> HIDE DEF m
<1>4. (4 * n - 2) * d \in Int /\ r * d \in Int
  OBVIOUS
<1>5. e <= m * d
  BY <1>2, <1>3, <1>4
<1>6. QED
  BY <1>5 DEF m

\* So does a lane that fits.
LEMMA LaneFits ==
  ASSUME page \in Pages, ScaleOK, NEW l \in Seq(Places), NEW b, AreBars(b, l), Fits(l), Len(l) > 0
  PROVE  (b[Len(l)][1] + b[Len(l)][2]) - 4 * scale[2]
           <= Drawing!Max({Avail, 2 * (Len(l) - 1) + 2 * Len(l) + Avail \div 10}) * scale[2]
<1> DEFINE n == Len(l)
           e == (b[n][1] + b[n][2]) - 4 * scale[2]
<1>1. n \in Nat /\ scale[2] \in Nat /\ scale[1] \in Nat /\ e \in Int
  <2>1. n \in Nat /\ scale[2] \in Nat /\ scale[1] \in Nat /\ n \in 1 .. Len(l)
    BY BarTypes
  <2>2. b[n][1] \in Nat /\ b[n][2] \in Nat
    BY <2>1, BarTypes
  <2>3. QED
    BY <2>1, <2>2
<1>2. PICK f : IsSum(f, l) /\ scale[1] * f[n] <= RoomOf(l) * scale[2]
  BY DEF Fits
<1>3. e <= (4 * n - 2) * scale[2] + scale[1] * f[n]
  BY <1>2, BarsReach DEF Reach
<1>4. Avail \in Nat /\ Avail \div 10 \in Nat
  BY DrawingAssumption
<1>5. f[n] \in Nat
  BY <1>1, <1>2 DEF IsSum
<1>6. RoomOf(l) \in Int /\ scale[1] * f[n] \in Int
  BY <1>1, <1>5, RoomIs
<1>7. RoomOf(l) = Greater(Avail - 2 * (n - 1) - 2 * n, Avail \div 10)
  BY DEF RoomOf
<1> HIDE DEF n, e
<1>8. e <= Greater(Avail, 2 * (n - 1) + 2 * n + Avail \div 10) * scale[2]
  BY <1>1, <1>2, <1>3, <1>4, <1>6, <1>7, FitArithmetic
<1>9. Drawing!Max({Avail, 2 * (n - 1) + 2 * n + Avail \div 10})
        = Greater(Avail, 2 * (n - 1) + 2 * n + Avail \div 10)
  BY <1>1, <1>4, MaxOfTwo
<1>10. QED
  BY <1>8, <1>9 DEF n, e

-----------------------------------------------------------------------------
\* The lane being drawn, with its bars.
LaneNow ==
  /\ lane \in Seq(Places) /\ Len(lane) > 0
  /\ \E pid : Orderly(lane, pid)
  /\ Fits(lane) /\ AreBars(bars, lane)

\* Its bars are side by side in the order of its parts.
LEMMA NowTypes ==
  ASSUME page \in Pages, ScaleOK, LaneNow
  PROVE  /\ Len(lane) \in Nat \ {0} /\ DOMAIN lane = 1 .. Len(lane)
         /\ \A k \in 1 .. Len(lane) : /\ lane[k] \in Places /\ lane[k] \in Nat
                                      /\ Drawing!Left(k) = bars[k][1]
                                      /\ Drawing!Right(k) = bars[k][1] + bars[k][2]
                                      /\ Drawing!Left(k) \in Nat /\ Drawing!Right(k) \in Nat
                                      /\ Drawing!Left(k) < Drawing!Right(k)
         /\ \A j, k \in 1 .. Len(lane) : j < k => /\ lane[j] < lane[k]
                                                  /\ Drawing!Right(j) < Drawing!Left(k)
<1>1. /\ Len(lane) \in Nat \ {0} /\ DOMAIN lane = 1 .. Len(lane)
      /\ \A k \in 1 .. Len(lane) : lane[k] \in Places
      /\ \A k \in Places : k \in Nat
  <2>1. Len(page.parts) \in Nat
    BY PageTypes
  <2>2. QED
    BY <2>1 DEF LaneNow, Places
<1>2. ASSUME NEW k \in 1 .. Len(lane)
      PROVE  /\ Drawing!Left(k) = bars[k][1] /\ Drawing!Right(k) = bars[k][1] + bars[k][2]
             /\ Drawing!Left(k) \in Nat /\ Drawing!Right(k) \in Nat
             /\ Drawing!Left(k) < Drawing!Right(k)
  <2>1. /\ scale[2] \in Nat \ {0} /\ bars[k][1] \in Nat /\ bars[k][2] \in Nat
        /\ bars[k][2] >= 2 * scale[2]
    BY BarTypes DEF LaneNow
  <2>2. QED
    BY <2>1 DEF Drawing!Left, Drawing!Right
<1>3. ASSUME NEW j \in 1 .. Len(lane), NEW k \in 1 .. Len(lane), j < k
      PROVE  lane[j] < lane[k] /\ Drawing!Right(j) < Drawing!Left(k)
  <2>1. bars[j][1] + bars[j][2] < bars[k][1]
    BY <1>3, BarsApart DEF LaneNow
  <2>2. lane[j] < lane[k]
    BY <1>3 DEF LaneNow, Orderly
  <2>3. QED
    BY <2>1, <2>2 DEF Drawing!Left, Drawing!Right
<1>4. QED
  BY <1>1, <1>2, <1>3

\* The span of some bars is from the first of them to the last.
LEMMA SpanIs ==
  ASSUME page \in Pages, ScaleOK, LaneNow, NEW ks \in SUBSET (1 .. Len(lane)), ks # {}
  PROVE  \E i, j \in ks : /\ Drawing!Span(ks) = <<Drawing!Left(i), Drawing!Right(j)>>
                          /\ \A k \in ks : /\ Drawing!Left(i) <= Drawing!Left(k)
                                           /\ Drawing!Right(k) <= Drawing!Right(j)
<1>1. PICK i \in ks : \A k \in ks : i <= k
  <2>1. ks \in SUBSET Nat
    BY NowTypes
  <2>2. QED
    BY <2>1, LeastNumber
<1>2. PICK j \in ks : \A k \in ks : j >= k
  BY NowTypes, MaxOfPlaces
<1>3. ASSUME NEW k \in ks
      PROVE  /\ Drawing!Left(i) <= Drawing!Left(k) /\ Drawing!Right(k) <= Drawing!Right(j)
             /\ Drawing!Left(k) \in Int /\ Drawing!Right(k) \in Int
  <2>1. /\ i \in 1 .. Len(lane) /\ j \in 1 .. Len(lane) /\ k \in 1 .. Len(lane)
        /\ i <= k /\ k <= j /\ Len(lane) \in Nat
    BY <1>1, <1>2, NowTypes
  <2>2. /\ Drawing!Left(i) \in Nat /\ Drawing!Left(k) \in Nat /\ Drawing!Right(k) \in Nat
        /\ Drawing!Right(j) \in Nat /\ Drawing!Right(i) \in Nat /\ Drawing!Left(j) \in Nat
        /\ Drawing!Left(i) < Drawing!Right(i) /\ Drawing!Left(j) < Drawing!Right(j)
    BY <2>1, NowTypes
  <2>3. Drawing!Left(i) <= Drawing!Left(k)
    <3>1. CASE i = k
      BY <2>2, <3>1
    <3>2. CASE i < k
      <4>1. Drawing!Right(i) < Drawing!Left(k)
        BY <2>1, <3>2, NowTypes
      <4>2. QED
        BY <2>2, <4>1
    <3>3. QED
      BY <2>1, <3>1, <3>2
  <2>4. Drawing!Right(k) <= Drawing!Right(j)
    <3>1. CASE k = j
      BY <2>2, <3>1
    <3>2. CASE k < j
      <4>1. Drawing!Right(k) < Drawing!Left(j)
        BY <2>1, <3>2, NowTypes
      <4>2. QED
        BY <2>2, <4>1
    <3>3. QED
      BY <2>1, <3>1, <3>2
  <2>5. QED
    BY <2>2, <2>3, <2>4
<1>4. Drawing!Min({Drawing!Left(k) : k \in ks}) = Drawing!Left(i)
  <2> DEFINE S == {Drawing!Left(k) : k \in ks}
  <2>1. Drawing!Left(i) \in S /\ \A y \in S : Drawing!Left(i) <= y /\ y \in Int
    BY <1>3
  <2> HIDE DEF S
  <2>2. \E x \in S : \A y \in S : x <= y
    BY <2>1
  <2>3. Drawing!Min(S) \in S /\ \A y \in S : Drawing!Min(S) <= y
    BY <2>2 DEF Drawing!Min
  <2>4. Drawing!Min(S) = Drawing!Left(i)
    BY <2>1, <2>3
  <2>5. QED
    BY <2>4 DEF S
<1>5. Drawing!Max({Drawing!Right(k) : k \in ks}) = Drawing!Right(j)
  <2> DEFINE S == {Drawing!Right(k) : k \in ks}
  <2>1. Drawing!Right(j) \in S /\ \A y \in S : Drawing!Right(j) >= y /\ y \in Int
    BY <1>3
  <2> HIDE DEF S
  <2>2. \E x \in S : \A y \in S : x >= y
    BY <2>1
  <2>3. Drawing!Max(S) \in S /\ \A y \in S : Drawing!Max(S) >= y
    BY <2>2 DEF Drawing!Max
  <2>4. Drawing!Max(S) = Drawing!Right(j)
    BY <2>1, <2>3
  <2>5. QED
    BY <2>4 DEF S
<1>6. Drawing!Span(ks) = <<Drawing!Left(i), Drawing!Right(j)>>
  BY <1>4, <1>5 DEF Drawing!Span
<1>7. QED
  BY <1>3, <1>6

\* Brackets over their own parts and no other's.
OverOwn(b) ==
  \A k \in DOMAIN lane :
    IF b.cand[1] <= lane[k] /\ lane[k] <= b.cand[2]
    THEN b.span[1] <= Drawing!Left(k) /\ Drawing!Right(k) <= b.span[2]
    ELSE Drawing!Right(k) < b.span[1] \/ b.span[2] < Drawing!Left(k)
BracketsOK(B) ==
  /\ \A b, c \in B : b # c => b.span[2] < c.span[1] \/ c.span[2] < b.span[1]
  /\ \A b \in B : OverOwn(b)

BracketOf(c)  == [cand |-> c, span |-> Drawing!Span(Drawing!InLane(c))]
BracketsNow   ==
  {BracketOf(c) : c \in {c \in Drawing!Range(page.candidates) : Drawing!InLane(c) # {}}}

\* What is asked of the candidates of a page.
LEMMA CandidateTypes ==
  ASSUME page \in Pages
  PROVE  /\ \A c \in Drawing!Range(page.candidates) : c[1] \in Nat /\ c[2] \in Nat
         /\ \A c, d \in Drawing!Range(page.candidates) : c # d => c[2] < d[1] \/ d[2] < c[1]
<1>1. /\ page.candidates \in Seq(Nat \X Nat)
      /\ \A k, m \in DOMAIN page.candidates : k # m =>
           \/ page.candidates[k][2] < page.candidates[m][1]
           \/ page.candidates[m][2] < page.candidates[k][1]
  BY DrawingAssumption DEF AreCandidates
<1>2. \A c \in Drawing!Range(page.candidates) : \E k \in DOMAIN page.candidates :
        c = page.candidates[k]
  BY DEF Drawing!Range
<1>3. \A k \in DOMAIN page.candidates : page.candidates[k] \in Nat \X Nat
  BY <1>1
<1>4. QED
  BY <1>1, <1>2, <1>3

\* The brackets render draws are.
LEMMA BracketsDrawn ==
  ASSUME page \in Pages, ScaleOK, LaneNow
  PROVE  BracketsOK(BracketsNow)
<1>1. ASSUME NEW c \in Drawing!Range(page.candidates), Drawing!InLane(c) # {}
      PROVE  /\ c[1] \in Nat /\ c[2] \in Nat
             /\ Drawing!InLane(c) \in SUBSET (1 .. Len(lane))
             /\ \A k \in 1 .. Len(lane) :
                  k \in Drawing!InLane(c) <=> c[1] <= lane[k] /\ lane[k] <= c[2]
             /\ \E i, j \in Drawing!InLane(c) :
                  /\ BracketOf(c).span = <<Drawing!Left(i), Drawing!Right(j)>>
                  /\ \A k \in Drawing!InLane(c) : /\ Drawing!Left(i) <= Drawing!Left(k)
                                                  /\ Drawing!Right(k) <= Drawing!Right(j)
  <2>1. c[1] \in Nat /\ c[2] \in Nat
    BY CandidateTypes
  <2>2. /\ Drawing!InLane(c) \in SUBSET (1 .. Len(lane))
        /\ \A k \in 1 .. Len(lane) :
             k \in Drawing!InLane(c) <=> c[1] <= lane[k] /\ lane[k] <= c[2]
    BY NowTypes DEF Drawing!InLane
  <2>3. BracketOf(c).span = Drawing!Span(Drawing!InLane(c))
    BY DEF BracketOf
  <2>4. QED
    BY <1>1, <2>1, <2>2, <2>3, SpanIs
<1>2. ASSUME NEW j \in 1 .. Len(lane), NEW k \in 1 .. Len(lane), lane[j] < lane[k]
      PROVE  Drawing!Right(j) < Drawing!Left(k)
  <2>1. lane[j] \in Nat /\ lane[k] \in Nat /\ Len(lane) \in Nat
    BY NowTypes
  <2>2. ~(k < j) /\ k # j
    BY <1>2, <2>1, NowTypes
  <2>3. j < k
    BY <2>1, <2>2
  <2>4. QED
    BY <2>3, NowTypes
<1>3. ASSUME NEW c \in Drawing!Range(page.candidates), Drawing!InLane(c) # {},
             NEW d \in Drawing!Range(page.candidates), Drawing!InLane(d) # {}, c[2] < d[1]
      PROVE  BracketOf(c).span[2] < BracketOf(d).span[1]
  <2>1. PICK i, j \in Drawing!InLane(c) :
               BracketOf(c).span = <<Drawing!Left(i), Drawing!Right(j)>>
    BY <1>1, <1>3
  <2>2. PICK k, m \in Drawing!InLane(d) :
               BracketOf(d).span = <<Drawing!Left(k), Drawing!Right(m)>>
    BY <1>1, <1>3
  <2>3. /\ j \in 1 .. Len(lane) /\ k \in 1 .. Len(lane) /\ lane[j] <= c[2] /\ d[1] <= lane[k]
        /\ c[2] \in Nat /\ d[1] \in Nat
    BY <1>1, <1>3, <2>1, <2>2
  <2>4. lane[j] \in Nat /\ lane[k] \in Nat
    BY <2>3, NowTypes
  <2>5. lane[j] < lane[k]
    BY <1>3, <2>3, <2>4
  <2>6. Drawing!Right(j) < Drawing!Left(k)
    BY <1>2, <2>3, <2>5
  <2>7. QED
    BY <2>1, <2>2, <2>6
<1>4. ASSUME NEW c \in Drawing!Range(page.candidates), Drawing!InLane(c) # {}
      PROVE  OverOwn(BracketOf(c))
  <2>1. PICK i, j \in Drawing!InLane(c) :
               /\ BracketOf(c).span = <<Drawing!Left(i), Drawing!Right(j)>>
               /\ \A k \in Drawing!InLane(c) : /\ Drawing!Left(i) <= Drawing!Left(k)
                                               /\ Drawing!Right(k) <= Drawing!Right(j)
    BY <1>1, <1>4
  <2>2. /\ i \in 1 .. Len(lane) /\ j \in 1 .. Len(lane)
        /\ c[1] \in Nat /\ c[2] \in Nat
        /\ c[1] <= lane[i] /\ lane[i] <= c[2] /\ c[1] <= lane[j] /\ lane[j] <= c[2]
        /\ lane[i] \in Nat /\ lane[j] \in Nat
    BY <1>1, <1>4, NowTypes
  <2>3. ASSUME NEW k \in 1 .. Len(lane)
        PROVE  IF c[1] <= lane[k] /\ lane[k] <= c[2]
               THEN Drawing!Left(i) <= Drawing!Left(k) /\ Drawing!Right(k) <= Drawing!Right(j)
               ELSE Drawing!Right(k) < Drawing!Left(i) \/ Drawing!Right(j) < Drawing!Left(k)
    <3>1. lane[k] \in Nat
      BY NowTypes
    <3>2. CASE c[1] <= lane[k] /\ lane[k] <= c[2]
      BY <1>1, <1>4, <2>1, <3>2
    <3>3. CASE lane[k] < c[1]
      <4>1. lane[k] < lane[i]
        BY <2>2, <3>1, <3>3
      <4>2. Drawing!Right(k) < Drawing!Left(i) /\ ~(c[1] <= lane[k])
        BY <1>2, <2>2, <3>1, <3>3, <4>1
      <4>3. QED
        BY <4>2
    <3>4. CASE c[2] < lane[k]
      <4>1. lane[j] < lane[k]
        BY <2>2, <3>1, <3>4
      <4>2. Drawing!Right(j) < Drawing!Left(k) /\ ~(lane[k] <= c[2])
        BY <1>2, <2>2, <3>1, <3>4, <4>1
      <4>3. QED
        BY <4>2
    <3>5. QED
      BY <2>2, <3>1, <3>2, <3>3, <3>4
  <2>4. BracketOf(c).cand = c /\ DOMAIN lane = 1 .. Len(lane)
    BY NowTypes DEF BracketOf
  <2>5. BracketOf(c).span[1] = Drawing!Left(i) /\ BracketOf(c).span[2] = Drawing!Right(j)
    BY <2>1
  <2>6. QED
    BY <2>3, <2>4, <2>5 DEF OverOwn
<1>5. ASSUME NEW a \in BracketsNow, NEW b \in BracketsNow, a # b
      PROVE  a.span[2] < b.span[1] \/ b.span[2] < a.span[1]
  <2>1. PICK c \in Drawing!Range(page.candidates) :
               Drawing!InLane(c) # {} /\ a = BracketOf(c)
    BY DEF BracketsNow
  <2>2. PICK d \in Drawing!Range(page.candidates) :
               Drawing!InLane(d) # {} /\ b = BracketOf(d)
    BY DEF BracketsNow
  <2>3. c # d
    BY <1>5, <2>1, <2>2
  <2>4. c[2] < d[1] \/ d[2] < c[1]
    BY <2>3, CandidateTypes
  <2>5. QED
    BY <1>3, <2>1, <2>2, <2>4
<1>6. \A b \in BracketsNow : OverOwn(b)
  BY <1>4 DEF BracketsNow
<1>7. QED
  BY <1>5, <1>6 DEF BracketsOK

-----------------------------------------------------------------------------
\* The numbers of a lane: its last block, how wide a number is, and where the last one
\* would start.
EndBlock     == Part(lane[Len(lane)]).max
TextW(block) == Drawing!LabelWidth(block) * scale[2]
EndLeft      == Drawing!LaneEnd - TextW(EndBlock)

\* A number has a width.
LEMMA TextTypes ==
  ASSUME ScaleOK, NEW block
  PROVE  TextW(block) \in Nat /\ Drawing!Px(Drawing!LabelWidth(block)) = TextW(block)
<1>1. Cardinality({d \in 1 .. MaxDigits - 1 : block >= 10^d}) \in Nat
  <2> DEFINE S == {d \in 1 .. MaxDigits - 1 : block >= 10^d}
  <2>1. IsFiniteSet(1 .. MaxDigits - 1)
    <3>1. 1 \in Int /\ MaxDigits - 1 \in Int
      BY DrawingAssumption
    <3>2. QED
      BY <3>1, FS_Interval
  <2>2. S \in SUBSET (1 .. MaxDigits - 1)
    BY Zenon
  <2> HIDE DEF S
  <2>3. Cardinality(S) \in Nat
    BY <2>1, <2>2, FS_Subset, FS_CardinalityType
  <2>4. QED
    BY <2>3 DEF S
<1>2. Drawing!Digits(block) = 1 + Cardinality({d \in 1 .. MaxDigits - 1 : block >= 10^d})
  BY DEF Drawing!Digits, Drawing!Cardinality, Cardinality
<1>3. Drawing!LabelWidth(block) \in Nat
  <2> DEFINE c == Cardinality({d \in 1 .. MaxDigits - 1 : block >= 10^d})
  <2>1. c \in Nat /\ Drawing!Digits(block) = 1 + c
    BY <1>1, <1>2, Zenon
  <2> HIDE DEF c
  <2>2. QED
    BY <2>1 DEF Drawing!LabelWidth
<1>4. scale[2] \in Nat
  BY DEF ScaleOK
<1>5. QED
  BY <1>3, <1>4 DEF TextW, Drawing!Px

\* The first blocks of the parts of a lane are in order, up to its last block.
LEMMA LaneBlocks ==
  ASSUME page \in Pages, ScaleOK, LaneNow
  PROVE  /\ EndBlock \in Nat
         /\ \A k \in 1 .. Len(lane) : /\ Part(lane[k]).min \in Nat
                                      /\ Part(lane[k]).min <= EndBlock
         /\ \A j, k \in 1 .. Len(lane) : j < k => Part(lane[j]).min < Part(lane[k]).min
<1>1. Len(lane) \in 1 .. Len(lane) /\ Len(lane) \in Nat
  BY NowTypes
<1>2. ASSUME NEW k \in 1 .. Len(lane)
      PROVE  /\ Part(lane[k]).min \in Nat /\ Part(lane[k]).max \in Nat
             /\ Part(lane[k]).min <= Part(lane[k]).max
  BY NowTypes, PageTypes
<1>3. ASSUME NEW j \in 1 .. Len(lane), NEW k \in 1 .. Len(lane), j < k
      PROVE  Part(lane[j]).max < Part(lane[k]).min
  <2>1. lane[j] \in Places /\ lane[k] \in Places /\ lane[j] < lane[k]
    BY <1>3, NowTypes
  <2>2. Part(lane[j]).pid = Part(lane[k]).pid
    BY DEF LaneNow, Orderly
  <2>3. QED
    BY <2>1, <2>2, PageTypes
<1>4. EndBlock \in Nat
  BY <1>1, <1>2 DEF EndBlock
<1>5. ASSUME NEW k \in 1 .. Len(lane) PROVE Part(lane[k]).min <= EndBlock
  <2>1. CASE k = Len(lane)
    BY <1>2, <2>1 DEF EndBlock
  <2>2. CASE k # Len(lane)
    <3>1. k < Len(lane)
      BY <1>1, <2>2
    <3>2. Part(lane[k]).max < Part(lane[Len(lane)]).min
      BY <1>1, <1>3, <3>1
    <3>3. QED
      BY <1>1, <1>2, <3>2 DEF EndBlock
  <2>3. QED
    BY <2>1, <2>2
<1>6. ASSUME NEW j \in 1 .. Len(lane), NEW k \in 1 .. Len(lane), j < k
      PROVE  Part(lane[j]).min < Part(lane[k]).min
  <2>1. Part(lane[j]).max < Part(lane[k]).min
    BY <1>3, <1>6
  <2>2. QED
    BY <1>2, <2>1
<1>7. QED
  BY <1>2, <1>4, <1>5, <1>6

\* Where the names of the model stand for these.
LEMMA EndTerms ==
  ASSUME page \in Pages, ScaleOK, LaneNow
  PROVE  /\ Drawing!End = EndBlock /\ Drawing!EndW = TextW(EndBlock)
         /\ Drawing!LaneEnd \in Nat /\ TextW(EndBlock) \in Nat /\ EndLeft \in Int
         /\ Drawing!Px(Drawing!Pad) = 4 * scale[2] /\ Drawing!Left(1) = 4 * scale[2]
         /\ scale[2] \in Nat
         /\ \A k \in 1 .. Len(lane) : /\ Drawing!P(lane[k]).min = Part(lane[k]).min
                                      /\ TextW(Part(lane[k]).min) \in Nat
<1>1. Len(lane) \in 1 .. Len(lane)
  BY NowTypes
<1>2. Drawing!End = EndBlock
  BY DEF Drawing!End, Drawing!Last, Drawing!P, EndBlock, Part
<1>3. Drawing!EndW = TextW(EndBlock) /\ TextW(EndBlock) \in Nat
  BY <1>2, TextTypes DEF Drawing!EndW
<1>4. Drawing!LaneEnd \in Nat
  BY <1>1, NowTypes DEF Drawing!LaneEnd
<1>5. Drawing!Px(Drawing!Pad) = 4 * scale[2] /\ scale[2] \in Nat
  BY DEF Drawing!Px, Drawing!Pad, ScaleOK
<1>6. Drawing!Left(1) = 4 * scale[2]
  BY DEF Drawing!Left, LaneNow, AreBars
<1>7. \A k \in 1 .. Len(lane) : /\ Drawing!P(lane[k]).min = Part(lane[k]).min
                                /\ TextW(Part(lane[k]).min) \in Nat
  BY TextTypes DEF Drawing!P, Part
<1>8. EndLeft \in Int
  BY <1>3, <1>4 DEF EndLeft
<1>9. QED
  BY <1>2, <1>3, <1>4, <1>5, <1>6, <1>7, <1>8

Texts == [left : Int, right : Int, block : Nat]

\* Numbers of a lane from the left, none running into the next.
InOrder(s) ==
  /\ s \in Seq(Texts)
  /\ \A k \in 1 .. Len(s) - 1 : s[k].right <= s[k + 1].left
  /\ \A j, k \in 1 .. Len(s) : j < k => s[j].block < s[k].block
  /\ \A k \in 1 .. Len(s) : s[k].block <= EndBlock

\* The first part has its number; the last one drawn leaves room for the last block, or
\* it is the first.
Beside(s) ==
  /\ s # <<>> /\ s[1].left = 4 * scale[2]
  /\ \/ s[Len(s)].right <= EndLeft
     \/ s[Len(s)].right = 4 * scale[2] + TextW(Part(lane[1]).min)

LabelsOK ==
  /\ next \in 1 .. Len(lane) + 1
  /\ InOrder(labels)
  /\ \A j \in 1 .. Len(labels) : \A k \in next .. Len(lane) :
       labels[j].block < Part(lane[k]).min
  /\ IF next = 1 THEN labels = <<>> ELSE Beside(labels)

\* What the numbers come to.
Legible ==
  /\ InOrder(labels) /\ labels # <<>> /\ labels[1].left = 4 * scale[2]
  /\ Drawing!LaneEnd - 4 * scale[2] >= TextW(Part(lane[1]).min) + TextW(EndBlock)
       => labels[Len(labels)].block = EndBlock

\* One more number, where the last one leaves room for it.
LEMMA OneMore ==
  ASSUME page \in Pages, ScaleOK, LaneNow, InOrder(labels), NEW x \in Texts,
         labels # <<>> => x.left >= labels[Len(labels)].right,
         \A k \in 1 .. Len(labels) : labels[k].block < x.block, x.block <= EndBlock
  PROVE  LET s == Append(labels, x)
         IN  /\ InOrder(s) /\ Len(s) = Len(labels) + 1 /\ s[Len(s)] = x
             /\ \A k \in 1 .. Len(labels) : s[k] = labels[k]
<1> DEFINE s == Append(labels, x)
           n == Len(labels)
<1>1. /\ labels \in Seq(Texts) /\ n \in Nat /\ \A k \in 1 .. n : labels[k] \in Texts
  BY DEF InOrder
<1>2. /\ s \in Seq(Texts) /\ Len(s) = n + 1 /\ s[n + 1] = x
      /\ \A k \in 1 .. n : s[k] = labels[k]
  BY <1>1
<1> HIDE DEF s
<1>3. \A k \in 1 .. n + 1 : k = n + 1 \/ k \in 1 .. n
  BY <1>1
<1>4. ASSUME NEW k \in 1 .. Len(s) - 1 PROVE s[k].right <= s[k + 1].left
  <2>1. k \in 1 .. n
    BY <1>1, <1>2
  <2>2. CASE k = n
    <3>1. labels # <<>>
      BY <1>1, <2>1
    <3>2. x.left >= labels[n].right /\ x.left \in Int /\ labels[n].right \in Int
      BY <1>1, <2>1, <2>2, <3>1 DEF Texts
    <3>3. QED
      BY <1>2, <2>1, <2>2, <3>2
  <2>3. CASE k # n
    <3>1. k \in 1 .. n - 1 /\ k + 1 \in 1 .. n
      BY <1>1, <2>1, <2>3
    <3>2. labels[k].right <= labels[k + 1].left
      BY <3>1 DEF InOrder
    <3>3. QED
      BY <1>2, <2>1, <3>1, <3>2
  <2>4. QED
    BY <2>2, <2>3
<1>5. ASSUME NEW j \in 1 .. Len(s), NEW k \in 1 .. Len(s), j < k PROVE s[j].block < s[k].block
  <2>1. j \in 1 .. n /\ (k = n + 1 \/ k \in 1 .. n)
    BY <1>1, <1>2, <1>3, <1>5
  <2>2. CASE k = n + 1
    BY <1>2, <2>1, <2>2
  <2>3. CASE k \in 1 .. n
    BY <1>2, <1>5, <2>1, <2>3 DEF InOrder
  <2>4. QED
    BY <2>1, <2>2, <2>3
<1>6. ASSUME NEW k \in 1 .. Len(s) PROVE s[k].block <= EndBlock
  <2>1. CASE k = n + 1
    BY <1>2, <2>1
  <2>2. CASE k \in 1 .. n
    BY <1>2, <2>2 DEF InOrder
  <2>3. QED
    BY <1>2, <1>3, <2>1, <2>2
<1>7. InOrder(s)
  BY <1>2, <1>4, <1>5, <1>6 DEF InOrder
<1>8. QED
  BY <1>2, <1>7 DEF s

\* An iteration of the loop over the parts.
LEMMA LabelStep ==
  ASSUME page \in Pages, ScaleOK, LaneNow, LabelsOK,
         next <= Len(lane), ~Drawing!NearEnd(next)
  PROVE  LET s == Drawing!Labelled(Drawing!Left(next), Drawing!P(lane[next]).min)
         IN  /\ InOrder(s) /\ Beside(s)
             /\ \A j \in 1 .. Len(s) : \A k \in next + 1 .. Len(lane) :
                  s[j].block < Part(lane[k]).min
<1> DEFINE min == Part(lane[next]).min
           left == Drawing!Left(next)
           x == [left |-> left, right |-> left + TextW(min), block |-> min]
           s == Drawing!Labelled(Drawing!Left(next), Drawing!P(lane[next]).min)
<1>1. /\ next \in 1 .. Len(lane) /\ Len(lane) \in Nat /\ labels \in Seq(Texts)
      /\ Len(labels) \in Nat
  BY NowTypes DEF LabelsOK, InOrder
<1>2. left \in Nat /\ min \in Nat /\ TextW(min) \in Nat /\ min <= EndBlock
  BY <1>1, NowTypes, LaneBlocks, EndTerms
<1>3. s = IF Drawing!Free(left) THEN Append(labels, x) ELSE labels
  BY <1>1, EndTerms, TextTypes DEF Drawing!Labelled
<1>4. Drawing!Free(left) <=> labels = <<>> \/ left >= labels[Len(labels)].right
  BY DEF Drawing!Free
<1>5. /\ \A j \in 1 .. Len(labels) : labels[j].block < min /\ labels[j].block \in Nat
      /\ InOrder(labels)
  <2>1. next \in next .. Len(lane) /\ InOrder(labels)
    BY <1>1 DEF LabelsOK
  <2>2. ASSUME NEW j \in 1 .. Len(labels) PROVE labels[j].block < min /\ labels[j].block \in Nat
    <3>1. labels[j] \in Texts
      BY <1>1
    <3>2. QED
      BY <2>1, <3>1 DEF LabelsOK, Texts
  <2>3. QED
    BY <2>1, <2>2
<1>6. next = 1 \/ left + TextW(min) <= EndLeft
  <2>1. next > 1 => ~(left + Drawing!Px(Drawing!LabelWidth(Drawing!P(lane[next]).min))
                        > Drawing!LaneEnd - Drawing!EndW)
    BY DEF Drawing!NearEnd
  <2>2. Drawing!Px(Drawing!LabelWidth(Drawing!P(lane[next]).min)) = TextW(min)
    BY <1>1, EndTerms, TextTypes
  <2>3. Drawing!LaneEnd - Drawing!EndW = EndLeft /\ EndLeft \in Int
    BY EndTerms DEF EndLeft
  <2>4. next > 1 => ~(left + TextW(min) > EndLeft)
    BY <2>1, <2>2, <2>3
  <2> HIDE DEF left, min
  <2>5. QED
    BY <1>1, <1>2, <2>3, <2>4
<1>7. ASSUME NEW k \in next + 1 .. Len(lane)
      PROVE  min < Part(lane[k]).min /\ Part(lane[k]).min \in Nat
  <2>1. k \in 1 .. Len(lane) /\ next < k
    BY <1>1
  <2>2. QED
    BY <1>1, <2>1, LaneBlocks
<1>8. x \in Texts /\ x.left = left /\ x.right = left + TextW(min) /\ x.block = min
  BY <1>2 DEF Texts
<1>9. next = 1 => left = 4 * scale[2] /\ min = Part(lane[1]).min
  BY EndTerms
<1> HIDE DEF x, s, left, min
<1>10. CASE Drawing!Free(left)
  <2> DEFINE a == Append(labels, x)
  <2>1. /\ InOrder(a) /\ Len(a) = Len(labels) + 1 /\ a[Len(a)] = x
        /\ \A k \in 1 .. Len(labels) : a[k] = labels[k]
    BY <1>2, <1>4, <1>5, <1>8, <1>10, OneMore
  <2> HIDE DEF a
  <2>2. a # <<>> /\ a[1].left = 4 * scale[2]
    <3>1. a # <<>>
      BY <1>1, <2>1
    <3>2. CASE next = 1
      <4>1. Len(labels) = 0
        BY <3>2 DEF LabelsOK
      <4>2. a[1] = x
        BY <2>1, <4>1
      <4>3. QED
        BY <1>8, <1>9, <3>1, <3>2, <4>2
    <3>3. CASE next # 1
      <4>1. Beside(labels)
        BY <3>3 DEF LabelsOK
      <4>2. 1 \in 1 .. Len(labels) /\ labels[1].left = 4 * scale[2]
        BY <1>1, <4>1 DEF Beside
      <4>3. QED
        BY <2>1, <3>1, <4>2
    <3>4. QED
      BY <3>2, <3>3
  <2>3. a[Len(a)].right <= EndLeft \/ a[Len(a)].right = 4 * scale[2] + TextW(Part(lane[1]).min)
    BY <1>6, <1>8, <1>9, <2>1
  <2>4. ASSUME NEW j \in 1 .. Len(a), NEW k \in next + 1 .. Len(lane)
        PROVE  a[j].block < Part(lane[k]).min
    <3>1. CASE j \in 1 .. Len(labels)
      BY <1>2, <1>5, <1>7, <2>1, <3>1
    <3>2. CASE j = Len(a)
      BY <1>7, <1>8, <2>1, <3>2
    <3>3. QED
      BY <1>1, <2>1, <3>1, <3>2
  <2>5. s = a
    BY <1>3, <1>10 DEF a
  <2>6. InOrder(s) /\ Beside(s) /\ \A j \in 1 .. Len(s) : \A k \in next + 1 .. Len(lane) :
                                      s[j].block < Part(lane[k]).min
    BY <2>1, <2>2, <2>3, <2>4, <2>5 DEF Beside
  <2>7. QED
    BY <2>6 DEF s
<1>11. CASE ~Drawing!Free(left)
  <2>1. s = labels
    BY <1>3, <1>11
  <2>2. next # 1
    BY <1>4, <1>11 DEF LabelsOK
  <2>3. Beside(labels)
    BY <2>2 DEF LabelsOK
  <2>4. \A j \in 1 .. Len(labels) : \A k \in next + 1 .. Len(lane) :
          labels[j].block < Part(lane[k]).min
    BY <1>2, <1>5, <1>7
  <2>5. InOrder(s) /\ Beside(s) /\ \A j \in 1 .. Len(s) : \A k \in next + 1 .. Len(lane) :
                                      s[j].block < Part(lane[k]).min
    BY <1>5, <2>1, <2>3, <2>4
  <2>6. QED
    BY <2>5 DEF s
<1>12. QED
  BY <1>10, <1>11

\* The last number.
LEMMA LabelLast ==
  ASSUME page \in Pages, ScaleOK, LaneNow, LabelsOK,
         next <= Len(lane) => Drawing!NearEnd(next)
  PROVE  LET s == IF Drawing!NewText
                  THEN Drawing!Labelled(Drawing!LaneEnd - Drawing!EndW, Drawing!End)
                  ELSE labels
         IN  /\ InOrder(s) /\ s # <<>> /\ s[1].left = 4 * scale[2]
             /\ Drawing!LaneEnd - 4 * scale[2] >= TextW(Part(lane[1]).min) + TextW(EndBlock)
                  => s[Len(s)].block = EndBlock
<1> DEFINE s == IF Drawing!NewText
                THEN Drawing!Labelled(Drawing!LaneEnd - Drawing!EndW, Drawing!End)
                ELSE labels
           x == [left |-> EndLeft, right |-> EndLeft + TextW(EndBlock), block |-> EndBlock]
           n == Len(labels)
           Room == Drawing!LaneEnd - 4 * scale[2] >= TextW(Part(lane[1]).min) + TextW(EndBlock)
<1>1. /\ next \in 1 .. Len(lane) + 1 /\ Len(lane) \in Nat \ {0} /\ labels \in Seq(Texts)
      /\ n \in Nat /\ InOrder(labels) /\ 1 \in 1 .. Len(lane)
  BY NowTypes DEF LabelsOK, InOrder
<1>2. next # 1
  <2>1. ~Drawing!NearEnd(1)
    BY DEF Drawing!NearEnd
  <2>2. QED
    BY <1>1, <2>1
<1>3. Beside(labels) /\ n \in 1 .. n /\ 1 \in 1 .. n
  <2>1. Beside(labels)
    BY <1>2 DEF LabelsOK
  <2>2. QED
    BY <1>1, <2>1 DEF Beside
<1>4. /\ Drawing!End = EndBlock /\ Drawing!EndW = TextW(EndBlock) /\ TextW(EndBlock) \in Nat
      /\ Drawing!LaneEnd - Drawing!EndW = EndLeft /\ EndLeft \in Int /\ Drawing!LaneEnd \in Nat
      /\ EndBlock \in Nat /\ scale[2] \in Nat /\ TextW(Part(lane[1]).min) \in Nat
  BY <1>1, EndTerms, LaneBlocks DEF EndLeft
<1>5. x \in Texts /\ x.left = EndLeft /\ x.block = EndBlock
  BY <1>4 DEF Texts
<1>6. Drawing!NewText <=> labels[n].block # EndBlock
  BY <1>4 DEF Drawing!NewText, Drawing!Last
<1>7. Drawing!Free(EndLeft) <=> EndLeft >= labels[n].right
  BY <1>3 DEF Drawing!Free, Beside
<1>8. s = IF Drawing!NewText THEN IF Drawing!Free(EndLeft) THEN Append(labels, x) ELSE labels
          ELSE labels
  BY <1>4, TextTypes DEF Drawing!Labelled
<1>9. labels # <<>> /\ labels[1].left = 4 * scale[2]
  BY <1>3 DEF Beside
<1>10. \A k \in 1 .. n : labels[k] \in Texts
  BY <1>1
<1> HIDE DEF s, x
<1>11. CASE Drawing!NewText /\ Drawing!Free(EndLeft)
  <2> DEFINE a == Append(labels, x)
  <2>1. ASSUME NEW k \in 1 .. n PROVE labels[k].block < EndBlock
    <3>1. /\ labels[k].block \in Nat /\ labels[n].block \in Nat /\ labels[n].block <= EndBlock
      BY <1>1, <1>3, <1>10 DEF Texts, InOrder
    <3>2. labels[n].block < EndBlock
      BY <1>4, <1>6, <1>11, <3>1
    <3>3. k = n \/ labels[k].block < labels[n].block
      BY <1>1, <1>3 DEF InOrder
    <3>4. QED
      BY <1>4, <3>1, <3>2, <3>3
  <2>2. EndLeft >= labels[n].right /\ EndBlock <= EndBlock
    BY <1>4, <1>7, <1>11
  <2>3. /\ InOrder(a) /\ Len(a) = n + 1 /\ a[Len(a)] = x
        /\ \A k \in 1 .. n : a[k] = labels[k]
    BY <1>1, <1>5, <2>1, <2>2, OneMore
  <2> HIDE DEF a
  <2>4. a # <<>> /\ a[1].left = 4 * scale[2] /\ a[Len(a)].block = EndBlock
    BY <1>1, <1>3, <1>5, <1>9, <2>3
  <2>5. s = a
    BY <1>8, <1>11 DEF a
  <2>6. InOrder(s) /\ s # <<>> /\ s[1].left = 4 * scale[2] /\ s[Len(s)].block = EndBlock
    BY <2>3, <2>4, <2>5
  <2>7. QED
    BY <2>6 DEF s
<1>12. CASE ~Drawing!NewText
  <2>1. s = labels /\ labels[n].block = EndBlock
    BY <1>6, <1>8, <1>12
  <2>2. InOrder(s) /\ s # <<>> /\ s[1].left = 4 * scale[2] /\ s[Len(s)].block = EndBlock
    BY <1>1, <1>9, <2>1
  <2>3. QED
    BY <2>2 DEF s
<1>13. CASE Drawing!NewText /\ ~Drawing!Free(EndLeft)
  <2>1. s = labels
    BY <1>8, <1>13
  <2>2. labels[n].right \in Int
    BY <1>3, <1>10 DEF Texts
  <2>3. ~Room
    <3> SUFFICES ASSUME Room PROVE FALSE
      OBVIOUS
    <3>1. ~(EndLeft >= labels[n].right)
      BY <1>7, <1>13
    <3>2. labels[n].right = 4 * scale[2] + TextW(Part(lane[1]).min)
      BY <1>3, <1>4, <2>2, <3>1 DEF Beside
    <3>3. EndLeft = Drawing!LaneEnd - TextW(EndBlock)
      BY DEF EndLeft
    <3>4. QED
      BY <1>4, <3>1, <3>2, <3>3
  <2>4. InOrder(s) /\ s # <<>> /\ s[1].left = 4 * scale[2]
    BY <1>1, <1>9, <2>1
  <2>5. QED
    BY <2>3, <2>4 DEF s
<1>14. QED
  BY <1>11, <1>12, <1>13

-----------------------------------------------------------------------------
\* A lane that is still to be drawn.
LaneAhead(l) == l \in Seq(Places) /\ Len(l) > 0 /\ (\E pid : Orderly(l, pid)) /\ Fits(l)

DrawInv ==
  \/ DrawingEnded
  \/ /\ page \in Pages /\ ScaleOK
     /\ \A l \in todo : LaneAhead(l)
     /\ step \in {"lane", "bars", "labels"}
     /\ IF lane = <<>> THEN step = "lane" /\ labels = <<>> ELSE LaneNow
     /\ step = "bars" => labels = <<>> /\ next = 1
     /\ lane # <<>> /\ step # "bars" => BracketsOK(brackets)
     /\ step = "labels" => lane # <<>> /\ LabelsOK
     /\ step = "bars" => lane # <<>>
     /\ Drawing!Drawn => Legible

\* Before the first lane.
LEMMA InitDrawing == ASSUME ResponseInit PROVE DrawInv
<1>1. CASE Init /\ DrawingEnded
  BY <1>1 DEF DrawInv
<1>2. CASE RangesEnded /\ Drawing!Init
  <2>1. /\ page \in Pages /\ shown \in Shown /\ todo = Drawing!Lanes /\ scale = Drawing!Scale
        /\ lane = <<>> /\ step = "lane" /\ labels = <<>>
    BY <1>2 DEF Drawing!Init
  <2>2. ScaleOK /\ \A l \in Drawing!Lanes : Fits(l)
    BY <2>1, ScaleFits
  <2>3. ASSUME NEW l \in todo PROVE LaneAhead(l)
    <3>1. PICK pid \in shown : l = Drawing!LaneOf(pid) /\ l # <<>>
      BY <2>1 DEF Drawing!Lanes
    <3>2. Orderly(l, pid)
      BY <2>1, <3>1, LaneIsOrderly
    <3>3. l \in Seq(Places)
      BY <3>2 DEF Orderly
    <3>4. Len(l) > 0
      BY <3>1, <3>3
    <3>5. QED
      BY <2>1, <2>2, <3>2, <3>3, <3>4 DEF LaneAhead
  <2>4. ~Drawing!Drawn
    BY <2>1 DEF Drawing!Drawn
  <2>5. QED
    BY <2>1, <2>2, <2>3, <2>4 DEF DrawInv
<1>3. QED
  BY <1>1, <1>2 DEF ResponseInit

\* What holds of a lane, and of the one being drawn, while page, scale and lane stay.
LEMMA SameLanes ==
  ASSUME page' = page, scale' = scale
  PROVE  ScaleOK' = ScaleOK /\ \A l : LaneAhead(l)' = LaneAhead(l)
<1>1. /\ Places' = Places /\ \A i : Part(i)' = Part(i)
  BY DEF Places, Part
<1>2. ScaleOK' = ScaleOK
  BY DEF ScaleOK
<1>3. \A l : Fits(l)' = Fits(l)
  BY <1>1 DEF Fits, IsSum, RoomOf, Greater
<1>4. \A l, pid : Orderly(l, pid)' = Orderly(l, pid)
  BY <1>1 DEF Orderly
<1>5. QED
  BY <1>1, <1>2, <1>3, <1>4 DEF LaneAhead

LEMMA SameLane ==
  ASSUME page' = page, scale' = scale, lane' = lane, bars' = bars
  PROVE  /\ LaneNow' = LaneNow
         /\ \A B : BracketsOK(B)' = BracketsOK(B)
         /\ \A s : InOrder(s)' = InOrder(s) /\ Beside(s)' = Beside(s)
         /\ \A i : Part(i)' = Part(i)
         /\ EndBlock' = EndBlock /\ Drawing!LaneEnd' = Drawing!LaneEnd
         /\ \A block : TextW(block)' = TextW(block)
<1>1. Places' = Places /\ \A i : Part(i)' = Part(i)
  BY DEF Places, Part
<1>2. Fits(lane)' = Fits(lane)
  BY <1>1 DEF Fits, IsSum, RoomOf, Greater
<1>3. \A pid : Orderly(lane, pid)' = Orderly(lane, pid)
  BY <1>1 DEF Orderly
<1>4. AreBars(bars, lane)' = AreBars(bars, lane)
  BY <1>1 DEF AreBars, Wide, Greater
<1>5. LaneNow' = LaneNow
  BY <1>1, <1>2, <1>3, <1>4 DEF LaneNow
<1>6. \A k : Drawing!Left(k)' = Drawing!Left(k) /\ Drawing!Right(k)' = Drawing!Right(k)
  BY DEF Drawing!Left, Drawing!Right
<1>7. \A B : BracketsOK(B)' = BracketsOK(B)
  BY <1>6 DEF BracketsOK, OverOwn
<1>8. EndBlock' = EndBlock
  BY <1>1 DEF EndBlock
<1>9. Drawing!LaneEnd' = Drawing!LaneEnd
  BY DEF Drawing!LaneEnd, Drawing!Right
<1>10. \A block : TextW(block)' = TextW(block)
  BY DEF TextW
<1>11. EndLeft' = EndLeft
  BY <1>8, <1>9, <1>10 DEF EndLeft
<1>12. \A s : InOrder(s)' = InOrder(s)
  BY <1>8 DEF InOrder
<1>13. \A s : Beside(s)' = Beside(s)
  BY <1>1, <1>10, <1>11 DEF Beside
<1>14. QED
  BY <1>1, <1>5, <1>7, <1>8, <1>9, <1>10, <1>12, <1>13

\* Each action keeps it: a lane with its bars,
LEMMA StartsLane == ASSUME DrawInv, Drawing!StartLane PROVE DrawInv'
<1>1. /\ ~DrawingEnded /\ page' = page /\ scale' = scale /\ step' = "bars" /\ labels' = <<>>
      /\ next' = 1 /\ lane' \in todo /\ todo' = todo \ {lane'} /\ bars' = Drawing!Bars(lane')
  BY DEF Drawing!StartLane, DrawingEnded
<1>2. page \in Pages /\ ScaleOK /\ \A l \in todo : LaneAhead(l)
  BY <1>1 DEF DrawInv
<1>3. PICK l \in todo : lane' = l
  BY <1>1
<1>4. LaneAhead(l) /\ l \in Seq(Places) /\ Len(l) > 0 /\ (\E pid : Orderly(l, pid)) /\ Fits(l)
  BY <1>2 DEF LaneAhead
<1>5. AreBars(Drawing!Bars(l), l)
  BY <1>2, <1>4, BarsAreBars
<1>6. PICK b : b = Drawing!Bars(l)
  OBVIOUS
<1>7. bars' = b
  BY <1>1, <1>3, <1>6
<1>8. Places' = Places /\ \A i : Part(i)' = Part(i)
  BY <1>1 DEF Places, Part
<1>9. LaneNow'
  <2>1. AreBars(b, l)' = AreBars(b, l)
    BY <1>1, <1>8 DEF AreBars, Wide, Greater
  <2>2. Fits(l)' = Fits(l) /\ \A pid : Orderly(l, pid)' = Orderly(l, pid)
    BY <1>1, <1>8 DEF Fits, IsSum, RoomOf, Greater, Orderly
  <2>3. Fits(l)' /\ AreBars(b, l)' /\ \E pid : Orderly(l, pid)'
    BY <1>4, <1>5, <1>6, <2>1, <2>2
  <2>4. Fits(lane)' /\ AreBars(bars, lane)' /\ \E pid : Orderly(lane, pid)'
    BY <1>3, <1>7, <2>3 DEF Fits, IsSum, RoomOf, AreBars, Orderly
  <2>5. lane' \in Seq(Places') /\ Len(lane') > 0
    BY <1>3, <1>4, <1>8
  <2>6. QED
    BY <2>4, <2>5 DEF LaneNow
<1>10. \A k \in todo' : LaneAhead(k)'
  <2>1. todo' \in SUBSET todo
    BY <1>1
  <2>2. QED
    BY <1>1, <1>2, <2>1, SameLanes
<1>11. ScaleOK' /\ page' \in Pages
  BY <1>1, <1>2, SameLanes
<1>12. lane' # <<>> /\ ~Drawing!Drawn'
  BY <1>1, <1>3, <1>4 DEF Drawing!Drawn
<1>13. QED
  BY <1>1, <1>9, <1>10, <1>11, <1>12 DEF DrawInv

\* What a step that stays on its lane keeps.
LEMMA OnLane ==
  ASSUME DrawInv, ~DrawingEnded, lane # <<>>, UNCHANGED <<page, scale, todo, lane, bars>>
  PROVE  /\ page \in Pages /\ ScaleOK /\ LaneNow
         /\ page' \in Pages /\ ScaleOK' /\ LaneNow' /\ lane' # <<>>
         /\ \A l \in todo' : LaneAhead(l)'
<1>1. page \in Pages /\ ScaleOK /\ LaneNow /\ \A l \in todo : LaneAhead(l)
  BY DEF DrawInv
<1>2. ScaleOK' /\ LaneNow' /\ \A l \in todo : LaneAhead(l)'
  BY <1>1, SameLanes, SameLane
<1>3. QED
  BY <1>1, <1>2

\* the brackets over them,
LEMMA DrawsBrackets == ASSUME DrawInv, Drawing!DrawBrackets PROVE DrawInv'
<1>1. /\ ~DrawingEnded /\ UNCHANGED <<page, scale, todo, lane, bars>> /\ step = "bars"
      /\ step' = "labels" /\ labels' = labels /\ next' = next /\ brackets' = BracketsNow
  BY DEF Drawing!DrawBrackets, DrawingEnded, BracketsNow, BracketOf
<1>2. lane # <<>> /\ labels = <<>> /\ next = 1
  BY <1>1 DEF DrawInv
<1>3. /\ page \in Pages /\ ScaleOK /\ LaneNow
      /\ page' \in Pages /\ ScaleOK' /\ LaneNow' /\ lane' # <<>>
      /\ \A l \in todo' : LaneAhead(l)'
  BY <1>1, <1>2, OnLane
<1>4. BracketsOK(brackets)'
  <2>1. PICK B : B = BracketsNow
    OBVIOUS
  <2>2. BracketsOK(B)
    BY <1>3, <2>1, BracketsDrawn
  <2>3. BracketsOK(B)'
    BY <1>1, <2>2, SameLane
  <2>4. QED
    BY <1>1, <2>1, <2>3 DEF BracketsOK
<1>5. LabelsOK'
  <2>1. Len(lane) \in Nat
    BY <1>3, NowTypes
  <2>2. next' = 1 /\ labels' = <<>> /\ lane' = lane
    BY <1>1, <1>2
  <2>3. QED
    BY <2>1, <2>2 DEF LabelsOK, InOrder
<1>6. ~Drawing!Drawn'
  BY <1>1 DEF Drawing!Drawn
<1>7. QED
  BY <1>1, <1>3, <1>4, <1>5, <1>6 DEF DrawInv

\* a number,
LEMMA LabelsPart == ASSUME DrawInv, Drawing!LabelPart PROVE DrawInv'
<1>1. /\ ~DrawingEnded /\ UNCHANGED <<page, scale, todo, lane, bars>> /\ step = "labels"
      /\ step' = step /\ brackets' = brackets /\ next' = next + 1
      /\ next <= Len(lane) /\ ~Drawing!NearEnd(next)
      /\ labels' = Drawing!Labelled(Drawing!Left(next), Drawing!P(lane[next]).min)
  BY DEF Drawing!LabelPart, DrawingEnded
<1>2. lane # <<>> /\ LabelsOK /\ BracketsOK(brackets)
  BY <1>1 DEF DrawInv
<1>3. /\ page \in Pages /\ ScaleOK /\ LaneNow
      /\ page' \in Pages /\ ScaleOK' /\ LaneNow' /\ lane' # <<>>
      /\ \A l \in todo' : LaneAhead(l)'
  BY <1>1, <1>2, OnLane
<1>4. PICK s : s = labels'
  OBVIOUS
<1>5. /\ InOrder(s) /\ Beside(s)
      /\ \A j \in 1 .. Len(s) : \A k \in next + 1 .. Len(lane) : s[j].block < Part(lane[k]).min
  BY <1>1, <1>2, <1>3, <1>4, LabelStep
<1>6. /\ InOrder(s)' /\ Beside(s)' /\ \A i : Part(i)' = Part(i)
  BY <1>1, <1>5, SameLane
<1>7. InOrder(labels)' /\ Beside(labels)'
  BY <1>4, <1>6 DEF InOrder, Beside
<1>8. next' \in 1 .. Len(lane') + 1 /\ next' # 1
  <2>1. Len(lane) \in Nat /\ next \in 1 .. Len(lane) + 1
    BY <1>2, <1>3, NowTypes DEF LabelsOK
  <2>2. QED
    BY <1>1, <2>1
<1>9. \A j \in 1 .. Len(labels') : \A k \in next' .. Len(lane') :
        labels'[j].block < page'.parts[lane'[k]].min
  BY <1>1, <1>4, <1>5 DEF Part
<1>10. LabelsOK'
  BY <1>7, <1>8, <1>9 DEF LabelsOK, Part
<1>11. BracketsOK(brackets)'
  BY <1>1, <1>2, SameLane DEF BracketsOK
<1>12. ~Drawing!Drawn'
  BY <1>1 DEF Drawing!Drawn
<1>13. QED
  BY <1>1, <1>3, <1>10, <1>11, <1>12 DEF DrawInv

\* and the last one.
LEMMA LabelsEnd == ASSUME DrawInv, Drawing!LabelEnd PROVE DrawInv'
<1>1. /\ ~DrawingEnded /\ UNCHANGED <<page, scale, todo, lane, bars>> /\ step = "labels"
      /\ step' = "lane" /\ brackets' = brackets /\ next' = next
      /\ next <= Len(lane) => Drawing!NearEnd(next)
      /\ labels' = IF Drawing!NewText
                   THEN Drawing!Labelled(Drawing!LaneEnd - Drawing!EndW, Drawing!End) ELSE labels
  BY DEF Drawing!LabelEnd, DrawingEnded
<1>2. lane # <<>> /\ LabelsOK /\ BracketsOK(brackets)
  BY <1>1 DEF DrawInv
<1>3. /\ page \in Pages /\ ScaleOK /\ LaneNow
      /\ page' \in Pages /\ ScaleOK' /\ LaneNow' /\ lane' # <<>>
      /\ \A l \in todo' : LaneAhead(l)'
  BY <1>1, <1>2, OnLane
<1>4. PICK s : s = labels'
  OBVIOUS
<1>5. /\ InOrder(s) /\ s # <<>> /\ s[1].left = 4 * scale[2]
      /\ Drawing!LaneEnd - 4 * scale[2] >= TextW(Part(lane[1]).min) + TextW(EndBlock)
           => s[Len(s)].block = EndBlock
  BY <1>1, <1>2, <1>3, <1>4, LabelLast
<1>6. /\ InOrder(s)' /\ EndBlock' = EndBlock /\ Drawing!LaneEnd' = Drawing!LaneEnd
      /\ \A block : TextW(block)' = TextW(block)
      /\ \A i : Part(i)' = Part(i)
  BY <1>1, <1>5, SameLane
<1>7. InOrder(labels)'
  BY <1>4, <1>6 DEF InOrder
<1>8. TextW(EndBlock)' = TextW(EndBlock) /\ TextW(Part(lane[1]).min)' = TextW(Part(lane[1]).min)
  BY <1>1, <1>6 DEF TextW, Part
<1>9. Legible'
  BY <1>1, <1>4, <1>5, <1>6, <1>7, <1>8 DEF Legible
<1>10. BracketsOK(brackets)'
  BY <1>1, <1>2, SameLane DEF BracketsOK
<1>11. QED
  BY <1>1, <1>3, <1>9, <1>10 DEF DrawInv

\* No step breaks it.
LEMMA StepDrawing == DrawInv /\ [ResponseNext]_<<vars, drawing>> => DrawInv'
<1> SUFFICES ASSUME DrawInv, [ResponseNext]_<<vars, drawing>> PROVE DrawInv'
  OBVIOUS
<1>1. CASE Drawing!Next
  BY <1>1, StartsLane, DrawsBrackets, LabelsPart, LabelsEnd DEF Drawing!Next
<1>2. CASE UNCHANGED drawing
  <2>1. UNCHANGED <<page, shown, scale, todo, lane, bars, step, next, brackets, labels>>
    BY <1>2 DEF drawing
  <2>2. CASE DrawingEnded
    BY <2>1, <2>2 DEF DrawingEnded, DrawInv
  <2>3. CASE ~DrawingEnded
    <3>1. /\ ScaleOK' = ScaleOK /\ (\A l : LaneAhead(l)' = LaneAhead(l))
          /\ LaneNow' = LaneNow /\ (\A B : BracketsOK(B)' = BracketsOK(B))
          /\ \A s : InOrder(s)' = InOrder(s) /\ Beside(s)' = Beside(s)
          /\ \A i : Part(i)' = Part(i)
          /\ EndBlock' = EndBlock /\ Drawing!LaneEnd' = Drawing!LaneEnd
          /\ \A block : TextW(block)' = TextW(block)
      BY <2>1, SameLanes, SameLane
    <3>2. BracketsOK(brackets)' = BracketsOK(brackets)
      BY <2>1, <3>1 DEF BracketsOK
    <3>3. InOrder(labels)' = InOrder(labels) /\ Beside(labels)' = Beside(labels)
      BY <2>1, <3>1 DEF InOrder, Beside
    <3>4. LabelsOK' = LabelsOK
      BY <2>1, <3>1, <3>3 DEF LabelsOK
    <3>5. TextW(EndBlock)' = TextW(EndBlock) /\ TextW(Part(lane[1]).min)' = TextW(Part(lane[1]).min)
      BY <2>1, <3>1 DEF TextW, Part
    <3>6. Legible' = Legible
      BY <2>1, <3>1, <3>3, <3>5 DEF Legible
    <3>7. Drawing!Drawn' = Drawing!Drawn
      BY <2>1 DEF Drawing!Drawn
    <3>8. QED
      BY <2>1, <2>3, <3>1, <3>2, <3>4, <3>6, <3>7 DEF DrawInv
  <2>4. QED
    BY <2>2, <2>3
<1>3. QED
  BY <1>1, <1>2 DEF ResponseNext

\* So it always holds.
LEMMA DrawingInvariant == ResponseSpec => []DrawInv
<1>1. ResponseInit => DrawInv
  BY InitDrawing
<1>2. QED
  BY <1>1, StepDrawing, PTL DEF ResponseSpec

\* Whatever the weights and block numbers of a page, and whatever the chart's width, the
\* numbers below a lane can be read and its last block is written if there is room for it.
THEOREM NumbersAreLegible == ResponseSpec => []NumbersLegible
<1>1. DrawInv => NumbersLegible
  <2> SUFFICES ASSUME DrawInv PROVE NumbersLegible
    OBVIOUS
  <2>1. CASE labels = <<>> /\ ~Drawing!Drawn
    BY <2>1 DEF NumbersLegible, Drawing!NumbersLegible
  <2>2. CASE InOrder(labels) /\ (Drawing!Drawn => LaneNow /\ Legible /\ page \in Pages /\ ScaleOK)
    <3>1. /\ Len(labels) \in Nat /\ DOMAIN labels = 1 .. Len(labels)
          /\ \A k \in 1 .. Len(labels) : labels[k] \in Texts
      BY <2>2 DEF InOrder
    <3>2. \A k \in 1 .. Len(labels) - 1 : labels[k].right <= labels[k + 1].left
      BY <2>2 DEF InOrder
    <3>3. ASSUME NEW j \in DOMAIN labels, NEW k \in DOMAIN labels, labels[k].block = labels[j].block
          PROVE  j = k
      <4>1. /\ labels[j].block \in Nat /\ labels[k].block \in Nat /\ j \in Int /\ k \in Int
            /\ j < k => labels[j].block < labels[k].block
            /\ k < j => labels[k].block < labels[j].block
        BY <2>2, <3>1 DEF InOrder, Texts
      <4>2. QED
        BY <3>3, <4>1
    <3>4. ASSUME Drawing!Drawn
          PROVE  /\ labels # <<>> /\ Drawing!Head(labels).left = Drawing!Left(1)
                 /\ Drawing!LaneEnd - Drawing!Px(Drawing!Pad)
                      >= Drawing!Px(Drawing!LabelWidth(Drawing!P(lane[1]).min)) + Drawing!EndW
                      => Drawing!Last(labels).block = Drawing!End
      <4>1. LaneNow /\ Legible /\ page \in Pages /\ ScaleOK
        BY <2>2, <3>4
      <4>2. /\ labels # <<>> /\ labels[1].left = 4 * scale[2] /\ Drawing!Left(1) = 4 * scale[2]
            /\ Drawing!Px(Drawing!Pad) = 4 * scale[2] /\ Drawing!EndW = TextW(EndBlock)
            /\ Drawing!End = EndBlock
        BY <4>1, EndTerms DEF Legible
      <4>3. Drawing!Px(Drawing!LabelWidth(Drawing!P(lane[1]).min)) = TextW(Part(lane[1]).min)
        BY <4>1, TextTypes DEF Drawing!P, Part
      <4>4. QED
        BY <4>1, <4>2, <4>3 DEF Legible, Drawing!Last
    <3>5. QED
      BY <3>2, <3>3, <3>4 DEF NumbersLegible, Drawing!NumbersLegible
  <2>3. QED
    <3>1. CASE DrawingEnded
      BY <2>1, <3>1 DEF DrawingEnded, Drawing!Drawn
    <3>2. CASE ~DrawingEnded /\ lane = <<>>
      BY <2>1, <3>2 DEF DrawInv, Drawing!Drawn
    <3>3. CASE ~DrawingEnded /\ lane # <<>>
      <4>1. LaneNow /\ page \in Pages /\ ScaleOK /\ step \in {"lane", "bars", "labels"}
        BY <3>3 DEF DrawInv
      <4>2. CASE step = "lane"
        BY <2>2, <3>3, <4>1, <4>2 DEF DrawInv, Drawing!Drawn, Legible
      <4>3. CASE step = "labels"
        BY <2>2, <3>3, <4>1, <4>3 DEF DrawInv, Drawing!Drawn, LabelsOK
      <4>4. CASE step = "bars"
        BY <2>1, <3>3, <4>1, <4>4 DEF DrawInv, Drawing!Drawn
      <4>5. QED
        BY <4>1, <4>2, <4>3, <4>4
    <3>4. QED
      BY <3>1, <3>2, <3>3
<1>2. QED
  BY <1>1, DrawingInvariant, PTL

\* Whatever the weights of a page, one scale keeps every lane within the chart, or within a
\* tenth of it besides its gaps and least widths; and whatever candidates the service makes,
\* their brackets are apart and over their own parts.
THEOREM LanesAreLaidOut == ResponseSpec => []LaneLaidOut
<1>1. DrawInv => LaneLaidOut
  <2> SUFFICES ASSUME DrawInv, Drawing!Drawn PROVE LaneLaidOut
    BY DEF LaneLaidOut, Drawing!LanesFit, Drawing!BracketsOverTheirParts
  <2>1. LaneNow /\ page \in Pages /\ ScaleOK /\ BracketsOK(brackets)
    BY DEF Drawing!Drawn, DrawInv, DrawingEnded
  <2>2. Drawing!LanesFit
    <3>1. Drawing!LaneEnd - Drawing!Px(Drawing!Pad)
            = (bars[Len(lane)][1] + bars[Len(lane)][2]) - 4 * scale[2]
      <4>1. Drawing!LaneEnd = bars[Len(lane)][1] + bars[Len(lane)][2]
        BY DEF Drawing!LaneEnd, Drawing!Right
      <4>2. Drawing!Px(Drawing!Pad) = 4 * scale[2]
        BY <2>1, EndTerms
      <4>3. QED
        BY <4>1, <4>2, Zenon
    <3>2. Drawing!LaneEnd - Drawing!Px(Drawing!Pad)
            <= Drawing!Max({Avail, 2 * (Len(lane) - 1) + 2 * Len(lane) + Avail \div 10}) * scale[2]
      <4>1. lane \in Seq(Places) /\ AreBars(bars, lane) /\ Fits(lane) /\ Len(lane) > 0
        BY <2>1 DEF LaneNow
      <4>2. (bars[Len(lane)][1] + bars[Len(lane)][2]) - 4 * scale[2]
              <= Drawing!Max({Avail, 2 * (Len(lane) - 1) + 2 * Len(lane) + Avail \div 10}) * scale[2]
        BY <2>1, <4>1, LaneFits
      <4>3. QED
        BY <3>1, <4>2, Zenon
    <3>3. QED
      BY <3>2 DEF Drawing!LanesFit, Drawing!Px, Drawing!Pad, Drawing!Gap, Drawing!MinW
  <2>3. Drawing!BracketsOverTheirParts
    BY <2>1 DEF BracketsOK, OverOwn, Drawing!BracketsOverTheirParts
  <2>4. QED
    BY <2>2, <2>3 DEF LaneLaidOut
<1>2. QED
  BY <1>1, DrawingInvariant, PTL
=============================================================================
