------------------------------- MODULE PageDrawing -------------------------------
(***************************************************************************)
(* web/app.js, render: the lanes of the chart with their bars, the         *)
(* brackets of the candidates above them and the block numbers below.      *)
(*                                                                         *)
(* Lengths are pixels times the denominator of the scale, so that they are *)
(* integers.  The other two tracks of brackets are drawn as this one is.   *)
(* Only what lies along the lane is modelled, not its height or colours.   *)
(***************************************************************************)
EXTENDS PartRuns, FiniteSets, FiniteSetsExt, SequencesExt

CONSTANTS
  Responses,  \* parts with weight, first and last block; candidates as pairs of positions
  Shown,      \* the partitions a filter lets through
  Avail,      \* width of the chart, 200 pixels at least
  MaxDigits   \* of a block number

Pad  == 4
Gap  == 2
MinW == 2
Digits(block) == 1 + Cardinality({d \in 1 .. MaxDigits - 1 : block >= 10^d})
LabelWidth(block) == 6 * Digits(block) + 6

VARIABLES
  resp, shown,
  scale,    \* pixels for a unit of weight, as a pair
  todo,     \* lanes to be drawn: sequences of positions in resp.parts
  lane,     \* the one being drawn
  pos,      \* where its bars start and how wide they are
  pc,
  next,     \* the part of the lane whose label comes next
  brackets, \* of the lane: what is drawn over a candidate
  labels    \* of the lane, from the left

vars == <<resp, shown, scale, todo, lane, pos, pc, next, brackets, labels>>

P(i)      == resp.parts[i]
LaneOf(pid) ==
  FoldLeftDomain(LAMBDA l, i : IF P(i).pid = pid THEN Append(l, i) ELSE l, <<>>, resp.parts)
Lanes     == {LaneOf(pid) : pid \in shown} \ {<<>>}

Room(l)      == Max({Avail - Gap * (Len(l) - 1) - MinW * Len(l), Avail \div 10})
Total(l)     == FoldLeft(LAMBDA sum, i : sum + P(i).weight, 0, l)

\* The least of Room / Total over the lanes; 1 if every weight is 0.
Scale ==
  LET heavy == {l \in Lanes : Total(l) > 0}
  IN  IF heavy = {} THEN <<1, 1>>
      ELSE LET l == CHOOSE l \in heavy : \A k \in heavy : Room(l) * Total(k) <= Room(k) * Total(l)
           IN  <<Room(l), Total(l)>>
Px(n)    == n * scale[2]
Width(i) == Max({Px(MinW), P(i).weight * scale[1]})

Left(k)  == pos[k][1]
Right(k) == pos[k][1] + pos[k][2]
LaneEnd  == Right(Len(lane))

\* One bar after the other.
Bars(l) ==
  FoldLeft(LAMBDA bars, i :
             Append(bars, <<IF bars = <<>> THEN Px(Pad)
                            ELSE Last(bars)[1] + Last(bars)[2] + Px(Gap), Width(i)>>), <<>>, l)

\* Mistake: a bracket ends where its last bar starts.
SpanToLast(ks) == <<Min({Left(k) : k \in ks}), Max({Left(k) : k \in ks})>>
Span(ks)       == <<Min({Left(k) : k \in ks}), Max({Right(k) : k \in ks})>>
InLane(c)      == {k \in DOMAIN lane : c[1] <= lane[k] /\ lane[k] <= c[2]}

-----------------------------------------------------------------------------
(***************************************************************************)
(* render.                                                                 *)
(***************************************************************************)
StartLane ==
  /\ pc = "lane" /\ todo # {} /\ pc' = "bars"
  /\ lane' \in todo /\ todo' = todo \ {lane'} /\ pos' = Bars(lane')
  /\ brackets' = {} /\ labels' = <<>> /\ next' = 1
  /\ UNCHANGED <<resp, shown, scale>>

DrawBrackets ==
  /\ pc = "bars" /\ pc' = "labels"
  /\ brackets' = {[cand |-> c, span |-> Span(InLane(c))]
                    : c \in {c \in Range(resp.candidates) : InLane(c) # {}}}
  /\ UNCHANGED <<resp, shown, scale, todo, lane, pos, next, labels>>

\* label: where it would be, unless it runs into the one before it.
\* Mistake: it is drawn all the same.
AlwaysFree(left) == TRUE
Free(left) == labels = <<>> \/ left >= labels[Len(labels)].right
Labelled(left, block) ==
  IF Free(left)
  THEN Append(labels, [left |-> left, right |-> left + Px(LabelWidth(block)), block |-> block])
  ELSE labels

End  == P(Last(lane)).max
EndW == Px(LabelWidth(End))

\* The loop ends where the label would run into the last one.
NearEnd(k) == k > 1 /\ Left(k) + Px(LabelWidth(P(lane[k]).min)) > LaneEnd - EndW

LabelPart ==
  /\ pc = "labels" /\ next <= Len(lane) /\ ~NearEnd(next)
  /\ labels' = Labelled(Left(next), P(lane[next]).min) /\ next' = next + 1
  /\ UNCHANGED <<resp, shown, scale, todo, lane, pos, pc, brackets>>

NewText == Last(labels).block # End
LabelEnd ==
  /\ pc = "labels" /\ (next <= Len(lane) => NearEnd(next)) /\ pc' = "lane"
  /\ labels' = IF NewText THEN Labelled(LaneEnd - EndW, End) ELSE labels
  /\ UNCHANGED <<resp, shown, scale, todo, lane, pos, next, brackets>>

Init ==
  /\ resp \in Responses /\ shown \in Shown
  /\ todo = Lanes /\ scale = Scale /\ lane = <<>> /\ pos = <<>> /\ pc = "lane" /\ next = 1
  /\ brackets = {} /\ labels = <<>>

Next == StartLane \/ DrawBrackets \/ LabelPart \/ LabelEnd

Spec == Init /\ [][Next]_vars

-----------------------------------------------------------------------------
Drawn == pc = "lane" /\ lane # <<>>

\* The numbers below a lane can be read: they do not run into each other and none is there
\* twice; the first part has its own, and the last block of the partition is written too,
\* unless the lane is too short for it beside the first.
NumbersLegible ==
  /\ \A k \in 1 .. Len(labels) - 1 : labels[k].right <= labels[k + 1].left
  /\ \A j, k \in DOMAIN labels : labels[j].block = labels[k].block => j = k
  /\ Drawn => labels # <<>> /\ Head(labels).left = Left(1)
  /\ Drawn /\ LaneEnd - Px(Pad) >= Px(LabelWidth(P(lane[1]).min)) + EndW
       => Last(labels).block = End

\* A lane is as wide as the chart at most, unless its gaps and least widths leave less than
\* a tenth of it; then that tenth is what it has besides them.
LanesFit ==
  Drawn => LaneEnd - Px(Pad)
             <= Px(Max({Avail, Gap * (Len(lane) - 1) + MinW * Len(lane) + Avail \div 10}))

\* Brackets of candidates do not overlap, and each is over its own parts and no other's.
BracketsOverTheirParts ==
  Drawn =>
    /\ \A b, c \in brackets : b # c => b.span[2] < c.span[1] \/ c.span[2] < b.span[1]
    /\ \A b \in brackets : \A k \in DOMAIN lane :
         IF b.cand[1] <= lane[k] /\ lane[k] <= b.cand[2]
         THEN b.span[1] <= Left(k) /\ Right(k) <= b.span[2]
         ELSE Right(k) < b.span[1] \/ b.span[2] < Left(k)
=============================================================================
