------------------------------- MODULE MCResponse -------------------------------
(***************************************************************************)
(* What becomes of a response, in one run of two models: the loop of       *)
(* candidates in the service, and the lanes the page draws.  They take     *)
(* their responses from sets of their own, for they look at different      *)
(* fields; in a behaviour only one of them moves.                          *)
(***************************************************************************)
EXTENDS CandidateRanges

-----------------------------------------------------------------------------
(***************************************************************************)
(* CandidateRanges: every response with up to five parts in two            *)
(* partitions: which parts a running merge holds, which ones a queued      *)
(* merge, and which were modified in the future of the query that reads    *)
(* the clock.                                                              *)
(***************************************************************************)
MCPartitions == {"p1", "p2"}
MCMaxAge     == 9

\* n parts in block order, the first k of them in p1.
PartList(n, k, late) ==
  [i \in 1..n |-> [name |-> i, pid |-> IF i <= k THEN "p1" ELSE "p2",
                   mtime |-> IF i \in late THEN 5 ELSE i]]

Lists == UNION {{PartList(n, k, late) : k \in 0..n, late \in {{}, 1..n, {1, 3}}} : n \in 0..5}

\* A merge may hold parts that are not, or no longer, in the list.
MCResponses ==
  [parts : Lists, merges : {{m} : m \in SUBSET (1..5)}, queued : {{}, {{2}}, {{4, 5}}},
   now : {4}, limit : {0, 2}]

\* The loop is over, and nothing was found.
RangesEnded ==
  /\ resp = [parts |-> <<>>, merges |-> {{}}, queued |-> {}, now |-> 4, limit |-> 0]
  /\ pc = "done" /\ pos = 1 /\ cur = <<>> /\ ranges = <<>> /\ answer = <<>>
  /\ stats = [p \in Partitions |-> [count |-> 0, minAge |-> MaxAge]]

-----------------------------------------------------------------------------
(***************************************************************************)
(* PageDrawing: every page with up to four parts in two partitions, light  *)
(* and heavy, with block numbers of one to three digits and up to two      *)
(* candidates, all shown or one partition only; and a partition of 60      *)
(* small parts, whose gaps and least widths leave nothing of the chart for *)
(* their sizes.                                                            *)
(***************************************************************************)
CONSTANTS Pages, Shown, Avail, MaxDigits
\* Parts as Store.Parts orders them: ClickHouse's active parts do not overlap
\* (queries.go:206).  The candidates are those the service makes; see CandidateRanges.
ASSUME DrawingAssumption ==
  /\ Avail \in Nat /\ MaxDigits \in Nat
  /\ \A pids \in Shown : IsFiniteSet(pids)
  /\ \A r \in Pages :
       /\ Len(r.parts) \in Nat /\ DOMAIN r.parts = 1 .. Len(r.parts)
       /\ \A i \in DOMAIN r.parts : LET p == r.parts[i] IN
            p.weight \in Nat /\ p.min \in Nat /\ p.max \in Nat /\ p.min <= p.max
       /\ \A i, j \in DOMAIN r.parts :
            i < j /\ r.parts[i].pid = r.parts[j].pid => r.parts[i].max < r.parts[j].min
       /\ r.candidates \in Seq(Nat \X Nat)
       /\ AreCandidates(r.parts, {}, Len(r.candidates), r.candidates)

VARIABLES page, shown, scale, todo, lane, bars, step, next, brackets, labels

drawing == <<page, shown, scale, todo, lane, bars, step, next, brackets, labels>>

Drawing == INSTANCE PageDrawing WITH Responses <- Pages, resp <- page, pos <- bars, pc <- step

\* First and last blocks: parts of one insert, small merged ones, and large ones.
Blocks == {<< <<1, 9>>, <<10, 10>>, <<11, 99>>, <<100, 100>> >>,
           << <<1, 60>>, <<61, 61>>, <<62, 98>>, <<99, 120>> >>}

\* n parts, the first k of them in p1.
PageLists(n) ==
  {[i \in 1 .. n |-> [name |-> i, pid |-> IF i <= k THEN "p1" ELSE "p2",
                      weight |-> w[i], min |-> b[i][1], max |-> b[i][2]]]
     : k \in {1, 2, n}, w \in [1 .. n -> {0, 1, 5}], b \in Blocks}

Crowd == [i \in 1 .. 60 |-> [name |-> i, pid |-> "p2", weight |-> i % 2, min |-> i, max |-> i]]

Candidates == {<<>>, << <<1, 2>> >>, << <<2, 4>> >>, << <<3, 4>>, <<1, 2>> >>}

MCPages ==
  {r \in [parts : UNION {PageLists(n) : n \in 0 .. 4} \cup {Crowd}, candidates : Candidates] :
     AreCandidates(r.parts, {}, 2, r.candidates)}

MCShown == {{"p1", "p2"}, {"p2"}}

\* Nothing is left to draw.
DrawingEnded ==
  /\ page = [parts |-> <<>>, candidates |-> <<>>] /\ shown = {} /\ scale = <<1, 1>>
  /\ todo = {} /\ lane = <<>> /\ bars = <<>> /\ step = "lane" /\ next = 1
  /\ brackets = {} /\ labels = <<>>

-----------------------------------------------------------------------------
ResponseInit ==
  \/ Init /\ DrawingEnded
  \/ RangesEnded /\ Drawing!Init

ResponseNext ==
  \/ Next /\ UNCHANGED drawing
  \/ Drawing!Next /\ UNCHANGED vars

ResponseSpec == ResponseInit /\ [][ResponseNext]_<<vars, drawing>>

\* The numbers below the bars can be read; see PageDrawing.
NumbersLegible == Drawing!NumbersLegible

\* A lane has the room it should, and its brackets are where they belong; see PageDrawing.
LaneLaidOut == Drawing!LanesFit /\ Drawing!BracketsOverTheirParts
=============================================================================
