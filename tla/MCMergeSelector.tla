---------------------------- MODULE MCMergeSelector ----------------------------
(***************************************************************************)
(* Calls of Select on every range of up to four small parts, beside a      *)
(* second range, and the calls of simple_test.go except the longest.        *)
(***************************************************************************)
EXTENDS MergeSelectorReference

MCPartitions == {"p1", "p2"}

\* floor(100 * log2(n)) for n in 1..128.
MCLog2 ==
  <<0, 100, 158, 200, 232, 258, 280, 300, 316, 332, 345, 358, 370, 380, 390, 400,
    408, 416, 424, 432, 439, 445, 452, 458, 464, 470, 475, 480, 485, 490, 495, 500,
    504, 508, 512, 516, 520, 524, 528, 532, 535, 539, 542, 545, 549, 552, 555, 558,
    561, 564, 567, 570, 572, 575, 578, 580, 583, 585, 588, 590, 593, 595, 597, 600,
    602, 604, 606, 608, 610, 612, 614, 616, 618, 620, 622, 624, 626, 628, 630, 632,
    633, 635, 637, 639, 640, 642, 644, 645, 647, 649, 650, 652, 653, 655, 656, 658,
    659, 661, 662, 664, 665, 667, 668, 670, 671, 672, 674, 675, 676, 678, 679, 680,
    682, 683, 684, 685, 687, 688, 689, 690, 691, 693, 694, 695, 696, 697, 698, 700>>

\* DefaultSettings() with sizes in MiB and reals in hundredths.
DefaultSettings ==
  [maxParts |-> 100, minParts |-> 0, partsToThrow |-> 3000, base |-> 500, window |-> 1000,
   minSize |-> 1, maxSize |-> 102400,
   minAgeAtMinSize |-> 10, minAgeAtMaxSize |-> 10,
   maxAgeAtMinSize |-> 3600, maxAgeAtMaxSize |-> 2592000,
   minPartsToLower |-> 10, maxPartsToLower |-> 50, fixedCost |-> 5,
   align |-> TRUE, alignMinRatio |-> 90, alignMaxDiff |-> 50, alignMaxAdjust |-> 75,
   forceAge |-> 0, forcePartitionAge |-> 0,
   removeSmall |-> TRUE, removeSmallRatio |-> 1,
   lowerMaxParts |-> TRUE, lowerExponent |-> 5]

-----------------------------------------------------------------------------
(***************************************************************************)
(* Exhaustive inputs: every mix of three sizes and two ages.  The sizes    *)
(* are far enough apart for a 1 to be small beside a 16.                   *)
(***************************************************************************)
MkPart(pid, size, age) == [pid |-> pid, size |-> size, rows |-> 17 - size, age |-> age]
OneOf(ages) == {MkPart("p1", size, age) : size \in {1, 2, 16}, age \in ages}

SmallSettings ==
  [DefaultSettings EXCEPT !.maxParts = 3, !.partsToThrow = 12, !.base = 230,
     !.minSize = 2, !.maxSize = 60, !.minAgeAtMaxSize = 30,
     !.maxAgeAtMinSize = 40, !.maxAgeAtMaxSize = 60,
     !.minPartsToLower = 3, !.maxPartsToLower = 6, !.fixedCost = 2,
     !.removeSmallRatio = 10, !.lowerExponent = 2]
PlainSettings ==
  [SmallSettings EXCEPT !.maxParts = 0, !.minParts = 3, !.window = 3, !.base = 210,
     !.align = FALSE, !.removeSmall = FALSE, !.forceAge = 45, !.forcePartitionAge = 50]

Beside == <<MkPart("p2", 2, 0), MkPart("p2", 1, 50), MkPart("p2", 1, 50)>>

ForcedSettings == [SmallSettings EXCEPT !.maxParts = 6, !.forceAge = 45]

Limits(n) == [bytes |-> n, rows |-> 60]

Calls(first) ==
  [ranges : {<<r, Beside>> : r \in first},
   stats  : {[p \in MCPartitions |-> [count |-> n, minAge |-> 10]] : n \in {4, 9}},
   limits : {<<Limits(40), Limits(18), Limits(4)>>, [i \in 1..2 |-> Limits(50)]},
   settings : {SmallSettings, PlainSettings, ForcedSettings}]

FourParts == Calls(UNION {[1..n -> OneOf({age})] : n \in 1..4, age \in {0, 60}})
         \cup Calls([1..3 -> OneOf({0, 45})])
         \cup {[a EXCEPT !.limits = <<>>] : a \in Calls({<<MkPart("p1", 1, 0)>>})}

-----------------------------------------------------------------------------
(***************************************************************************)
(* simple_test.go.  A test's parts have one age; sizes are in MiB.         *)
(***************************************************************************)
MkParts(pid, sizes, age) ==
  [i \in DOMAIN sizes |-> [pid |-> pid, size |-> sizes[i], rows |-> sizes[i] * 10, age |-> age]]
Equal(n, size) == [i \in 1..n |-> size]
Month2 == 60 * 86400

TestCall(ranges, n, bytes, minAge) ==
  [ranges |-> ranges,
   stats |-> [p \in MCPartitions |-> [count |-> Len(ranges[1]), minAge |-> minAge]],
   limits |-> [i \in 1..n |-> [bytes |-> bytes, rows |-> 1000000]],
   settings |-> DefaultSettings]

\* Each test's call, with the candidates the test wants as <<range, first, last>>.
Tests ==
  {[call |-> TestCall(<<MkParts("p1", Equal(10, 1), 0)>>, 3, 153600, 0),
    want |-> {<<1, 1, 10>>}],
   [call |-> TestCall(<<MkParts("p1", Equal(4, 1), 0)>>, 1, 153600, 0), want |-> {}],
   [call |-> TestCall(<<MkParts("p1", <<10240>> \o Equal(4, 1), 0)>>, 1, 153600, 0),
    want |-> {}],
   [call |-> TestCall(<<MkParts("p1", <<10240>> \o Equal(4, 1), Month2)>>, 1, 153600, Month2),
    want |-> {<<1, 2, 5>>}],
   [call |-> TestCall(<<MkParts("p1", Equal(10, 100), 0)>>, 1, 500, 0),
    want |-> {<<1, 6, 10>>}],
   [call |-> TestCall(<<MkParts("p1", Equal(6, 1), 0), MkParts("p2", Equal(6, 1), 0)>>,
                      5, 153600, 0),
    want |-> {<<1, 1, 6>>, <<2, 1, 6>>}]}

TestCalls == {t.call : t \in Tests}

\* The candidates simple_test.go wants, for the calls it makes (lines 40-115; the
\* test of 150 parts is left to the code).
TestsPass ==
  \A t \in Tests :
    args = t.call /\ pc = "done" =>
      {<<scored[out[k]].range, scored[out[k]].begin + 1, scored[out[k]].end>>
         : k \in DOMAIN out} = t.want

-----------------------------------------------------------------------------
(***************************************************************************)
(* Three parts of a partition with ever more of them: around the base, at  *)
(* and beyond parts_to_throw_insert, with limits above and below the base. *)
(***************************************************************************)
LoweringCalls ==
  [ranges : {<<[i \in 1..3 |-> MkPart("p1", 1, 0)]>>},
   stats  : {[p \in MCPartitions |-> [count |-> n, minAge |-> 10]] : n \in 3..14},
   limits : {<<Limits(40)>>},
   settings :
     {[SmallSettings EXCEPT !.maxParts = max, !.base = base, !.partsToThrow = throw,
                            !.lowerExponent = exponent]
        : max \in {0, 1, 2, 3, 7, 20}, base \in {200, 230, 500}, throw \in {2, 5, 12},
          exponent \in {1, 2, 5}}]

AllCalls == FourParts \cup TestCalls \cup LoweringCalls
=============================================================================
