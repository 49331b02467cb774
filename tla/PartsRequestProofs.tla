--------------------------- MODULE PartsRequestProofs ---------------------------
(***************************************************************************)
(* Proofs about the request for parts (PartsRequest), as MCServing runs    *)
(* it, for any number of blocks, of changes and of candidates.             *)
(*                                                                         *)
(* What a page tells rests on which questions are asked when (Asking) and  *)
(* what an answer says of the merges that were there all the time (Seen).  *)
(* What becomes of a candidate rests on the table besides: its parts are   *)
(* apart from each other and no merge has a gap (TableOK), so that a list  *)
(* in order exists and a run of it is a run of the table; and on what the  *)
(* request knows of a table without new merges (Steady).                   *)
(***************************************************************************)
EXTENDS MCServing, ServiceProofs, FiniteSetTheorems, WellFoundedInduction, TLAPS

Questions == Parts!Required \cup Parts!Optional

LEMMA QuestionsAre ==
  Questions = {"now", "parts", "merges", "replication_queue", "part_log", "merge_tree_settings"}
BY DEF Questions, Parts!Required, Parts!Optional

\* A question is asked by the first goroutines or after the probe, and not again; the
\* handler replies when all are back, an error exactly when a required one failed.
Asking ==
  /\ asked \in [Questions -> {"off", "sent", "ok", "failed"}]
  /\ step \in {"table", "probe", "wait", "done"}
  /\ step = "table" => \A a \in Questions : asked[a] = "off"
  /\ step = "probe" => asked["part_log"] = "off" /\ asked["merge_tree_settings"] = "off"
  /\ step \in {"probe", "wait"} => \A a \in Parts!FirstAsked : asked[a] # "off"
  /\ firstErr = "none" => \A a \in Parts!Required : asked[a] # "failed"
  /\ DOMAIN resp = {"parts", "merges", "queued", "warnings"}
  /\ resp.warnings = {a \in Parts!Optional : asked[a] = "failed"}
  /\ IF step = "done" THEN reply.status # 0 /\ \A a \in Questions : asked[a] # "sent"
                      ELSE reply.status = 0

\* What an answer says of the merges that were there all the time.
Seen ==
  /\ running \subseteq merges /\ assigned \subseteq queue
  /\ engine # "Replicated" => queue = {}
  /\ asked["merges"] = "ok" => running \subseteq resp.merges
  /\ asked["replication_queue"] = "ok" => assigned \subseteq resp.queued

PartsInv == Asking /\ Seen /\ Parts!PageTellsFailures /\ Parts!BusyOfferedOnlyWithWarning

-----------------------------------------------------------------------------
LEMMA InitParts == Parts!Init => PartsInv
BY DEF Parts!Init, PartsInv, Asking, Seen, Parts!PageTellsFailures,
       Parts!BusyOfferedOnlyWithWarning, Parts!NoReply, Parts!Error, Parts!Empty,
       Questions, Parts!Required, Parts!Optional

LEMMA EndedParts == PartsEnded => PartsInv
BY DEF PartsEnded, PartsInv, Asking, Seen, Parts!PageTellsFailures,
       Parts!BusyOfferedOnlyWithWarning, Parts!NoReply, Parts!Error, Parts!Empty,
       Questions, Parts!Required, Parts!Optional

\* While ClickHouse goes on nothing of the request changes, and there is no reply.
LEMMA BackgroundParts == ASSUME PartsInv, Parts!Background PROVE PartsInv'
<1>1. /\ step \in {"probe", "wait"} /\ UNCHANGED <<engine, step, asked, resp, firstErr, reply>>
      /\ Parts!Insert \/ Parts!AssignMerge \/ Parts!StartQueued \/ Parts!FinishMerge
  BY DEF Parts!Background
<1>2. Asking' /\ reply'.status = 0
  BY <1>1 DEF PartsInv, Asking, Parts!FirstAsked
<1>3. Seen'
  <2>1. CASE Parts!Insert
    BY <1>1, <2>1 DEF Parts!Insert, PartsInv, Seen, Parts!past
  <2>2. CASE Parts!AssignMerge
    <3>1. /\ merges \subseteq merges' /\ queue \subseteq queue'
          /\ engine # "Replicated" => queue' = queue
          /\ running' = running /\ assigned' = assigned
      BY <2>2 DEF Parts!AssignMerge
    <3>2. QED
      BY <1>1, <3>1 DEF PartsInv, Seen
  <2>3. CASE Parts!StartQueued
    BY <1>1, <2>3 DEF Parts!StartQueued, PartsInv, Seen
  <2>4. CASE Parts!FinishMerge
    <3>1. PICK m \in merges :
            /\ merges' = merges \ {m} /\ queue' = queue \ {m}
            /\ running' = running \ {m} /\ assigned' = assigned \ {m}
      BY <2>4 DEF Parts!FinishMerge
    <3>2. QED
      BY <1>1, <3>1 DEF PartsInv, Seen
  <2>5. QED
    BY <1>1, <2>1, <2>2, <2>3, <2>4
<1>4. QED
  BY <1>2, <1>3 DEF PartsInv, Parts!PageTellsFailures, Parts!BusyOfferedOnlyWithWarning

LEMMA RefuseParts == ASSUME PartsInv, Parts!Refuse PROVE PartsInv'
<1>1. /\ step = "table" /\ step' = "done" /\ reply'.status \in {400, 502}
      /\ UNCHANGED <<engine, merges, queue, asked, resp, firstErr, running, assigned>>
  BY DEF Parts!Refuse, Parts!Error, Parts!world, Parts!past
<1>2. Asking'
  BY <1>1 DEF PartsInv, Asking
<1>3. DOMAIN asked = Questions
  BY DEF PartsInv, Asking
<1>4. QED
  BY <1>1, <1>2, <1>3
     DEF PartsInv, Asking, Seen, Parts!PageTellsFailures, Parts!BusyOfferedOnlyWithWarning

LEMMA LaunchParts == ASSUME PartsInv, Parts!Launch PROVE PartsInv'
<1>1. /\ step = "table" /\ step' = "probe" /\ running' = merges /\ assigned' = queue
      /\ asked' = [a \in Questions |-> IF a \in Parts!FirstAsked THEN "sent" ELSE "off"]
      /\ UNCHANGED <<engine, merges, queue, resp, firstErr, reply>>
  BY DEF Parts!Launch, Parts!world, PartsInv, Asking
<1>2. Asking'
  <2>1. Parts!FirstAsked' = Parts!FirstAsked
    BY <1>1 DEF Parts!FirstAsked
  <2>2. Parts!FirstAsked \subseteq Questions \ {"part_log", "merge_tree_settings"}
        /\ {"part_log", "merge_tree_settings"} \subseteq Questions
    BY DEF Parts!FirstAsked, Questions, Parts!Required, Parts!Optional
  <2>3. {a \in Parts!Optional : asked[a] = "failed"} = {}
    BY <1>1 DEF PartsInv, Asking, Questions
  <2>4. {a \in Parts!Optional : asked'[a] = "failed"} = {}
    BY <1>1 DEF Questions
  <2>5. QED
    BY <1>1, <2>1, <2>2, <2>3, <2>4 DEF PartsInv, Asking, Questions
<1>3. Seen'
  BY <1>1, QuestionsAre DEF PartsInv, Seen
<1>4. QED
  BY <1>1, <1>2, <1>3
     DEF PartsInv, Asking, Parts!PageTellsFailures, Parts!BusyOfferedOnlyWithWarning

LEMMA ProbeParts == ASSUME PartsInv, Parts!Probe PROVE PartsInv'
<1>1. PICK has \in BOOLEAN :
        /\ step = "probe" /\ step' = "wait"
        /\ asked' = [asked EXCEPT !["part_log"] = IF has THEN "sent" ELSE "off",
                                  !["merge_tree_settings"] = "sent"]
        /\ UNCHANGED <<engine, merges, queue, running, assigned, resp, reply>>
  BY DEF Parts!Probe, Parts!world, Parts!past
<1>2. /\ asked' \in [Questions -> {"off", "sent", "ok", "failed"}]
      /\ \A a \in {"now", "parts", "merges", "replication_queue"} : asked'[a] = asked[a]
      /\ \A a \in {"part_log", "merge_tree_settings"} : asked'[a] # "failed"
  BY <1>1, QuestionsAre DEF PartsInv, Asking
<1>3. Asking'
  <2>1. {a \in Parts!Optional : asked'[a] = "failed"} = {a \in Parts!Optional : asked[a] = "failed"}
    <3>1. asked["part_log"] = "off" /\ asked["merge_tree_settings"] = "off"
      BY <1>1 DEF PartsInv, Asking
    <3>2. QED
      BY <1>2, <3>1 DEF Parts!Optional
  <2>2. \A a \in Parts!FirstAsked :
          a \in {"now", "parts", "merges", "replication_queue"} /\ a \in Questions
    BY QuestionsAre DEF Parts!FirstAsked
  <2>3. Parts!FirstAsked' = Parts!FirstAsked
    BY <1>1 DEF Parts!FirstAsked
  <2>4. \A a \in Parts!Required : asked'[a] = asked[a]
    BY <1>2 DEF Parts!Required
  <2>5. \A a \in Parts!FirstAsked : asked'[a] # "off"
    BY <1>1, <1>2, <2>2 DEF PartsInv, Asking
  <2>6. UNCHANGED firstErr
    BY DEF Parts!Probe
  <2>7. firstErr' = "none" => \A a \in Parts!Required : asked'[a] # "failed"
    BY <2>4, <2>6 DEF PartsInv, Asking
  <2>8. /\ DOMAIN resp' = {"parts", "merges", "queued", "warnings"} /\ reply'.status = 0
        /\ resp'.warnings = {a \in Parts!Optional : asked'[a] = "failed"}
    BY <1>1, <2>1 DEF PartsInv, Asking
  <2>9. QED
    BY <1>1, <1>2, <2>3, <2>5, <2>7, <2>8 DEF Asking
<1>4. Seen'
  BY <1>1, <1>2 DEF PartsInv, Seen
<1>5. reply'.status = 0
  BY <1>1 DEF PartsInv, Asking
<1>6. QED
  BY <1>3, <1>4, <1>5
     DEF PartsInv, Parts!PageTellsFailures, Parts!BusyOfferedOnlyWithWarning

\* A query is back.  It was asked, so the handler waits or is about to.
LEMMA BackParts ==
  ASSUME PartsInv, NEW a \in Questions, asked[a] = "sent", NEW new \in {"ok", "failed"},
         asked' = [asked EXCEPT ![a] = new],
         UNCHANGED <<engine, merges, queue, running, assigned, step, reply>>,
         DOMAIN resp' = DOMAIN resp,
         new = "failed" /\ a \in Parts!Required => firstErr' # "none",
         firstErr' = "none" => firstErr = "none",
         resp'.warnings = IF new = "failed" /\ a \in Parts!Optional
                          THEN resp.warnings \cup {a} ELSE resp.warnings,
         a # "merges" => resp'.merges = resp.merges,
         a = "merges" /\ new = "ok" => resp'.merges = merges,
         a # "replication_queue" => resp'.queued = resp.queued,
         a = "replication_queue" /\ new = "ok" => resp'.queued = queue
  PROVE  PartsInv'
<1>1. /\ step \in {"probe", "wait"} /\ reply.status = 0
      /\ asked' \in [Questions -> {"off", "sent", "ok", "failed"}]
      /\ asked'[a] = new /\ \A b \in Questions \ {a} : asked'[b] = asked[b]
  BY DEF PartsInv, Asking
<1>2. Asking'
  <2>1. Parts!FirstAsked' = Parts!FirstAsked /\ Parts!FirstAsked \subseteq Questions
    BY DEF Parts!FirstAsked, Questions, Parts!Required, Parts!Optional
  <2>2. resp'.warnings = {b \in Parts!Optional : asked'[b] = "failed"}
    <3>1. Parts!Optional \subseteq Questions
      BY DEF Questions
    <3>2. QED
      BY <1>1, <3>1 DEF PartsInv, Asking
  <2>3. firstErr' = "none" => \A b \in Parts!Required : asked'[b] # "failed"
    BY <1>1 DEF PartsInv, Asking, Questions
  <2>4. step = "probe" => asked'["part_log"] = "off" /\ asked'["merge_tree_settings"] = "off"
    BY <1>1, QuestionsAre DEF PartsInv, Asking
  <2>5. QED
    BY <1>1, <2>1, <2>2, <2>3, <2>4 DEF PartsInv, Asking
<1>3. Seen'
  BY <1>1, QuestionsAre DEF PartsInv, Seen
<1>4. QED
  BY <1>1, <1>2, <1>3
     DEF PartsInv, Parts!PageTellsFailures, Parts!BusyOfferedOnlyWithWarning

LEMMA AnswerParts == ASSUME PartsInv, NEW a \in Questions, Parts!Answer(a) PROVE PartsInv'
<1>1. /\ asked[a] = "sent" /\ asked' = [asked EXCEPT ![a] = "ok"]
      /\ resp' = Parts!Answered(a, Parts!Rows(a))
      /\ UNCHANGED <<engine, merges, queue, running, assigned, step, reply, firstErr>>
  BY DEF Parts!Answer, Parts!world, Parts!past
<1>2. DOMAIN resp = {"parts", "merges", "queued", "warnings"}
  BY DEF PartsInv, Asking
<1>3. /\ DOMAIN resp' = DOMAIN resp /\ resp'.warnings = resp.warnings
      /\ resp'.merges = IF a = "merges" THEN merges ELSE resp.merges
      /\ resp'.queued = IF a = "replication_queue" THEN queue ELSE resp.queued
  BY <1>1, <1>2, QuestionsAre DEF Parts!Answered, Parts!Rows
<1>4. QED
  BY <1>1, <1>3, BackParts

LEMMA FailParts == ASSUME PartsInv, NEW a \in Questions, Parts!Fail(a) PROVE PartsInv'
<1>1. /\ asked[a] = "sent" /\ asked' = [asked EXCEPT ![a] = "failed"]
      /\ firstErr' = IF a \in Parts!Required /\ firstErr = "none" THEN a ELSE firstErr
      /\ UNCHANGED <<engine, merges, queue, running, assigned, step, reply>>
  BY DEF Parts!Fail, Parts!world, Parts!past
<1>2. DOMAIN resp = {"parts", "merges", "queued", "warnings"}
  BY DEF PartsInv, Asking
<1>3. a \in Parts!Required => a # "none"
  BY DEF Parts!Required
<1>4. CASE a \in Parts!Required
  <2>1. resp' = resp /\ a \notin Parts!Optional /\ a # "merges" /\ a # "replication_queue"
    BY <1>4 DEF Parts!Fail, Parts!Required, Parts!Optional
  <2>2. QED
    BY <1>1, <1>3, <1>4, <2>1, BackParts
<1>5. CASE a \notin Parts!Required
  <2>1. PICK rs : resp' = [Parts!Answered(a, rs) EXCEPT !.warnings = @ \cup {a}]
    BY <1>5 DEF Parts!Fail
  <2>2. /\ DOMAIN resp' = DOMAIN resp /\ resp'.warnings = resp.warnings \cup {a}
        /\ a # "merges" => resp'.merges = resp.merges
        /\ a # "replication_queue" => resp'.queued = resp.queued
    BY <1>2, <2>1, QuestionsAre DEF Parts!Answered
  <2>3. a \in Parts!Optional
    BY <1>5 DEF Questions
  <2>4. QED
    BY <1>1, <1>5, <2>2, <2>3, BackParts
<1>6. QED
  BY <1>4, <1>5

LEMMA ReplyErrorParts == ASSUME PartsInv, Parts!ReplyError PROVE PartsInv'
<1>1. /\ step = "wait" /\ step' = "done" /\ Parts!AllBack /\ reply'.status = 502
      /\ UNCHANGED <<engine, merges, queue, running, assigned, asked, resp, firstErr>>
  BY DEF Parts!ReplyError, Parts!Error, Parts!world, Parts!past
<1>2. DOMAIN asked = Questions
  BY DEF PartsInv, Asking
<1>3. Asking'
  BY <1>1, <1>2 DEF PartsInv, Asking, Parts!AllBack
<1>4. QED
  BY <1>1, <1>2, <1>3
     DEF PartsInv, Asking, Seen, Parts!AllBack, Parts!PageTellsFailures,
         Parts!BusyOfferedOnlyWithWarning

\* No candidate has a part that is busy, in whatever order the parts are listed.
LEMMA RunsAreIdle ==
  ASSUME NEW list, NEW busy, NEW n \in Nat, NEW seq \in [1 .. n -> Parts!PairsOf(list)],
         Parts!AreCandidates(list, busy, MaxLimit, seq),
         NEW k \in 1 .. n, NEW p \in {list[j].name : j \in seq[k][1] .. seq[k][2]}
  PROVE  p \notin busy
<1>1. Parts!IsRun(list, busy, seq[k][1], seq[k][2])
  BY DEF Parts!AreCandidates
<1>2. QED
  BY <1>1 DEF Parts!IsRun

LEMMA ReplyPageParts == ASSUME PartsInv, Parts!ReplyPage PROVE PartsInv'
<1> DEFINE list == Parts!Listed(resp.parts)
           busy == UNION (resp.merges \cup resp.queued)
<1>1. PICK n \in 0 .. MaxLimit : \E seq \in [1 .. n -> Parts!PairsOf(list)] :
        /\ Parts!AreCandidates(list, busy, MaxLimit, seq)
        /\ reply' = [status |-> 200, page |-> resp,
                     candidates |-> [k \in 1 .. n |->
                                       {list[j].name : j \in seq[k][1] .. seq[k][2]}]]
  BY DEF Parts!ReplyPage
<1>2. PICK seq \in [1 .. n -> Parts!PairsOf(list)] :
        /\ Parts!AreCandidates(list, busy, MaxLimit, seq)
        /\ reply' = [status |-> 200, page |-> resp,
                     candidates |-> [k \in 1 .. n |->
                                       {list[j].name : j \in seq[k][1] .. seq[k][2]}]]
  BY <1>1
<1> HIDE DEF list, busy
<1>3. /\ step = "wait" /\ step' = "done" /\ Parts!AllBack /\ firstErr = "none"
      /\ UNCHANGED <<engine, merges, queue, running, assigned, asked, resp, firstErr>>
  BY DEF Parts!ReplyPage, Parts!world, Parts!past
<1>4. DOMAIN asked = Questions /\ \A a \in Questions : asked[a] # "sent"
  BY <1>3 DEF PartsInv, Asking, Parts!AllBack
<1>5. Asking'
  BY <1>2, <1>3, <1>4 DEF PartsInv, Asking
<1>6. Parts!PageTellsFailures'
  <2>1. \A a \in Parts!Required : asked[a] = "ok"
    <3>1. Parts!Required \subseteq Parts!FirstAsked /\ Parts!Required \subseteq Questions
      BY DEF Parts!Required, Parts!FirstAsked, Questions
    <3>2. QED
      BY <1>3, <1>4, <3>1 DEF PartsInv, Asking
  <2>2. reply'.page.warnings = {a \in Parts!Optional : asked[a] = "failed"}
    BY <1>2 DEF PartsInv, Asking
  <2>3. QED
    BY <1>3, <1>4, <2>1, <2>2 DEF Parts!PageTellsFailures
<1>7. \A p \in Parts!Offered' : p \notin busy
  <2>1. SUFFICES ASSUME NEW c \in Parts!Range(reply'.candidates), NEW p \in c PROVE p \notin busy
    BY DEF Parts!Offered
  <2>2. PICK k \in 1 .. n : c = {list[j].name : j \in seq[k][1] .. seq[k][2]}
    BY <1>2 DEF Parts!Range
  <2>3. n \in Nat /\ p \in {list[j].name : j \in seq[k][1] .. seq[k][2]}
    BY <2>2
  <2>4. QED
    BY <1>2, <2>3, RunsAreIdle
<1>8. "merges" \notin resp.warnings => UNION running \subseteq busy
  <2> USE DEF busy
  <2>1. asked["merges"] \in {"ok", "failed"}
    BY <1>3, <1>4, QuestionsAre DEF PartsInv, Asking, Parts!FirstAsked
  <2>2. "merges" \in Parts!Optional
    BY DEF Parts!Optional
  <2>3. QED
    BY <2>1, <2>2 DEF PartsInv, Asking, Seen
<1>9. "replication_queue" \notin resp.warnings => UNION assigned \subseteq busy
  <2> USE DEF busy
  <2>1. CASE engine = "Replicated"
    <3>1. asked["replication_queue"] \in {"ok", "failed"}
      BY <1>3, <1>4, <2>1, QuestionsAre DEF PartsInv, Asking, Parts!FirstAsked
    <3>2. "replication_queue" \in Parts!Optional
      BY DEF Parts!Optional
    <3>3. QED
      BY <3>1, <3>2 DEF PartsInv, Asking, Seen
  <2>2. CASE engine # "Replicated"
    BY <2>2 DEF PartsInv, Seen
  <2>3. QED
    BY <2>1, <2>2
<1>10. Parts!BusyOfferedOnlyWithWarning'
  BY <1>2, <1>3, <1>7, <1>8, <1>9 DEF Parts!BusyOfferedOnlyWithWarning
<1>11. Seen'
  BY <1>3 DEF PartsInv, Seen
<1>12. QED
  BY <1>5, <1>6, <1>10, <1>11 DEF PartsInv

LEMMA StepParts == ASSUME PartsInv, Parts!Next PROVE PartsInv'
<1>1. DOMAIN asked = Questions
  BY DEF PartsInv, Asking
<1>2. QED
  BY <1>1, BackgroundParts, RefuseParts, LaunchParts, ProbeParts, AnswerParts, FailParts,
     ReplyErrorParts, ReplyPageParts
     DEF Parts!Next, Parts!Handler, Parts!Return, Parts!Goroutine

-----------------------------------------------------------------------------
(***************************************************************************)
(* Lists of parts in order.                                                *)
(***************************************************************************)
\* No two parts have a block in common.
Apart(ps) == \A a, b \in ps : a = b \/ a[2] < b[1] \/ b[2] < a[1]

\* What is to follow from the definition of InOrder.
Sorts(s, ps, n) ==
  /\ n \in Nat /\ s \in [1 .. n -> ps]
  /\ \A j, k \in 1 .. n : j < k => s[j][1] < s[k][1]
  /\ \A a \in ps : \E k \in 1 .. n : s[k] = a

LEMMA CountsAlike == ASSUME NEW ps PROVE Parts!Cardinality(ps) = Cardinality(ps)
BY DEF Parts!Cardinality, Cardinality

LEMMA IntervalsAre ==
  ASSUME NEW a \in Parts!Intervals
  PROVE  a[1] \in 1 .. Blocks /\ a[2] \in 1 .. Blocks /\ a[1] <= a[2] /\ a = <<a[1], a[2]>>
BY DEF Parts!Intervals

LEMMA IntervalsFinite ==
  ASSUME NEW ps \in SUBSET Parts!Intervals
  PROVE  IsFiniteSet(ps) /\ Cardinality(ps) \in Nat
<1>1. IsFiniteSet(1 .. Blocks)
  BY BlocksAssumption, FS_Interval
<1>2. IsFiniteSet((1 .. Blocks) \X (1 .. Blocks))
  BY <1>1, FS_Product
<1>3. ps \subseteq (1 .. Blocks) \X (1 .. Blocks)
  BY DEF Parts!Intervals
<1>4. QED
  BY <1>2, <1>3, FS_Subset, FS_CardinalityType

\* A set of numbers that is not empty has a least one.
LEMMA LeastNumber ==
  ASSUME NEW Q \in SUBSET Nat, Q # {}
  PROVE  \E m \in Q : \A n \in Q : m <= n
<1> DEFINE R == OpToRel(<, Nat)
<1>1. IsWellFoundedOn(R, Nat)
  BY NatLessThanWellFounded, Zenon
<1>2. \A m, n \in Nat : m < n => <<m, n>> \in R
  BY DEF OpToRel
<1> HIDE DEF R
<1>3. PICK m \in Q : \A n \in Q : ~(<<n, m>> \in R)
  BY <1>1, WFMin
<1>4. \A n \in Q : ~(n < m)
  BY <1>2, <1>3
<1>5. QED
  BY <1>4

\* Of parts apart from each other one is the last.
LEMMA LastPart ==
  ASSUME NEW ps \in SUBSET Parts!Intervals, ps # {}, Apart(ps)
  PROVE  \E a \in ps : \A b \in ps : b[1] <= a[1] /\ (b # a => b[1] < a[1])
<1> DEFINE Q == {Blocks - a[1] : a \in ps}
<1>1. Q \in SUBSET Nat /\ Q # {}
  BY IntervalsAre, BlocksAssumption
<1>2. PICK m \in Q : \A n \in Q : m <= n
  <2> HIDE DEF Q
  <2>1. QED
    BY <1>1, LeastNumber
<1>3. PICK a \in ps : m = Blocks - a[1]
  OBVIOUS
<1>4. ASSUME NEW b \in ps PROVE b[1] <= a[1] /\ (b # a => b[1] < a[1])
  <2>1. Blocks - a[1] <= Blocks - b[1]
    BY <1>2, <1>3
  <2>2. b[1] <= a[1]
    BY <2>1, IntervalsAre, BlocksAssumption
  <2>3. b # a => b[1] < a[1]
    BY <2>2, IntervalsAre, BlocksAssumption DEF Apart
  <2>4. QED
    BY <2>2, <2>3
<1>5. QED
  BY <1>4

\* Parts apart from each other can be listed in order: a smallest set that cannot would
\* become one by the loss of its last part.
LEMMA CanBeSorted ==
  ASSUME NEW ps \in SUBSET Parts!Intervals, Apart(ps)
  PROVE  \E s : Sorts(s, ps, Cardinality(ps))
<1> DEFINE Bad(qs) == ~\E s : Sorts(s, qs, Cardinality(qs))
           Q == {n \in Nat : \E qs \in SUBSET ps : Cardinality(qs) = n /\ Bad(qs)}
<1>1. SUFFICES ASSUME Bad(ps) PROVE FALSE
  OBVIOUS
<1>2. Q # {} /\ Q \in SUBSET Nat
  <2>1. Cardinality(ps) \in Q
    BY <1>1, IntervalsFinite
  <2>2. QED
    BY <2>1
<1>3. PICK m \in Q : \A n \in Q : m <= n
  <2> HIDE DEF Q
  <2>1. QED
    BY <1>2, LeastNumber
<1>4. PICK qs \in SUBSET ps : Cardinality(qs) = m /\ Bad(qs)
  OBVIOUS
<1>5. m \in Nat /\ qs \in SUBSET Parts!Intervals /\ Apart(qs) /\ IsFiniteSet(qs)
  BY IntervalsFinite DEF Apart
<1>6. CASE qs = {}
  <2>1. m = 0
    BY <1>4, <1>6, FS_EmptySet
  <2>2. Sorts(<<>>, qs, m)
    BY <1>6, <2>1 DEF Sorts
  <2>3. QED
    BY <1>4, <2>2
<1>7. CASE qs # {}
  <2>1. PICK a \in qs : \A b \in qs : b[1] <= a[1] /\ (b # a => b[1] < a[1])
    BY <1>5, <1>7, LastPart
  <2> DEFINE rs == qs \ {a}
  <2>2. Cardinality(rs) = m - 1 /\ m - 1 \in Nat
    <3>1. IsFiniteSet(rs) /\ Cardinality(rs) = m - 1
      BY <1>4, <1>5, FS_RemoveElement
    <3>2. Cardinality(rs) \in Nat
      BY <3>1, FS_CardinalityType
    <3>3. QED
      BY <3>1, <3>2
  <2>3. ~Bad(rs)
    <3>1. m - 1 \notin Q
      BY <1>3, <1>5
    <3>2. rs \in SUBSET ps
      OBVIOUS
    <3> HIDE DEF rs, Bad
    <3>3. QED
      BY <2>2, <3>1, <3>2
  <2>4. PICK s : Sorts(s, rs, m - 1)
    BY <2>2, <2>3
  <2> DEFINE t == [k \in 1 .. m |-> IF k = m THEN a ELSE s[k]]
  <2>5. t \in [1 .. m -> qs]
    <3>1. \A k \in 1 .. m : k # m => k \in 1 .. m - 1
      BY <1>5
    <3>2. \A k \in 1 .. m - 1 : s[k] \in qs
      BY <2>4 DEF Sorts
    <3>3. QED
      BY <3>1, <3>2
  <2>6. \A j, k \in 1 .. m : j < k => t[j][1] < t[k][1]
    <3> SUFFICES ASSUME NEW j \in 1 .. m, NEW k \in 1 .. m, j < k PROVE t[j][1] < t[k][1]
      OBVIOUS
    <3>1. j \in 1 .. m - 1 /\ j # m /\ t[j] = s[j] /\ s[j] \in rs
      BY <1>5, <2>4 DEF Sorts
    <3>2. CASE k = m
      BY <2>1, <3>1, <3>2
    <3>3. CASE k # m
      BY <1>5, <2>4, <3>1, <3>3 DEF Sorts
    <3>4. QED
      BY <3>2, <3>3
  <2>7. \A b \in qs : \E k \in 1 .. m : t[k] = b
    <3> SUFFICES ASSUME NEW b \in qs PROVE \E k \in 1 .. m : t[k] = b
      OBVIOUS
    <3>1. CASE b = a
      BY <1>5, <2>2, <3>1
    <3>2. CASE b # a
      <4>1. PICK k \in 1 .. m - 1 : s[k] = b
        BY <2>4, <3>2 DEF Sorts
      <4>2. k \in 1 .. m /\ k # m
        BY <1>5
      <4>3. QED
        BY <4>1, <4>2
    <3>3. QED
      BY <3>1, <3>2
  <2> HIDE DEF t
  <2>8. Sorts(t, qs, m)
    BY <1>5, <2>5, <2>6, <2>7 DEF Sorts
  <2>9. QED
    BY <1>4, <2>8
<1>8. QED
  BY <1>6, <1>7

\* InOrder lists every part once, in order.
LEMMA InOrderSorts ==
  ASSUME NEW ps \in SUBSET Parts!Intervals, Apart(ps)
  PROVE  Sorts(Parts!InOrder(ps), ps, Cardinality(ps))
<1> DEFINE n == Cardinality(ps)
           s == Parts!InOrder(ps)
<1>1. PICK r : Sorts(r, ps, n)
  BY CanBeSorted
<1>2. n \in Nat /\ IsFiniteSet(ps)
  BY IntervalsFinite
<1>3. s = CHOOSE t \in [1 .. n -> ps] : \A j, k \in DOMAIN t : j < k => t[j][1] < t[k][1]
  BY CountsAlike DEF Parts!InOrder
<1> HIDE DEF n, s
<1>4. r \in [1 .. n -> ps] /\ \A j, k \in DOMAIN r : j < k => r[j][1] < r[k][1]
  BY <1>1 DEF Sorts
<1>5. s \in [1 .. n -> ps] /\ \A j, k \in DOMAIN s : j < k => s[j][1] < s[k][1]
  BY <1>3, <1>4
<1>6. s \in Injection(1 .. n, ps)
  <2>1. \A j, k \in 1 .. n : s[j] = s[k] => j = k
    <3> SUFFICES ASSUME NEW j \in 1 .. n, NEW k \in 1 .. n, s[j] = s[k], j # k PROVE FALSE
      OBVIOUS
    <3>1. s[j] \in ps /\ s[j][1] \in Int
      BY <1>5, IntervalsAre
    <3>2. j < k \/ k < j
      OBVIOUS
    <3>3. QED
      BY <1>5, <3>1, <3>2
  <2>2. QED
    BY <1>5, <2>1 DEF Injection, IsInjective
<1>7. s \in Surjection(1 .. n, ps)
  <2>1. Cardinality(1 .. n) = n
    BY <1>2, FS_Interval
  <2>2. QED
    BY <1>2, <1>6, <2>1, FS_Injection DEF n
<1>8. QED
  BY <1>2, <1>5, <1>7 DEF Sorts, Surjection, n, s

\* What Listed is, without the records.
LEMMA ListedSorts ==
  ASSUME NEW ps \in SUBSET Parts!Intervals, Apart(ps)
  PROVE  /\ Sorts(Parts!InOrder(ps), ps, Cardinality(ps))
         /\ Len(Parts!Listed(ps)) = Cardinality(ps)
         /\ \A k \in 1 .. Cardinality(ps) :
              /\ Parts!Listed(ps)[k].name = Parts!InOrder(ps)[k]
              /\ Parts!Listed(ps)[k].pid = "all"
<1>1. PICK s, n : s = Parts!InOrder(ps) /\ n = Cardinality(ps)
  OBVIOUS
<1>2. Sorts(s, ps, n)
  BY <1>1, InOrderSorts
<1>3. n \in Nat /\ DOMAIN s = 1 .. n
  BY <1>2 DEF Sorts
<1>4. Parts!Listed(ps) = [k \in 1 .. n |-> [name |-> s[k], pid |-> "all"]]
  BY <1>1, <1>3 DEF Parts!Listed
<1>5. Len(Parts!Listed(ps)) = n
  BY <1>3, <1>4
<1>6. \A k \in 1 .. n : Parts!Listed(ps)[k].name = s[k] /\ Parts!Listed(ps)[k].pid = "all"
  BY <1>4
<1>7. QED
  BY <1>1, <1>2, <1>5, <1>6

-----------------------------------------------------------------------------
(***************************************************************************)
(* The table.  Its parts have no block in common, and what is being merged *)
(* is without gaps: no other part lies between its parts.                  *)
(***************************************************************************)
Unbroken(m, ps) == \A a, b \in m, c \in ps : a[1] <= c[1] /\ c[1] <= b[1] => c \in m

TableOK ==
  /\ active \subseteq Parts!Intervals /\ Apart(active)
  /\ \A m \in merges \cup queue :
       /\ m # {} /\ m \subseteq active /\ Unbroken(m, active)
       /\ \A o \in merges \cup queue : m = o \/ m \cap o = {}

\* What is adjacent in the list has no gap.
LEMMA SpanUnbroken ==
  ASSUME NEW s, NEW ps \in SUBSET Parts!Intervals, NEW n, Sorts(s, ps, n),
         NEW i \in 1 .. n, NEW j \in 1 .. n, i <= j
  PROVE  /\ {s[k] : k \in i .. j} # {} /\ {s[k] : k \in i .. j} \subseteq ps
         /\ Unbroken({s[k] : k \in i .. j}, ps)
<1>1. n \in Nat /\ \A k \in 1 .. n : s[k] \in ps /\ s[k][1] \in Int
  BY IntervalsAre DEF Sorts
<1>2. \A k \in i .. j : k \in 1 .. n
  BY <1>1
<1>3. i \in i .. j
  BY <1>1
<1>4. ASSUME NEW a \in {s[k] : k \in i .. j}, NEW b \in {s[k] : k \in i .. j}, NEW c \in ps,
             a[1] <= c[1], c[1] <= b[1]
      PROVE  c \in {s[k] : k \in i .. j}
  <2>1. PICK ka \in i .. j, kb \in i .. j : a = s[ka] /\ b = s[kb]
    OBVIOUS
  <2>2. PICK k \in 1 .. n : s[k] = c
    BY DEF Sorts
  <2>3. ka \in 1 .. n /\ kb \in 1 .. n
    BY <1>2
  <2>4. ~(k < ka) /\ ~(kb < k)
    <3>1. k < ka => s[k][1] < s[ka][1]
      BY <2>3 DEF Sorts
    <3>2. kb < k => s[kb][1] < s[k][1]
      BY <2>3 DEF Sorts
    <3>3. s[k][1] \in Int /\ s[ka][1] \in Int /\ s[kb][1] \in Int
      BY <1>1, <2>3
    <3>4. s[ka][1] <= s[k][1] /\ s[k][1] <= s[kb][1]
      BY <1>4, <2>1, <2>2
    <3>5. QED
      BY <3>1, <3>2, <3>3, <3>4
  <2>5. k \in i .. j
    BY <1>1, <2>4
  <2>6. QED
    BY <2>2, <2>5
<1>5. QED
  BY <1>1, <1>2, <1>3, <1>4 DEF Unbroken

\* A merged part begins with the first of its parts and ends with the last.
LEMMA MergedEnds ==
  ASSUME NEW m \in SUBSET Parts!Intervals, Apart(m), m # {}
  PROVE  \E f, l \in m : /\ Parts!Merged(m) = <<f[1], l[2]>>
                         /\ \A a \in m : f[1] <= a[1] /\ a[1] <= l[1]
<1>1. PICK s, n : s = Parts!InOrder(m) /\ n = Cardinality(m)
  OBVIOUS
<1>2. Sorts(s, m, n)
  BY <1>1, InOrderSorts
<1>3. 1 \in 1 .. n /\ n \in 1 .. n
  BY <1>2 DEF Sorts
<1>4. Parts!Merged(m) = <<s[1][1], s[n][2]>>
  BY <1>1, CountsAlike DEF Parts!Merged
<1>5. ASSUME NEW a \in m PROVE s[1][1] <= a[1] /\ a[1] <= s[n][1]
  <2>1. PICK k \in 1 .. n : s[k] = a
    BY <1>2 DEF Sorts
  <2>2. s[1][1] \in Int /\ s[n][1] \in Int /\ a[1] \in Int
    <3>1. s[1] \in m /\ s[n] \in m
      BY <1>2, <1>3 DEF Sorts
    <3>2. s[1] \in Parts!Intervals /\ s[n] \in Parts!Intervals /\ a \in Parts!Intervals
      BY <3>1
    <3>3. QED
      BY <3>2, IntervalsAre
  <2>3. k = 1 \/ 1 < k
    BY <1>3
  <2>4. k = n \/ k < n
    BY <1>2 DEF Sorts
  <2>5. QED
    BY <1>2, <1>3, <2>1, <2>2, <2>3, <2>4 DEF Sorts
<1>6. s[1] \in m /\ s[n] \in m
  BY <1>2, <1>3 DEF Sorts
<1>7. QED
  BY <1>4, <1>5, <1>6

\* It takes their place without touching another part or coming between the parts of
\* another merge.
LEMMA MergedFits ==
  ASSUME NEW ps \in SUBSET Parts!Intervals, Apart(ps), NEW m \in SUBSET ps, m # {},
         Unbroken(m, ps), NEW new, new = (ps \ m) \cup {Parts!Merged(m)}
  PROVE  /\ new \subseteq Parts!Intervals /\ Apart(new)
         /\ \A o \in SUBSET ps :
              o \cap m = {} /\ Unbroken(o, ps) => o \subseteq new /\ Unbroken(o, new)
<1>1. m \in SUBSET Parts!Intervals /\ Apart(m)
  BY DEF Apart
<1>2. PICK f \in m, l \in m : /\ Parts!Merged(m) = <<f[1], l[2]>>
                              /\ \A a \in m : f[1] <= a[1] /\ a[1] <= l[1]
  BY <1>1, MergedEnds
<1>3. PICK x : x = Parts!Merged(m) /\ x[1] = f[1] /\ x[2] = l[2]
  BY <1>2
<1>4. /\ f[1] \in 1 .. Blocks /\ f[2] \in 1 .. Blocks /\ f[1] <= f[2]
      /\ l[1] \in 1 .. Blocks /\ l[2] \in 1 .. Blocks /\ l[1] <= l[2] /\ f[1] <= l[1]
  BY <1>1, <1>2, IntervalsAre
<1>5. x \in Parts!Intervals
  BY <1>2, <1>3, <1>4, BlocksAssumption DEF Parts!Intervals
<1>6. ASSUME NEW a \in ps \ m PROVE a[2] < x[1] \/ x[2] < a[1]
  <2>1. a[1] \in 1 .. Blocks /\ a[2] \in 1 .. Blocks /\ a[1] <= a[2]
    BY IntervalsAre
  <2>2. (a[2] < f[1] \/ f[2] < a[1]) /\ (a[2] < l[1] \/ l[2] < a[1])
    BY DEF Apart
  <2>3. ~(f[1] <= a[1] /\ a[1] <= l[1])
    BY DEF Unbroken
  <2>4. QED
    BY <1>3, <1>4, <2>1, <2>2, <2>3
<1>7. new \subseteq Parts!Intervals
  BY <1>3, <1>5
<1>8. Apart(new)
  <2> SUFFICES ASSUME NEW a \in new, NEW b \in new PROVE a = b \/ a[2] < b[1] \/ b[2] < a[1]
    BY DEF Apart
  <2>1. CASE a \in ps \ m /\ b \in ps \ m
    BY <2>1 DEF Apart
  <2>2. CASE a \in ps \ m /\ b = x
    BY <1>6, <2>2
  <2>3. CASE a = x /\ b \in ps \ m
    BY <1>6, <2>3
  <2>4. QED
    BY <1>3, <2>1, <2>2, <2>3
<1>9. ASSUME NEW o \in SUBSET ps, o \cap m = {}, Unbroken(o, ps)
      PROVE  o \subseteq new /\ Unbroken(o, new)
  <2>1. o \subseteq new
    BY <1>9
  <2>2. ASSUME NEW a \in o, NEW b \in o, NEW c \in new, a[1] <= c[1], c[1] <= b[1] PROVE c \in o
    <3>1. CASE c \in ps
      BY <1>9, <2>2, <3>1 DEF Unbroken
    <3>2. CASE c = x
      <4>1. f \in o
        BY <1>3, <1>9, <2>2, <3>2 DEF Unbroken
      <4>2. QED
        BY <1>9, <4>1
    <3>3. QED
      BY <1>3, <3>1, <3>2
  <2>3. QED
    BY <2>1, <2>2 DEF Unbroken
<1>10. QED
  BY <1>7, <1>8, <1>9

\* The next block, if there is one.
LEMMA LastBlock ==
  ASSUME NEW ps \in SUBSET Parts!Intervals
  PROVE  \E b \in 0 .. Blocks : /\ \A a \in ps : a[2] <= b
                                /\ b = 0 \/ \E a \in ps : a[2] = b
<1> DEFINE Q == {b \in 0 .. Blocks : \A a \in ps : a[2] <= b}
<1>1. Blocks \in Q
  BY IntervalsAre, BlocksAssumption
<1>2. Q \in SUBSET Nat /\ Q # {}
  BY <1>1, BlocksAssumption
<1>3. PICK b \in Q : \A c \in Q : b <= c
  <2> HIDE DEF Q
  <2>1. QED
    BY <1>2, LeastNumber
<1>4. CASE b # 0 /\ \A a \in ps : a[2] # b
  <2>1. b - 1 \in 0 .. Blocks
    BY <1>3, <1>4, BlocksAssumption
  <2>2. \A a \in ps : a[2] <= b - 1
    BY <1>3, <1>4, IntervalsAre
  <2>3. b - 1 \in Q
    BY <2>1, <2>2
  <2>4. QED
    BY <1>3, <2>1, <2>3
<1>5. QED
  BY <1>3, <1>4

\* Every part of ps comes after every part of rs.
Later(ps, rs) == \A a \in ps, b \in rs : b[2] < a[1]

LEMMA InsertTable ==
  ASSUME TableOK, Parts!Insert
  PROVE  TableOK' /\ active \subseteq active' /\ Later(active' \ active, active)
<1>1. active \in SUBSET Parts!Intervals
  BY DEF TableOK
<1> DEFINE IsLast(b) == (\A a \in active : a[2] <= b) /\ (b = 0 \/ \E a \in active : a[2] = b)
<1>2. PICK last \in 0 .. Blocks : /\ \A a \in active : a[2] <= last
                                  /\ last < Blocks
                                  /\ active' = active \cup {<<last + 1, last + 1>>}
  <2> DEFINE last == CHOOSE b \in 0 .. Blocks : IsLast(b)
  <2>1. last < Blocks /\ active' = active \cup {<<last + 1, last + 1>>}
    BY DEF Parts!Insert
  <2>2. \E b \in 0 .. Blocks : IsLast(b)
    BY <1>1, LastBlock
  <2> HIDE DEF IsLast
  <2>3. last \in 0 .. Blocks /\ IsLast(last)
    BY <2>2
  <2> HIDE DEF last
  <2>4. \A a \in active : a[2] <= last
    BY <2>3 DEF IsLast
  <2>5. QED
    BY <2>1, <2>3, <2>4
<1>a. PICK x : x = <<last + 1, last + 1>>
  OBVIOUS
<1>3. x = <<last + 1, last + 1>> /\ x[1] = last + 1 /\ x[2] = last + 1
  BY <1>a
<1>4. x \in Parts!Intervals
  BY <1>2, <1>3, BlocksAssumption DEF Parts!Intervals
<1>5. \A a \in active : a[1] < x[1] /\ a[2] < x[1] /\ a[1] \in Int
  BY <1>1, <1>2, <1>3, IntervalsAre, BlocksAssumption
<1>6. active' \subseteq Parts!Intervals /\ Apart(active')
  <2>1. active' = active \cup {x}
    BY <1>2, <1>3
  <2>2. QED
    BY <1>1, <1>4, <1>5, <2>1 DEF Apart, TableOK
<1>7. UNCHANGED <<merges, queue>>
  BY DEF Parts!Insert
<1>8. ASSUME NEW m \in merges \cup queue PROVE m \subseteq active' /\ Unbroken(m, active')
  <2>1. m \subseteq active /\ Unbroken(m, active)
    BY DEF TableOK
  <2>2. ASSUME NEW a \in m, NEW b \in m, NEW c \in active', a[1] <= c[1], c[1] <= b[1]
        PROVE  c \in m
    <3>1. b[1] < x[1] /\ b[1] \in Int /\ x[1] \in Int
      BY <1>2, <1>3, <1>5, <2>1
    <3>2. c # x
      BY <2>2, <3>1
    <3>3. c \in active
      BY <1>2, <1>3, <3>2
    <3>4. QED
      BY <2>1, <2>2, <3>3 DEF Unbroken
  <2>3. QED
    BY <1>2, <2>1, <2>2 DEF Unbroken
<1>9. \A m, o \in merges \cup queue : m # {} /\ (m = o \/ m \cap o = {})
  BY DEF TableOK
<1>10. TableOK'
  BY <1>6, <1>7, <1>8, <1>9 DEF TableOK
<1>11. Later(active' \ active, active)
  BY <1>2, <1>3, <1>5 DEF Later
<1>12. QED
  BY <1>2, <1>10, <1>11

\* What may be assigned is a part of the table without gaps that nothing holds.
LEMMA AssignableFits ==
  ASSUME TableOK, NEW m \in Parts!Assignable
  PROVE  m # {} /\ m \subseteq active /\ Unbroken(m, active) /\ m \cap Parts!Held = {}
<1>1. PICK n, s, list : /\ n = Cardinality(active) /\ s = Parts!InOrder(active)
                        /\ list = Parts!Listed(active)
  OBVIOUS
<1>2. /\ active \in SUBSET Parts!Intervals /\ Sorts(s, active, n) /\ Len(list) = n
      /\ \A k \in 1 .. n : list[k].name = s[k]
  BY <1>1, ListedSorts DEF TableOK
<1>3. PICK ab \in Parts!Runs(list, Parts!Held) : m = {list[k].name : k \in ab[1] .. ab[2]}
  BY <1>1 DEF Parts!Assignable
<1>4. PICK i, j : i = ab[1] /\ j = ab[2]
  OBVIOUS
<1>5. i \in 1 .. n /\ j \in 1 .. n /\ i <= j /\ \A k \in i .. j : list[k].name \notin Parts!Held
  BY <1>2, <1>3, <1>4 DEF Parts!Runs, Parts!IsRun
<1>6. m = {s[k] : k \in i .. j}
  <2>1. \A k \in i .. j : list[k].name = s[k]
    BY <1>2, <1>5 DEF Sorts
  <2>2. QED
    BY <1>3, <1>4, <2>1
<1>7. m \cap Parts!Held = {}
  BY <1>3, <1>4, <1>5
<1>8. /\ {s[k] : k \in i .. j} # {} /\ {s[k] : k \in i .. j} \subseteq active
      /\ Unbroken({s[k] : k \in i .. j}, active)
  BY <1>2, <1>5, SpanUnbroken
<1>9. QED
  BY <1>6, <1>7, <1>8

LEMMA AssignTable == ASSUME TableOK, Parts!AssignMerge PROVE TableOK' /\ ~quiet'
<1>1. PICK m \in Parts!Assignable : merges' \cup queue' = (merges \cup queue) \cup {m}
  BY DEF Parts!AssignMerge
<1>2. m # {} /\ m \subseteq active /\ Unbroken(m, active) /\ m \cap Parts!Held = {}
  BY AssignableFits
<1>3. \A o \in merges \cup queue : o \cap m = {}
  BY <1>2 DEF Parts!Held
<1>4. active' = active /\ ~quiet'
  BY DEF Parts!AssignMerge
<1>5. QED
  BY <1>1, <1>2, <1>3, <1>4 DEF TableOK, Unbroken

LEMMA FinishTable == ASSUME TableOK, Parts!FinishMerge PROVE TableOK' /\ ~quiet'
<1>1. PICK m \in merges : /\ merges' = merges \ {m} /\ queue' = queue \ {m}
                          /\ active' = (active \ m) \cup {Parts!Merged(m)}
  BY DEF Parts!FinishMerge
<1>2. /\ active \in SUBSET Parts!Intervals /\ Apart(active)
      /\ m \in SUBSET active /\ m # {} /\ Unbroken(m, active)
  BY DEF TableOK
<1>3. /\ active' \subseteq Parts!Intervals /\ Apart(active')
      /\ \A o \in SUBSET active :
           o \cap m = {} /\ Unbroken(o, active) => o \subseteq active' /\ Unbroken(o, active')
  BY <1>1, <1>2, MergedFits
<1>4. \A o \in merges' \cup queue' : /\ o \in merges \cup queue /\ o \cap m = {}
                                     /\ o \in SUBSET active /\ Unbroken(o, active)
  BY <1>1 DEF TableOK
<1>5. \A o \in merges' \cup queue' : o \subseteq active' /\ Unbroken(o, active')
  BY <1>3, <1>4
<1>6. \A o, r \in merges' \cup queue' : o # {} /\ (o = r \/ o \cap r = {})
  BY <1>4 DEF TableOK
<1>7. TableOK'
  BY <1>3, <1>5, <1>6 DEF TableOK
<1>8. QED
  BY <1>7 DEF Parts!FinishMerge

LEMMA StartTable == ASSUME TableOK, Parts!StartQueued PROVE TableOK' /\ ~quiet'
<1>1. /\ merges' \cup queue' = merges \cup queue /\ active' = active /\ ~quiet'
  BY DEF Parts!StartQueued
<1>2. QED
  BY <1>1 DEF TableOK, Unbroken

LEMMA InitTable == Parts!Init \/ PartsEnded => TableOK
<1>1. CASE PartsEnded
  BY <1>1 DEF PartsEnded, TableOK, Apart
<1>2. CASE Parts!Init
  <2>1. active = {<<b, b>> : b \in 1 .. Blocks - 1}
    BY <1>2 DEF Parts!Init
  <2>2. \A a \in active : a[1] \in 1 .. Blocks - 1 /\ a[2] = a[1] /\ a = <<a[1], a[1]>>
    BY <2>1
  <2>3. active \subseteq Parts!Intervals
    BY <2>1, BlocksAssumption DEF Parts!Intervals
  <2>4. Apart(active)
    <3> SUFFICES ASSUME NEW a \in active, NEW b \in active PROVE a = b \/ a[2] < b[1] \/ b[2] < a[1]
      BY DEF Apart
    <3>1. a[1] \in Int /\ b[1] \in Int /\ a[2] = a[1] /\ b[2] = b[1] /\ (a[1] = b[1] => a = b)
      BY <2>2
    <3>2. QED
      BY <3>1
  <2>5. PICK one \in {{}} \cup {{m} : m \in {{<<b, b>> : b \in a .. a + 1} : a \in 1 .. Blocks - 2}} :
          merges \subseteq one /\ queue \subseteq one
    BY <1>2 DEF Parts!Init
  <2>6. CASE merges \cup queue = {}
    BY <2>3, <2>4, <2>6 DEF TableOK
  <2>7. CASE merges \cup queue # {}
    <3>1. PICK i \in 1 .. Blocks - 2 : merges \cup queue \subseteq {{<<b, b>> : b \in i .. i + 1}}
      BY <2>5, <2>7
    <3>2. PICK w : w = {<<b, b>> : b \in i .. i + 1}
      OBVIOUS
    <3>3. \A m \in merges \cup queue : m = w
      BY <3>1, <3>2
    <3>4. <<i, i>> \in w /\ w \subseteq active
      <4>1. \A b \in i .. i + 1 : b \in 1 .. Blocks - 1
        BY <3>1, BlocksAssumption
      <4>2. QED
        BY <2>1, <3>2, <4>1
    <3>5. Unbroken(w, active)
      <4> SUFFICES ASSUME NEW a \in w, NEW b \in w, NEW c \in active, a[1] <= c[1], c[1] <= b[1]
                   PROVE  c \in w
        BY DEF Unbroken
      <4>1. a[1] \in i .. i + 1 /\ b[1] \in i .. i + 1 /\ c[1] \in Int
        BY <2>2, <3>2
      <4>2. c[1] \in i .. i + 1
        BY <3>1, <4>1
      <4>3. QED
        BY <2>2, <3>2, <4>2
    <3>6. QED
      BY <2>3, <2>4, <3>3, <3>4, <3>5 DEF TableOK
  <2>8. QED
    BY <2>6, <2>7
<1>3. QED
  BY <1>1, <1>2

-----------------------------------------------------------------------------
(***************************************************************************)
(* What the request knows of the table, as long as no merge began or ended *)
(* since it began: the merges are those it was told, and the parts it was  *)
(* not told of came after the others.                                      *)
(***************************************************************************)
Steady ==
  quiet /\ step \in {"probe", "wait"} =>
    /\ asked["parts"] = "ok" =>
         resp.parts \subseteq active /\ Later(active \ resp.parts, resp.parts)
    /\ asked["merges"] = "ok" => resp.merges = merges
    /\ asked["replication_queue"] = "ok" => resp.queued = queue
    /\ asked["replication_queue"] = "off" => queue = {} /\ resp.queued = {}

Kinds ==
  /\ resp.parts \subseteq Parts!Intervals
  /\ firstErr \in Parts!Required \cup {"none"}
  /\ reply.status \in {0, 200, 400, 502} /\ reply.page.parts \subseteq Parts!Intervals
  /\ step = "table" => resp = Parts!Empty

StandInv == PartsInv /\ TableOK /\ Steady /\ Kinds

LEMMA InitStand == Parts!Init \/ PartsEnded => StandInv
<1>1. CASE Parts!Init
  <2>1. Steady /\ Kinds
    BY <1>1 DEF Parts!Init, Steady, Kinds, Parts!Empty, Parts!NoReply, Parts!Error
  <2>2. QED
    BY <1>1, <2>1, InitParts, InitTable DEF StandInv
<1>2. CASE PartsEnded
  <2>1. Steady /\ Kinds
    BY <1>2 DEF PartsEnded, Steady, Kinds, Parts!Empty, Parts!NoReply, Parts!Error
  <2>2. QED
    BY <1>2, <2>1, EndedParts, InitTable DEF StandInv
<1>3. QED
  BY <1>1, <1>2

LEMMA BackgroundStand == ASSUME StandInv, Parts!Background PROVE TableOK' /\ Steady' /\ Kinds'
<1>1. /\ step \in {"probe", "wait"} /\ UNCHANGED <<engine, step, asked, resp, firstErr, reply>>
      /\ Parts!Insert \/ Parts!AssignMerge \/ Parts!StartQueued \/ Parts!FinishMerge
  BY DEF Parts!Background
<1>2. Kinds'
  BY <1>1 DEF StandInv, Kinds
<1>3. CASE Parts!Insert
  <2>1. TableOK' /\ active \subseteq active' /\ Later(active' \ active, active)
    BY <1>3, InsertTable DEF StandInv
  <2>2. UNCHANGED <<merges, queue, quiet>>
    BY <1>3 DEF Parts!Insert, Parts!past
  <2>3. ASSUME quiet, asked["parts"] = "ok"
        PROVE  resp.parts \subseteq active' /\ Later(active' \ resp.parts, resp.parts)
    <3>1. resp.parts \subseteq active /\ Later(active \ resp.parts, resp.parts)
      BY <1>1, <2>3 DEF StandInv, Steady
    <3>2. QED
      BY <2>1, <3>1 DEF Later
  <2>4. Steady'
    BY <1>1, <2>2, <2>3 DEF StandInv, Steady
  <2>5. QED
    BY <1>2, <2>1, <2>4
<1>4. CASE Parts!AssignMerge \/ Parts!StartQueued \/ Parts!FinishMerge
  <2>1. TableOK' /\ ~quiet'
    BY <1>4, AssignTable, StartTable, FinishTable DEF StandInv
  <2>2. QED
    BY <1>2, <2>1 DEF Steady
<1>5. QED
  BY <1>1, <1>3, <1>4

LEMMA LaunchStand == ASSUME StandInv, Parts!Launch PROVE Steady' /\ Kinds'
<1>1. /\ step = "table" /\ step' = "probe" /\ UNCHANGED <<merges, queue, resp, firstErr, reply>>
      /\ asked' = [a \in Questions |-> IF a \in Parts!FirstAsked THEN "sent" ELSE "off"]
  BY DEF Parts!Launch, Parts!world, StandInv, PartsInv, Asking
<1>2. Kinds'
  BY <1>1 DEF StandInv, Kinds
<1>3. asked'["parts"] # "ok" /\ asked'["merges"] # "ok" /\ asked'["replication_queue"] # "ok"
  BY <1>1, QuestionsAre
<1>4. asked'["replication_queue"] = "off" => engine # "Replicated"
  BY <1>1, QuestionsAre DEF Parts!FirstAsked
<1>5. resp.queued = {}
  BY <1>1 DEF StandInv, Kinds, Parts!Empty
<1>6. Steady'
  BY <1>1, <1>3, <1>4, <1>5 DEF Steady, StandInv, PartsInv, Seen
<1>7. QED
  BY <1>2, <1>6

LEMMA ProbeStand == ASSUME StandInv, Parts!Probe PROVE Steady' /\ Kinds'
<1>1. PICK has \in BOOLEAN :
        /\ step = "probe" /\ step' = "wait"
        /\ asked' = [asked EXCEPT !["part_log"] = IF has THEN "sent" ELSE "off",
                                  !["merge_tree_settings"] = "sent"]
        /\ UNCHANGED <<active, merges, queue, quiet, resp, firstErr, reply>>
  BY DEF Parts!Probe, Parts!world, Parts!past
<1>2. \A a \in {"now", "parts", "merges", "replication_queue"} : asked'[a] = asked[a]
  BY <1>1, QuestionsAre DEF StandInv, PartsInv, Asking
<1>3. QED
  BY <1>1, <1>2 DEF StandInv, Steady, Kinds

\* A query is back: what it brings is the truth of this moment, if it did not fail.
LEMMA BackStand ==
  ASSUME StandInv, NEW a \in Questions, asked[a] = "sent", NEW new \in {"ok", "failed"},
         asked' = [asked EXCEPT ![a] = new],
         UNCHANGED <<active, merges, queue, quiet, step, reply>>,
         firstErr' \in Parts!Required \cup {"none"},
         a # "parts" => resp'.parts = resp.parts,
         a = "parts" => resp'.parts = resp.parts \/ resp'.parts = active,
         a = "parts" /\ new = "ok" => resp'.parts = active,
         a # "merges" => resp'.merges = resp.merges,
         a = "merges" /\ new = "ok" => resp'.merges = merges,
         a # "replication_queue" => resp'.queued = resp.queued,
         a = "replication_queue" /\ new = "ok" => resp'.queued = queue
  PROVE  Steady' /\ Kinds'
<1>1. step # "table" /\ asked'[a] = new /\ \A b \in Questions \ {a} : asked'[b] = asked[b]
  BY DEF StandInv, PartsInv, Asking
<1>2. Kinds'
  BY <1>1 DEF StandInv, Kinds, TableOK
<1>3. ASSUME quiet, step \in {"probe", "wait"} PROVE Steady'
  <2>1. asked'["parts"] = "ok" =>
          resp'.parts \subseteq active /\ Later(active \ resp'.parts, resp'.parts)
    <3>1. CASE a = "parts"
      BY <1>1, <3>1 DEF Later
    <3>2. CASE a # "parts"
      BY <1>1, <1>3, <3>2, QuestionsAre DEF StandInv, Steady
    <3>3. QED
      BY <3>1, <3>2
  <2>2. asked'["merges"] = "ok" => resp'.merges = merges
    BY <1>1, <1>3, QuestionsAre DEF StandInv, Steady
  <2>3. asked'["replication_queue"] = "ok" => resp'.queued = queue
    BY <1>1, <1>3, QuestionsAre DEF StandInv, Steady
  <2>4. asked'["replication_queue"] = "off" => queue = {} /\ resp'.queued = {}
    BY <1>1, <1>3, QuestionsAre DEF StandInv, Steady
  <2>5. QED
    BY <2>1, <2>2, <2>3, <2>4 DEF Steady
<1>4. QED
  BY <1>2, <1>3 DEF Steady

LEMMA AnswerStand ==
  ASSUME StandInv, NEW a \in Questions, Parts!Answer(a) PROVE Steady' /\ Kinds'
<1>1. /\ asked[a] = "sent" /\ asked' = [asked EXCEPT ![a] = "ok"]
      /\ resp' = Parts!Answered(a, Parts!Rows(a))
      /\ UNCHANGED <<active, merges, queue, quiet, step, reply, firstErr>>
  BY DEF Parts!Answer, Parts!world, Parts!past
<1>2. DOMAIN resp = {"parts", "merges", "queued", "warnings"}
  BY DEF StandInv, PartsInv, Asking
<1>3. /\ resp'.parts = IF a = "parts" THEN active ELSE resp.parts
      /\ resp'.merges = IF a = "merges" THEN merges ELSE resp.merges
      /\ resp'.queued = IF a = "replication_queue" THEN queue ELSE resp.queued
  BY <1>1, <1>2, QuestionsAre DEF Parts!Answered, Parts!Rows
<1>4. firstErr' \in Parts!Required \cup {"none"}
  BY <1>1 DEF StandInv, Kinds
<1>5. QED
  BY <1>1, <1>3, <1>4, BackStand

LEMMA FailStand ==
  ASSUME StandInv, NEW a \in Questions, Parts!Fail(a) PROVE Steady' /\ Kinds'
<1>1. /\ asked[a] = "sent" /\ asked' = [asked EXCEPT ![a] = "failed"]
      /\ firstErr' = IF a \in Parts!Required /\ firstErr = "none" THEN a ELSE firstErr
      /\ UNCHANGED <<active, merges, queue, quiet, step, reply>>
  BY DEF Parts!Fail, Parts!world, Parts!past
<1>2. DOMAIN resp = {"parts", "merges", "queued", "warnings"}
  BY DEF StandInv, PartsInv, Asking
<1>3. firstErr' \in Parts!Required \cup {"none"}
  BY <1>1 DEF StandInv, Kinds
<1>4. CASE a \in Parts!Required
  <2>1. resp' = resp
    BY <1>4 DEF Parts!Fail
  <2>2. QED
    BY <1>1, <1>3, <2>1, BackStand
<1>5. CASE a \notin Parts!Required
  <2>1. PICK rs : resp' = [Parts!Answered(a, rs) EXCEPT !.warnings = @ \cup {a}]
    BY <1>5 DEF Parts!Fail
  <2>2. a # "parts"
    BY <1>5 DEF Parts!Required
  <2>3. /\ resp'.parts = resp.parts
        /\ a # "merges" => resp'.merges = resp.merges
        /\ a # "replication_queue" => resp'.queued = resp.queued
    BY <1>2, <2>1, <2>2, QuestionsAre DEF Parts!Answered
  <2>4. QED
    BY <1>1, <1>3, <2>2, <2>3, BackStand
<1>6. QED
  BY <1>4, <1>5

LEMMA DoneStand ==
  ASSUME StandInv, Parts!Refuse \/ Parts!ReplyError \/ Parts!ReplyPage
  PROVE  Steady' /\ Kinds'
<1>1. step' = "done" /\ UNCHANGED <<resp, firstErr>>
  BY DEF Parts!Refuse, Parts!ReplyError, Parts!ReplyPage
<1>2. reply'.status \in {0, 200, 400, 502} /\ reply'.page.parts \subseteq Parts!Intervals
  <2>1. CASE Parts!Refuse \/ Parts!ReplyError
    BY <2>1 DEF Parts!Refuse, Parts!ReplyError, Parts!Error, Parts!Empty
  <2>2. CASE Parts!ReplyPage
    <3>1. reply'.status = 200 /\ reply'.page = resp
      BY <2>2 DEF Parts!ReplyPage
    <3>2. QED
      BY <3>1 DEF StandInv, Kinds
  <2>3. QED
    BY <2>1, <2>2
<1>3. QED
  BY <1>1, <1>2 DEF StandInv, Steady, Kinds

LEMMA StepStand == ASSUME StandInv, Parts!Next PROVE StandInv'
<1>1. PartsInv' /\ DOMAIN asked = Questions
  BY StepParts DEF StandInv, PartsInv, Asking
<1>2. CASE Parts!Background
  BY <1>1, <1>2, BackgroundStand DEF StandInv
<1>3. CASE ~Parts!Background
  <2>1. UNCHANGED <<active, merges, queue>>
    BY <1>3 DEF Parts!Next, Parts!Handler, Parts!Return, Parts!Goroutine, Parts!Refuse,
                Parts!Launch, Parts!Probe, Parts!ReplyError, Parts!ReplyPage, Parts!Answer,
                Parts!Fail, Parts!world
  <2>2. TableOK'
    BY <2>1 DEF StandInv, TableOK, Unbroken
  <2>3. Steady' /\ Kinds'
    BY <1>1, <1>3, LaunchStand, ProbeStand, AnswerStand, FailStand, DoneStand
       DEF Parts!Next, Parts!Handler, Parts!Return, Parts!Goroutine
  <2>4. QED
    BY <1>1, <2>2, <2>3 DEF StandInv
<1>4. QED
  BY <1>2, <1>3

\* The list of the parts that were there first is the beginning of the list of all.
LEMMA FirstOfList ==
  ASSUME NEW rs \in SUBSET Parts!Intervals, NEW ps \in SUBSET rs, Later(rs \ ps, ps),
         NEW s, NEW n, Sorts(s, ps, n), NEW t, NEW m, Sorts(t, rs, m)
  PROVE  \A k \in 1 .. n : k \in 1 .. m /\ s[k] = t[k]
<1> DEFINE Good(k) == k \in 1 .. m /\ s[k] = t[k]
           Q       == {k \in 1 .. n : ~Good(k)}
<1>1. SUFFICES ASSUME Q # {} PROVE FALSE
  OBVIOUS
<1>2. PICK k \in Q : \A i \in Q : k <= i
  <2>1. Q \in SUBSET Nat
    BY DEF Sorts
  <2> HIDE DEF Q
  <2>2. QED
    BY <1>1, <2>1, LeastNumber
<1>3. n \in Nat /\ m \in Nat /\ k \in 1 .. n /\ \A i \in 1 .. n : i < k => Good(i)
  BY <1>2 DEF Sorts
<1>4. s[k] \in ps
  BY <1>3 DEF Sorts
<1>5. PICK j \in 1 .. m : t[j] = s[k]
  BY <1>4 DEF Sorts
<1>6. /\ \A i \in 1 .. n : s[i] \in ps /\ s[i][1] \in Int
      /\ \A i \in 1 .. m : t[i] \in rs /\ t[i][1] \in Int
  BY IntervalsAre DEF Sorts
<1>7. ~(j < k)
  <2>1. ASSUME j < k PROVE FALSE
    <3>1. j \in 1 .. n /\ s[j] = t[j]
      BY <1>3, <2>1
    <3>2. s[j][1] < s[k][1]
      BY <1>3, <2>1, <3>1 DEF Sorts
    <3>3. QED
      BY <1>3, <1>5, <1>6, <3>1, <3>2
  <2>2. QED
    BY <2>1
<1>8. k \in 1 .. m /\ k < j
  <2>1. k \in 1 .. m
    BY <1>3, <1>7
  <2>2. k # j
    BY <1>2, <1>5, <2>1
  <2>3. QED
    BY <1>3, <1>7, <2>1, <2>2
<1>9. t[k][1] < s[k][1]
  BY <1>5, <1>8 DEF Sorts
<1>10. t[k] \in ps
  <2>1. ASSUME t[k] \notin ps PROVE FALSE
    <3>1. s[k][2] < t[k][1]
      BY <1>4, <1>6, <1>8, <2>1 DEF Later
    <3>2. s[k][1] <= s[k][2] /\ s[k][1] \in Int /\ s[k][2] \in Int /\ t[k][1] \in Int
      BY <1>4, <1>6, <1>8, IntervalsAre, BlocksAssumption
    <3>3. QED
      BY <1>9, <3>1, <3>2
  <2>2. QED
    BY <2>1
<1>11. PICK i \in 1 .. n : s[i] = t[k]
  BY <1>10 DEF Sorts
<1>12. i < k
  <2>1. k < i => s[k][1] < s[i][1]
    BY <1>3 DEF Sorts
  <2>2. s[i][1] < s[k][1] /\ s[i][1] \in Int /\ s[k][1] \in Int
    BY <1>3, <1>6, <1>9, <1>11
  <2>3. QED
    BY <1>3, <2>1, <2>2
<1>13. i \in 1 .. m /\ t[i] = t[k]
  BY <1>3, <1>11, <1>12
<1>14. t[i][1] < t[k][1]
  BY <1>8, <1>12, <1>13 DEF Sorts
<1>15. QED
  BY <1>6, <1>8, <1>13, <1>14

\* What is offered on what the request knows could be assigned now.
LEMMA OfferedStands ==
  ASSUME StandInv, Parts!ReplyPage, quiet, reply'.page.warnings = {},
         NEW k \in DOMAIN reply'.candidates
  PROVE  reply'.candidates[k] \in Parts!Assignable
<1> DEFINE list == Parts!Listed(resp.parts)
           busy == UNION (resp.merges \cup resp.queued)
<1>1. list = Parts!Listed(resp.parts) /\ busy = UNION (resp.merges \cup resp.queued)
  OBVIOUS
<1>2. PICK c \in 0 .. MaxLimit : \E seq \in [1 .. c -> Parts!PairsOf(list)] :
        /\ Parts!AreCandidates(list, busy, MaxLimit, seq)
        /\ reply' = [status |-> 200, page |-> resp,
                     candidates |-> [h \in 1 .. c |->
                                       {list[j].name : j \in seq[h][1] .. seq[h][2]}]]
  BY DEF Parts!ReplyPage
<1> HIDE DEF list, busy
<1>3. PICK seq \in [1 .. c -> Parts!PairsOf(list)] :
        /\ Parts!AreCandidates(list, busy, MaxLimit, seq)
        /\ reply' = [status |-> 200, page |-> resp,
                     candidates |-> [h \in 1 .. c |->
                                       {list[j].name : j \in seq[h][1] .. seq[h][2]}]]
  BY <1>2
<1>4. PICK a, b : a = seq[k][1] /\ b = seq[k][2]
  OBVIOUS
<1>5. k \in 1 .. c /\ reply'.candidates[k] = {list[j].name : j \in a .. b}
  BY <1>3, <1>4
<1>6. Parts!IsRun(list, busy, a, b)
  BY <1>3, <1>4, <1>5 DEF Parts!AreCandidates
<1>7. /\ step = "wait" /\ firstErr = "none" /\ resp.warnings = {}
      /\ \A h \in Questions : asked[h] \in {"off", "ok", "failed"}
  BY <1>3 DEF Parts!ReplyPage, Parts!AllBack, StandInv, PartsInv, Asking
<1>8. /\ asked["parts"] = "ok" /\ asked["merges"] = "ok"
      /\ asked["replication_queue"] \in {"ok", "off"}
  <2>1. {"parts", "merges"} \subseteq Parts!FirstAsked
    BY DEF Parts!FirstAsked
  <2>2. "parts" \in Parts!Required /\ {"merges", "replication_queue"} \subseteq Parts!Optional
    BY DEF Parts!Required, Parts!Optional
  <2>3. asked["parts"] # "off" /\ asked["merges"] # "off"
    BY <1>7, <2>1 DEF StandInv, PartsInv, Asking
  <2>4. asked["parts"] # "failed"
    BY <1>7, <2>2 DEF StandInv, PartsInv, Asking
  <2>5. asked["merges"] # "failed" /\ asked["replication_queue"] # "failed"
    BY <1>7, <2>2 DEF StandInv, PartsInv, Asking
  <2>6. QED
    BY <1>7, <2>3, <2>4, <2>5, QuestionsAre
<1>9. /\ resp.parts \subseteq active /\ Later(active \ resp.parts, resp.parts)
      /\ resp.merges = merges /\ resp.queued = queue
  BY <1>7, <1>8 DEF StandInv, Steady
<1>10. busy = Parts!Held
  BY <1>1, <1>9 DEF Parts!Held
<1>11. PICK s, n, t, m, all :
         /\ s = Parts!InOrder(resp.parts) /\ n = Cardinality(resp.parts)
         /\ t = Parts!InOrder(active) /\ m = Cardinality(active)
         /\ all = Parts!Listed(active)
  OBVIOUS
<1>12. /\ active \in SUBSET Parts!Intervals /\ Apart(active)
       /\ resp.parts \in SUBSET Parts!Intervals /\ Apart(resp.parts)
  BY <1>9 DEF StandInv, TableOK, Apart
<1>13. /\ Sorts(s, resp.parts, n) /\ Len(list) = n
       /\ \A j \in 1 .. n : list[j].name = s[j] /\ list[j].pid = "all"
  BY <1>1, <1>11, <1>12, ListedSorts
<1>14. /\ Sorts(t, active, m) /\ Len(all) = m
       /\ \A j \in 1 .. m : all[j].name = t[j] /\ all[j].pid = "all"
  BY <1>11, <1>12, ListedSorts
<1>15. \A j \in 1 .. n : j \in 1 .. m /\ s[j] = t[j]
  BY <1>9, <1>12, <1>13, <1>14, FirstOfList
<1>16. /\ a \in 1 .. n /\ b \in 1 .. n /\ a < b
       /\ \A j \in a .. b : j \in 1 .. n /\ list[j].name \notin busy
  <2>1. n \in Nat /\ a \in Int /\ b \in Int
    <3>1. seq[k] \in (1 .. Len(list)) \X (1 .. Len(list))
      BY <1>3, <1>5 DEF Parts!PairsOf
    <3>2. QED
      BY <1>4, <1>13, <3>1 DEF Sorts
  <2>2. QED
    BY <1>6, <1>13, <2>1 DEF Parts!IsRun
<1>17. \A j \in a .. b : j \in 1 .. m /\ all[j].name = list[j].name /\ all[j].pid = "all"
  BY <1>13, <1>14, <1>15, <1>16
<1>18. a \in 1 .. m /\ b \in 1 .. m
  BY <1>15, <1>16
<1>19. Parts!IsRun(all, Parts!Held, a, b)
  BY <1>10, <1>14, <1>16, <1>17, <1>18 DEF Parts!IsRun
<1>20. <<a, b>> \in Parts!Runs(all, Parts!Held)
  BY <1>14, <1>18, <1>19 DEF Parts!Runs
<1>21. {list[j].name : j \in a .. b} = {all[j].name : j \in a .. b}
  BY <1>17
<1>22. {all[j].name : j \in a .. b} \in Parts!Assignable
  BY <1>11, <1>20 DEF Parts!Assignable
<1>23. QED
  BY <1>5, <1>21, <1>22

\* The process is over, or the request for parts is, in the states this run begins with.
LEMMA EndedService == ServiceEnded => ServiceInv
<1> SUFFICES ASSUME ServiceEnded PROVE ServiceInv
  OBVIOUS
<1>1. ProcessInv
  BY ServiceAssumption DEF ServiceEnded, ProcessInv, Process!TypeOK, Process!ExitTells,
                            Process!Unserved
<1>2. ClientInv
  <2>1. /\ rows = <<>> /\ sent = 0 /\ wire = <<>> /\ stream = "none" /\ pc = "send" /\ out = <<>>
        /\ result.ok \in BOOLEAN
    BY DEF ServiceEnded, Query!Nothing
  <2>2. ClientTypes
    BY <2>1 DEF ClientTypes
  <2>3. InSequence(wire, Len(out), sent) /\ Complete(wire, Len(out), sent) /\ Ended
    BY <2>1 DEF InSequence, Complete, Ended
  <2>4. Len(wire) = 0
    BY <2>1
  <2>5. QED
    BY <2>2, <2>3, <2>4, ServiceAssumption DEF ClientInv
<1>3. QED
  BY <1>1, <1>2 DEF ServiceEnded, ServiceInv

LEMMA ServingInvariant == ServingSpec => [](StandInv /\ ServiceInv)
<1>1. ServingInit => StandInv /\ ServiceInv
  BY InitStand, InitService, EndedService DEF ServingInit
<1>2. StandInv /\ ServiceInv /\ [ServingNext]_<<vars, partsVars>> => (StandInv /\ ServiceInv)'
  <2> SUFFICES ASSUME StandInv, ServiceInv, [ServingNext]_<<vars, partsVars>>
               PROVE  StandInv' /\ ServiceInv'
    OBVIOUS
  <2>1. CASE Parts!Next /\ UNCHANGED vars
    BY <2>1, StepStand, StepService
  <2>2. CASE [Next]_vars /\ UNCHANGED partsVars
    <3>1. StandInv'
      BY <2>2 DEF partsVars, StandInv, PartsInv, Asking, Seen, Parts!PageTellsFailures,
                  Parts!BusyOfferedOnlyWithWarning, Parts!FirstAsked, Parts!Offered,
                  TableOK, Unbroken, Steady, Kinds
    <3>2. QED
      BY <2>2, <3>1, StepService
  <2>3. QED
    BY <2>1, <2>2 DEF ServingNext
<1>3. QED
  BY <1>1, <1>2, PTL DEF ServingSpec

\* The page of a request is made when every question is back and the required ones were
\* answered; it tells which of the others were not; and what it offers holds no part of
\* a merge that was there all the time, unless it tells that such merges were not seen.
THEOREM PageTold == ServingSpec => []PageTells
<1>1. StandInv => PageTells
  BY DEF StandInv, PartsInv, PageTells
<1>2. QED
  BY <1>1, ServingInvariant, PTL

\* ClickHouse merges active parts only, the parts of a table have no block in common, and
\* what is on its way to the client and in the process keeps its types beside that.
THEOREM ServingTypes == ServingSpec => []ServingTypeOK
<1>1. ServiceInv => TypeOK
  <2>1. ASSUME ClientInv PROVE out = SubSeq(rows, 1, Len(out))
    BY <2>1 DEF ClientInv, ClientTypes
  <2>2. QED
    BY <2>1 DEF ServiceInv, ProcessInv, ClientInv, ClientTypes, TypeOK, Query!TypeOK
<1>2. StandInv => Parts!TypeOK
  <2>1. ASSUME StandInv PROVE asked \in [Questions -> {"off", "sent", "ok", "failed"}]
    BY <2>1 DEF StandInv, PartsInv, Asking
  <2>2. QED
    BY <2>1 DEF StandInv, PartsInv, Asking, Seen, TableOK, Kinds, Parts!TypeOK, Questions
<1>3. QED
  BY <1>1, <1>2, ServingInvariant, PTL DEF ServingTypeOK

\* When no merge began or ended during a request, and nothing failed, ClickHouse could
\* assign every candidate the moment the reply is made, whatever was inserted meanwhile.
THEOREM CandidatesDoStand == ServingSpec => CandidatesStand
<1> DEFINE A == reply.status = 0 /\ reply'.status = 200 /\ quiet /\ reply'.page.warnings = {} =>
                  \A k \in DOMAIN reply'.candidates : reply'.candidates[k] \in Parts!Assignable
<1>1. StandInv /\ [ServingNext]_<<vars, partsVars>> => [A]_(Parts!vars)
  <2> SUFFICES ASSUME StandInv, [ServingNext]_<<vars, partsVars>>,
                      reply.status = 0, reply'.status = 200, quiet, reply'.page.warnings = {},
                      NEW k \in DOMAIN reply'.candidates
               PROVE  reply'.candidates[k] \in Parts!Assignable
    OBVIOUS
  <2>1. Parts!Next
    <3>1. reply' # reply
      OBVIOUS
    <3>2. ~UNCHANGED partsVars
      BY <3>1 DEF partsVars
    <3>3. QED
      BY <3>2 DEF ServingNext
  <2>2. Parts!ReplyPage
    BY <2>1 DEF Parts!Next, Parts!Background, Parts!Handler, Parts!Return, Parts!Goroutine,
                Parts!Refuse, Parts!Launch, Parts!Probe, Parts!ReplyError, Parts!Error,
                Parts!Answer, Parts!Fail
  <2>3. QED
    BY <2>2, OfferedStands
<1>2. QED
  BY <1>1, ServingInvariant, PTL DEF ServingSpec, CandidatesStand, Parts!CandidatesStand

-----------------------------------------------------------------------------
(***************************************************************************)
(* What must happen, if nobody who is owed a step is without one           *)
(* (NobodyStuckInParts): the handler goes from stage to stage, and each    *)
(* question it waits for comes back and is not asked again.                *)
(***************************************************************************)
\* The stages of a request, and what became of a question once all were asked.
Table   == step = "table"
Probing == step = "probe"
Waiting == step = "wait"
Done    == step = "done"
Back(a) == step \in {"wait", "done"} /\ asked[a] # "sent"

\* The handler goes from one stage to the next; nobody else moves it.
LEMMA StageMoves ==
  ASSUME StandInv, [ServingNext]_<<vars, partsVars>>
  PROVE  /\ Table => Table' \/ Probing' \/ Done'
         /\ Table /\ Parts!Handler => Probing' \/ Done'
         /\ Probing => Probing' \/ Waiting'
         /\ Probing /\ Parts!Handler => Waiting'
         /\ Waiting => Waiting' \/ Done'
         /\ Waiting /\ Parts!Handler => Done'
         /\ Done => Done'
<1>1. ASSUME Parts!Handler
      PROVE  /\ Table => Probing' \/ Done'
             /\ Probing => Waiting'
             /\ Waiting => Done'
             /\ ~Done
  BY <1>1 DEF Parts!Handler, Parts!Refuse, Parts!Launch, Parts!Probe, Parts!Return,
              Parts!ReplyError, Parts!ReplyPage, Table, Probing, Waiting, Done
<1>2. step' = step \/ Parts!Handler
  <2>1. CASE Parts!Background \/ \E a \in DOMAIN asked : Parts!Goroutine(a)
    BY <2>1 DEF Parts!Background, Parts!Goroutine, Parts!Answer, Parts!Fail
  <2>2. CASE UNCHANGED partsVars
    BY <2>2 DEF partsVars
  <2>3. QED
    BY <2>1, <2>2 DEF ServingNext, Parts!Next
<1>3. QED
  BY <1>1, <1>2 DEF Table, Probing, Waiting, Done

\* No question is asked again when the handler waits.
LEMMA BackStays ==
  ASSUME StandInv, [ServingNext]_<<vars, partsVars>>, NEW a \in Questions, Back(a)
  PROVE  Back(a)'
<1>1. asked \in [Questions -> {"off", "sent", "ok", "failed"}]
  BY DEF StandInv, PartsInv, Asking
<1>2. step' \in {"wait", "done"}
  BY StageMoves DEF Back, Waiting, Done
<1>3. asked'[a] = asked[a] \/ asked'[a] \in {"ok", "failed"}
  <2>1. CASE UNCHANGED partsVars \/ Parts!Background
    BY <2>1 DEF partsVars, Parts!Background
  <2>2. CASE Parts!Handler
    BY <2>2 DEF Parts!Handler, Parts!Refuse, Parts!Launch, Parts!Probe, Parts!Return,
                Parts!ReplyError, Parts!ReplyPage, Back
  <2>3. CASE \E b \in DOMAIN asked : Parts!Goroutine(b)
    BY <1>1, <2>3 DEF Parts!Goroutine, Parts!Answer, Parts!Fail
  <2>4. QED
    BY <2>1, <2>2, <2>3 DEF ServingNext, Parts!Next
<1>4. QED
  BY <1>2, <1>3 DEF Back

\* The goroutine of a question brings it back.
LEMMA GoroutineBrings ==
  ASSUME StandInv, Waiting, NEW a \in Questions, Parts!Goroutine(a)
  PROVE  Back(a)'
<1>1. asked \in [Questions -> {"off", "sent", "ok", "failed"}]
  BY DEF StandInv, PartsInv, Asking
<1>2. QED
  BY <1>1 DEF Parts!Goroutine, Parts!Answer, Parts!Fail, Back, Waiting

\* The fairness of the goroutine of a question, and what it does for the handler.
Runs(a)  == WF_partsVars(Parts!Goroutine(a))
AllRun   == \A a \in Parts!Required \cup Parts!Optional : Runs(a)
Comes(a) == ServingSpec /\ []NobodyStuckInParts => (Waiting ~> Back(a))

\* Fairness for all of them is fairness for each.
LEMMA ServingRuns == ServingSpec => AllRun
BY PTL DEF ServingSpec, AllRun, Runs

\* Every question of a handler that waits comes back.
LEMMA ComesBack == ASSUME NEW a \in Questions PROVE Comes(a)
<1>1. ServingSpec => Runs(a)
  <2>1. AllRun => Runs(a)
    BY DEF AllRun, Questions
  <2>2. QED
    BY <2>1, ServingRuns, PTL
<1>2. StandInv /\ [ServingNext]_<<vars, partsVars>> /\ Waiting => Waiting' \/ Done'
  BY StageMoves
<1>3. StandInv /\ [ServingNext]_<<vars, partsVars>> /\ Back(a) => Back(a)'
  BY BackStays
<1>4. StandInv /\ Waiting /\ <<Parts!Goroutine(a)>>_partsVars => Back(a)'
  BY GoroutineBrings
<1>5. NobodyStuckInParts /\ Waiting /\ ~Back(a) => ENABLED <<Parts!Goroutine(a)>>_partsVars
  BY DEF NobodyStuckInParts, Waiting, Back, Questions
<1>6. StandInv /\ Done => Back(a)
  BY DEF StandInv, PartsInv, Asking, Done, Back
<1>7. ServingSpec => [][ServingNext]_<<vars, partsVars>>
  BY PTL DEF ServingSpec
<1> HIDE DEF ServingSpec
<1>8. QED
  BY <1>1, <1>2, <1>3, <1>4, <1>5, <1>6, <1>7, ServingInvariant, PTL DEF Comes, Runs

\* A request for parts is answered, whatever the table and the six queries do: the handler
\* waits for goroutines that all come back.
THEOREM PartsAreAnswered == ServingSpec /\ []NobodyStuckInParts => Parts!Answers
<1>1. StandInv /\ [ServingNext]_<<vars, partsVars>> =>
        /\ Table => Table' \/ Probing' \/ Done'
        /\ Probing => Probing' \/ Waiting'
        /\ Waiting => Waiting' \/ Done'
        /\ Done => Done'
  BY StageMoves
<1>2. StandInv /\ [ServingNext]_<<vars, partsVars>> /\ <<Parts!Handler>>_partsVars =>
        /\ Table => Probing' \/ Done'
        /\ Probing => Waiting'
        /\ Waiting => Done'
  BY StageMoves
<1>3. StandInv => Table \/ Probing \/ Waiting \/ Done
  BY DEF StandInv, PartsInv, Asking, Table, Probing, Waiting, Done
<1>4. /\ StandInv /\ [ServingNext]_<<vars, partsVars>> /\ Back("now") => Back("now")'
      /\ StandInv /\ [ServingNext]_<<vars, partsVars>> /\ Back("parts") => Back("parts")'
      /\ StandInv /\ [ServingNext]_<<vars, partsVars>> /\ Back("merges") => Back("merges")'
      /\ StandInv /\ [ServingNext]_<<vars, partsVars>> /\ Back("replication_queue")
           => Back("replication_queue")'
      /\ StandInv /\ [ServingNext]_<<vars, partsVars>> /\ Back("part_log") => Back("part_log")'
      /\ StandInv /\ [ServingNext]_<<vars, partsVars>> /\ Back("merge_tree_settings")
           => Back("merge_tree_settings")'
  BY BackStays, QuestionsAre
<1>5. /\ Comes("now") /\ Comes("parts") /\ Comes("merges")
      /\ Comes("replication_queue") /\ Comes("part_log") /\ Comes("merge_tree_settings")
  BY ComesBack, QuestionsAre
<1>6. StandInv /\ NobodyStuckInParts /\ (Table \/ Probing) => ENABLED <<Parts!Handler>>_partsVars
  BY DEF NobodyStuckInParts, Table, Probing
<1>7. StandInv /\ NobodyStuckInParts /\ Waiting /\ Back("now") /\ Back("parts") /\ Back("merges")
        /\ Back("replication_queue") /\ Back("part_log") /\ Back("merge_tree_settings")
        => ENABLED <<Parts!Handler>>_partsVars
  <2> SUFFICES ASSUME StandInv, NobodyStuckInParts, Waiting, \A a \in Questions : Back(a)
               PROVE  ENABLED <<Parts!Handler>>_partsVars
    BY QuestionsAre
  <2>1. Parts!AllBack
    BY DEF StandInv, PartsInv, Asking, Back, Parts!AllBack
  <2>2. QED
    BY <2>1 DEF NobodyStuckInParts, Waiting
<1>8. StandInv /\ Done => reply.status # 0
  BY DEF StandInv, PartsInv, Asking, Done
<1>9. ServingSpec => [][ServingNext]_<<vars, partsVars>> /\ WF_partsVars(Parts!Handler)
  BY PTL DEF ServingSpec
<1> HIDE DEF ServingSpec
<1>10. QED
  BY <1>1, <1>2, <1>3, <1>4, <1>5, <1>6, <1>7, <1>8, <1>9, ServingInvariant, PTL
     DEF Parts!Answers, Comes
=============================================================================
