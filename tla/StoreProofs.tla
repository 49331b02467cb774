------------------------------ MODULE StoreProofs ------------------------------
(***************************************************************************)
(* Proofs about what the service asks ClickHouse for, for any columns,     *)
(* hosts, parts, days and settings: the requests that put their questions  *)
(* one after another (Endpoints), the events parts were created by         *)
(* (PartLog), and the settings of a response (SelectorSettings).           *)
(***************************************************************************)
EXTENDS MCStore, FiniteSetTheorems, SequenceTheorems, WellFoundedInduction, TLAPS

\* A set of numbers that is not empty has a least one.
LEMMA LeastNumber ==
  ASSUME NEW S \in SUBSET Nat, S # {}
  PROVE  \E m \in S : \A n \in S : m <= n
<1> DEFINE R == OpToRel(<, Nat)
<1>1. IsWellFoundedOn(R, Nat)
  BY NatLessThanWellFounded, Zenon
<1>2. \A m, n \in Nat : m < n => <<m, n>> \in R
  BY DEF OpToRel
<1> HIDE DEF R
<1>3. PICK m \in S : \A n \in S : ~(<<n, m>> \in R)
  BY <1>1, WFMin
<1>4. \A n \in S : ~(n < m)
  BY <1>2, <1>3
<1>5. QED
  BY <1>4

-----------------------------------------------------------------------------
(***************************************************************************)
(* Endpoints.                                                              *)
(***************************************************************************)
\* Which questions a request gets to; and what its reply says, from then on.
RequestInv ==
  /\ request \in Request!Requests /\ replicas \subseteq Hosts
  /\ step # "done" => ~failed /\ [table |-> table, replicas |-> replicas] \in past
  /\ step = "ping" => request.path = "healthz"
  /\ step = "tables" => request.path = "tables"
  /\ step \in {"table", "columns", "indices"} => request.path = "table"
  /\ step = "hosts" => cluster
  /\ Request!OneHost /\ Request!StatusTells

LEMMA InitRequest == Request!Init => RequestInv
BY DEF Request!Init, RequestInv, Request!OneHost, Request!StatusTells, Request!Found

LEMMA EndedRequest == RequestEnded => RequestInv
BY DEF RequestEnded, RequestInv, Request!OneHost, Request!StatusTells, Request!Found,
       Request!Requests

LEMMA ChangeRequest == ASSUME RequestInv, Request!Change PROVE RequestInv'
<1>1. /\ step # "done" /\ UNCHANGED <<request, cluster, step, failed, reply>>
      /\ past' = past \cup {[table |-> table', replicas |-> replicas']}
  BY DEF Request!Change, Request!asked
<1>2. replicas' \subseteq Hosts
  BY DEF Request!Change, RequestInv
<1>3. QED
  BY <1>1, <1>2 DEF RequestInv, Request!OneHost, Request!StatusTells, Request!Found

\* A question is followed by another.
LEMMA GotoRequest ==
  ASSUME RequestInv, step # "done", UNCHANGED <<replicas, table, past, request, cluster, failed>>,
         step' \in {"ping", "tables", "table", "columns", "indices", "hosts"},
         step' = "ping" => request.path = "healthz", step' = "tables" => request.path = "tables",
         step' \in {"table", "columns", "indices"} => request.path = "table",
         step' = "hosts" => cluster
  PROVE  RequestInv'
BY DEF RequestInv, Request!OneHost, Request!StatusTells, Request!Found

\* The request ends.
LEMMA ReplyRequest ==
  ASSUME RequestInv, step # "done", UNCHANGED <<replicas, table, past, request, cluster>>,
         NEW status, NEW host2, NEW cols, Request!Reply(status, host2, cols),
         status = 502 <=> failed',
         status = 400 => \/ ~request.named
                         \/ \E w \in past : w.table = Request!NoTable
                                          \/ (cluster /\ request.host \notin w.replicas),
         status = 200 /\ request.path = "table" =>
           IF cluster THEN host2 \in replicas /\ request.host \in {Request!NoHost, host2}
                      ELSE host2 = Request!NoHost
  PROVE  RequestInv'
<1>1. step' = "done" /\ reply'.status = status /\ reply'.host = host2
  BY DEF Request!Reply
<1>2. [table |-> table, replicas |-> replicas] \in past
  BY DEF RequestInv
<1>3. Request!OneHost'
  BY <1>1, <1>2 DEF Request!OneHost, Request!Found
<1>4. Request!StatusTells'
  BY <1>1 DEF Request!StatusTells
<1>5. QED
  BY <1>1, <1>3, <1>4 DEF RequestInv

LEMMA StepRequest == ASSUME RequestInv, Request!Handler PROVE RequestInv'
<1> USE DEF Request!Goto, Request!world, Request!asked
<1>1. CASE Request!Start
  <2>1. step = "start" /\ UNCHANGED <<replicas, table, past, request, cluster, failed>> /\ ~failed
    BY <1>1 DEF Request!Start, RequestInv
  <2>2. \/ ~request.named /\ Request!Reply(400, Request!NoHost, <<>>)
        \/ request.path = "config" /\ Request!Reply(200, Request!NoHost, <<>>)
        \/ ~(request.path = "config" /\ ~cluster) /\ step' = Request!FirstQuestion /\ UNCHANGED reply
    BY <1>1, Zenon DEF Request!Start
  <2>3. CASE ~request.named /\ Request!Reply(400, Request!NoHost, <<>>)
    BY <2>1, <2>3, ReplyRequest
  <2>4. CASE request.path = "config" /\ Request!Reply(200, Request!NoHost, <<>>)
    BY <2>1, <2>4, ReplyRequest
  <2>5. CASE ~(request.path = "config" /\ ~cluster) /\ step' = Request!FirstQuestion /\ UNCHANGED reply
    <3>1. request.path \in {"healthz", "config", "tables", "table"}
      BY DEF RequestInv, Request!Requests
    <3>2. step' = CASE request.path = "healthz" -> "ping" [] request.path = "config" -> "hosts"
                    [] OTHER -> request.path
      BY <2>5 DEF Request!FirstQuestion
    <3>3. QED
      BY <2>1, <2>5, <3>1, <3>2, GotoRequest
  <2>6. QED
    BY <2>2, <2>3, <2>4, <2>5
<1>2. CASE Request!Fail
  BY <1>2, ReplyRequest DEF Request!Fail, Request!StatusOfFailure
<1>3. CASE Request!Answered
  BY <1>3, ReplyRequest DEF Request!Answered, RequestInv
<1>4. CASE Request!ReadTable
  <2>1. step = "table" /\ UNCHANGED <<replicas, table, past, request, cluster, failed>> /\ ~failed
    BY <1>4 DEF Request!ReadTable, RequestInv
  <2>2. CASE table = Request!NoTable
    <3>1. Request!Reply(400, Request!NoHost, <<>>)
      BY <1>4, <2>2 DEF Request!ReadTable
    <3>2. [table |-> table, replicas |-> replicas] \in past
      BY <2>1 DEF RequestInv
    <3>3. \E w \in past : w.table = Request!NoTable
      BY <2>2, <3>2
    <3>4. QED
      BY <2>1, <3>1, <3>3, ReplyRequest
  <2>3. CASE table # Request!NoTable
    <3>1. step' = "columns" /\ UNCHANGED reply
      BY <1>4, <2>3 DEF Request!ReadTable
    <3>2. QED
      BY <2>1, <3>1, GotoRequest DEF RequestInv
  <2>4. QED
    BY <2>2, <2>3
<1>5. CASE Request!ReadColumns
  BY <1>5, GotoRequest DEF Request!ReadColumns, RequestInv
<1>6. CASE Request!ReadIndices
  <2>1. step = "indices" /\ UNCHANGED <<replicas, table, past, request, cluster, failed>> /\ ~failed
    BY <1>6 DEF Request!ReadIndices, RequestInv
  <2>2. CASE cluster
    <3>1. step' = "hosts" /\ UNCHANGED reply
      BY <1>6, <2>2 DEF Request!ReadIndices
    <3>2. QED
      BY <2>1, <2>2, <3>1, GotoRequest
  <2>3. CASE ~cluster
    <3>1. PICK cols : Request!Reply(200, Request!NoHost, cols)
      BY <1>6, <2>3 DEF Request!ReadIndices
    <3>2. QED
      BY <2>1, <2>3, <3>1, ReplyRequest
  <2>4. QED
    BY <2>2, <2>3
<1>7. CASE Request!ReadHosts
  <2>1. /\ step = "hosts" /\ UNCHANGED <<replicas, table, past, request, cluster, failed>>
        /\ ~failed /\ cluster /\ [table |-> table, replicas |-> replicas] \in past
    BY <1>7 DEF Request!ReadHosts, RequestInv
  <2>2. \/ request.path = "config" /\ Request!Reply(200, Request!NoHost, <<>>)
        \/ Request!Accept /\ Request!Reply(200, Request!Chosen, columns)
        \/ ~Request!Accept /\ Request!Reply(400, Request!NoHost, <<>>)
    BY <1>7, Zenon DEF Request!ReadHosts
  <2>3. Request!Chosen = request.host \/ (request.host = Request!NoHost /\ Request!Chosen \in replicas)
    <3>1. CASE request.host = Request!NoHost /\ replicas # {}
      <4>1. replicas \in SUBSET Nat
        BY RequestAssumption DEF RequestInv
      <4>2. \E h \in replicas : \A g \in replicas : h <= g
        BY <3>1, <4>1, LeastNumber
      <4>3. QED
        BY <3>1, <4>2 DEF Request!Chosen
    <3>2. CASE ~(request.host = Request!NoHost /\ replicas # {})
      BY <3>2 DEF Request!Chosen
    <3>3. QED
      BY <3>1, <3>2
  <2>4. CASE request.path = "config" /\ Request!Reply(200, Request!NoHost, <<>>)
    BY <2>1, <2>4, ReplyRequest
  <2>5. CASE Request!Accept /\ Request!Reply(200, Request!Chosen, columns)
    BY <2>1, <2>3, <2>5, ReplyRequest DEF Request!Accept
  <2>6. CASE ~Request!Accept /\ Request!Reply(400, Request!NoHost, <<>>)
    <3>1. request.host \notin replicas
      BY <2>3, <2>6 DEF Request!Accept
    <3>2. \E w \in past : cluster /\ request.host \notin w.replicas
      BY <2>1, <3>1
    <3>3. QED
      BY <2>1, <2>6, <3>2, ReplyRequest
  <2>7. QED
    BY <2>2, <2>4, <2>5, <2>6
<1>8. QED
  BY <1>1, <1>2, <1>3, <1>4, <1>5, <1>6, <1>7 DEF Request!Handler

\* A host that is named is a replica, the one asked for if one was; a bad gateway means
\* that ClickHouse was not reached, and a bad request that something asked for was not
\* there at some moment of the request.
THEOREM ReplyTold == StoreSpec => []ReplyTells
<1>1. StoreInit => RequestInv
  BY InitRequest, EndedRequest DEF StoreInit
<1>2. RequestInv /\ [StoreNext]_<<vars, requestVars, logVars>> => RequestInv'
  <2> SUFFICES ASSUME RequestInv, [StoreNext]_<<vars, requestVars, logVars>> PROVE RequestInv'
    OBVIOUS
  <2>1. CASE Request!Next
    BY <2>1, ChangeRequest, StepRequest DEF Request!Next
  <2>2. CASE UNCHANGED requestVars
    BY <2>2 DEF requestVars, RequestInv, Request!OneHost, Request!StatusTells, Request!Found
  <2>3. QED
    BY <2>1, <2>2 DEF StoreNext
<1>3. RequestInv => ReplyTells
  BY DEF RequestInv, ReplyTells
<1>4. QED
  BY <1>1, <1>2, <1>3, PTL DEF StoreSpec

\* The two loops over names, as one; what they do is a fold, which is a recursive function
\* on the sets of positions.
Step(loop, list, name) ==
  IF loop = "indices" THEN Request!AddIndexed(list, name) ELSE Request!AddKey(list, name)

IsFold(f, loop, base, names, D) ==
  f = [T \in SUBSET D |->
         IF T = {} THEN base
         ELSE Step(loop, f[T \ {Max(T)}], names[Max(T)])]

Stepwise(f, loop, base, names, n) ==
  /\ f[{}] = base
  /\ \A m \in 1 .. n : f[1 .. m] = Step(loop, f[1 .. (m - 1)], names[m])

\* The greatest of some positions.
LEMMA MaxOfPositions ==
  ASSUME NEW n \in Nat, NEW T \in SUBSET (1 .. n), T # {}
  PROVE  Max(T) \in T /\ \A i \in T : Max(T) >= i
<1> DEFINE Bounds == {m \in Nat : \A i \in T : i <= m}
<1>1. n \in Bounds
  OBVIOUS
<1>2. PICK m \in Bounds : \A k \in Bounds : m <= k
  BY <1>1, LeastNumber
<1>3. m \in T
  <2> SUFFICES ASSUME m \notin T PROVE FALSE
    OBVIOUS
  <2>1. PICK i \in T : TRUE
    OBVIOUS
  <2>2. m - 1 \in Nat /\ \A j \in T : j <= m - 1
    BY <2>1
  <2>3. m - 1 \in Bounds
    BY <2>2
  <2>4. QED
    BY <1>2, <2>3
<1>4. \E x \in T : \A y \in T : x >= y
  BY <1>3
<1>5. QED
  BY <1>4 DEF Max

LEMMA FoldExists ==
  ASSUME NEW loop, NEW base, NEW names, NEW n \in Nat
  PROVE  \E f : IsFold(f, loop, base, names, 1 .. n)
<1> DEFINE Lacks == {m \in Nat : ~\E f : IsFold(f, loop, base, names, 1 .. m)}
<1> SUFFICES ASSUME Lacks # {} PROVE FALSE
  OBVIOUS
<1>1. PICK m \in Lacks : \A k \in Lacks : m <= k
  BY LeastNumber
<1>2. m # 0
  <2>1. IsFold([T \in SUBSET (1 .. 0) |-> base], loop, base, names, 1 .. 0)
    BY DEF IsFold
  <2>2. QED
    BY <1>1, <2>1
<1>3. PICK g : IsFold(g, loop, base, names, 1 .. (m - 1))
  <2>1. m - 1 \in Nat /\ ~(m <= m - 1)
    BY <1>2
  <2>2. QED
    BY <1>1, <2>1
<1> DEFINE f == [T \in SUBSET (1 .. m) |-> IF m \in T THEN Step(loop, g[T \ {m}], names[m]) ELSE g[T]]
<1>4. ASSUME NEW T \in SUBSET (1 .. m)
      PROVE  f[T] = IF T = {} THEN base ELSE Step(loop, f[T \ {Max(T)}], names[Max(T)])
  <2>1. CASE T = {}
    BY <2>1, <1>3 DEF IsFold
  <2>2. CASE m \in T
    <3>1. Max(T) = m
      <4>1. m \in Nat /\ T # {}
        BY <2>2
      <4>2. Max(T) \in 1 .. m /\ Max(T) >= m
        BY <2>2, <4>1, MaxOfPositions
      <4>3. QED
        BY <4>1, <4>2
    <3>2. T \ {m} \in SUBSET (1 .. m) /\ m \notin T \ {m}
      OBVIOUS
    <3>3. f[T \ {m}] = g[T \ {m}]
      BY <3>2
    <3>4. f[T] = Step(loop, g[T \ {m}], names[m])
      BY <2>2
    <3>5. QED
      BY <2>2, <3>1, <3>3, <3>4
  <2>3. CASE T # {} /\ m \notin T
    <3>1. T \in SUBSET (1 .. (m - 1))
      BY <2>3
    <3>2. Max(T) \in T /\ T \ {Max(T)} \in SUBSET (1 .. m) /\ m \notin T \ {Max(T)}
      BY <2>3, MaxOfPositions
    <3>3. f[T \ {Max(T)}] = g[T \ {Max(T)}] /\ f[T] = g[T]
      BY <2>3, <3>2
    <3>4. g[T] = Step(loop, g[T \ {Max(T)}], names[Max(T)])
      BY <1>3, <2>3, <3>1 DEF IsFold
    <3>5. QED
      BY <2>3, <3>3, <3>4
  <2>4. QED
    BY <2>1, <2>2, <2>3
<1>5. f = [T \in SUBSET (1 .. m) |-> f[T]]
  OBVIOUS
<1> HIDE DEF f
<1>6. IsFold(f, loop, base, names, 1 .. m)
  BY <1>4, <1>5 DEF IsFold
<1>7. QED
  BY <1>1, <1>6

\* The list after each of the names.
LEMMA FoldSteps ==
  ASSUME NEW loop, NEW base, NEW names, NEW n \in Nat,
         NEW f, IsFold(f, loop, base, names, 1 .. n)
  PROVE  Stepwise(f, loop, base, names, n)
<1>1. f[{}] = base
  BY DEF IsFold
<1>2. ASSUME NEW m \in 1 .. n PROVE f[1 .. m] = Step(loop, f[1 .. (m - 1)], names[m])
  <2>1. /\ 1 .. m \in SUBSET (1 .. n) /\ 1 .. m \in SUBSET (1 .. m)
        /\ 1 .. m # {} /\ m \in 1 .. m /\ m \in Nat
    OBVIOUS
  <2>2. Max(1 .. m) = m
    <3>1. Max(1 .. m) \in 1 .. m /\ Max(1 .. m) >= m
      BY <2>1, MaxOfPositions
    <3>2. QED
      BY <3>1
  <2>3. (1 .. m) \ {m} = 1 .. (m - 1)
    OBVIOUS
  <2>4. QED
    BY <2>1, <2>2, <2>3 DEF IsFold
<1>3. QED
  BY <1>1, <1>2 DEF Stepwise

\* The loop over the columns, and the one over the indices.
Keys(names)          == Request!FoldLeft(Request!AddKey, <<>>, names)
Indexed(base, names) == Request!FoldLeft(Request!AddIndexed, base, names)

LEMMA FoldKeys ==
  ASSUME NEW names, NEW n \in Nat, DOMAIN names = 1 .. n
  PROVE  \E f : Stepwise(f, "columns", <<>>, names, n) /\ Keys(names) = f[1 .. n]
<1> DEFINE IsList(f) == f = [T \in SUBSET (1 .. n) |->
                  IF T = {} THEN <<>> ELSE Request!AddKey(f[T \ {Max(T)}], names[Max(T)])]
<1>1. Keys(names) = (CHOOSE f : IsList(f))[1 .. n]
  BY DEF Keys, Request!FoldLeft, Request!MapThenFoldSet, Request!Max, Max
<1>2. \A f : IsList(f) <=> IsFold(f, "columns", <<>>, names, 1 .. n)
  BY DEF IsFold, Step
<1>3. \E f : IsList(f)
  BY <1>2, FoldExists
<1> HIDE DEF IsList
<1>4. PICK f : f = CHOOSE g : IsList(g)
  OBVIOUS
<1>5. IsFold(f, "columns", <<>>, names, 1 .. n)
  BY <1>2, <1>3, <1>4
<1>6. Stepwise(f, "columns", <<>>, names, n)
  BY <1>5, FoldSteps
<1>7. QED
  BY <1>1, <1>4, <1>6

LEMMA FoldIndices ==
  ASSUME NEW base, NEW names, NEW n \in Nat, DOMAIN names = 1 .. n
  PROVE  \E f : Stepwise(f, "indices", base, names, n) /\ Indexed(base, names) = f[1 .. n]
<1> DEFINE IsList(f) == f = [T \in SUBSET (1 .. n) |->
                  IF T = {} THEN base ELSE Request!AddIndexed(f[T \ {Max(T)}], names[Max(T)])]
<1>1. Indexed(base, names) = (CHOOSE f : IsList(f))[1 .. n]
  BY DEF Indexed, Request!FoldLeft, Request!MapThenFoldSet, Request!Max, Max
<1>2. \A f : IsList(f) <=> IsFold(f, "indices", base, names, 1 .. n)
  BY DEF IsFold, Step
<1>3. \E f : IsList(f)
  BY <1>2, FoldExists
<1> HIDE DEF IsList
<1>4. PICK f : f = CHOOSE g : IsList(g)
  OBVIOUS
<1>5. IsFold(f, "indices", base, names, 1 .. n)
  BY <1>2, <1>3, <1>4
<1>6. Stepwise(f, "indices", base, names, n)
  BY <1>5, FoldSteps
<1>7. QED
  BY <1>1, <1>4, <1>6

\* What is in the list after m of the columns, and after m of the indices.
Selected(list, names, m) ==
  /\ list \in Seq(Columns)
  /\ \A i \in 1 .. Len(list) : list[i] \in table.key
  /\ \A i \in 1 .. Len(list) : \E k \in 1 .. m : names[k] = list[i]
  /\ \A i, j \in 1 .. Len(list) :
       i < j => \E k, l \in 1 .. m : k < l /\ names[k] = list[i] /\ names[l] = list[j]
  /\ \A k \in 1 .. m : names[k] \in table.key => \E i \in 1 .. Len(list) : list[i] = names[k]

Extended(list, base, names, m) ==
  /\ list \in Seq(known)
  /\ Len(base) <= Len(list) /\ \A i \in 1 .. Len(base) : list[i] = base[i]
  /\ \A i, j \in 1 .. Len(list) : i < j /\ j > Len(base) => list[i] # list[j]
  /\ \A i \in Len(base) + 1 .. Len(list) : \E k \in 1 .. m : names[k] = list[i]
  /\ \A k \in 1 .. m : names[k] \in known => \E i \in 1 .. Len(list) : list[i] = names[k]

LEMMA SelectedNext ==
  ASSUME NEW list, NEW names, NEW m \in Nat, names[m + 1] \in Columns, Selected(list, names, m)
  PROVE  Selected(Request!AddKey(list, names[m + 1]), names, m + 1)
<1>1. list \in Seq(Columns) /\ Len(list) \in Nat
  BY DEF Selected
<1>2. CASE names[m + 1] \in table.key
  <2> DEFINE more == Append(list, names[m + 1])
  <2>1. /\ more \in Seq(Columns) /\ Len(more) = Len(list) + 1
        /\ \A i \in 1 .. Len(list) : more[i] = list[i]
        /\ more[Len(list) + 1] = names[m + 1]
    BY <1>1
  <2>2. Request!AddKey(list, names[m + 1]) = more
    BY <1>2 DEF Request!AddKey
  <2> HIDE DEF more
  <2>3. \A i \in 1 .. Len(more) : i \in 1 .. Len(list) \/ i = Len(list) + 1
    BY <1>1, <2>1
  <2>4. \A k \in 1 .. m + 1 : k \in 1 .. m \/ k = m + 1
    OBVIOUS
  <2>5. \A i \in 1 .. Len(more) : more[i] \in table.key
    BY <1>2, <2>1, <2>3 DEF Selected
  <2>6. ASSUME NEW i \in 1 .. Len(more)
        PROVE  \E k \in 1 .. m + 1 : names[k] = more[i]
    <3>1. CASE i \in 1 .. Len(list)
      <4>1. PICK k \in 1 .. m : names[k] = list[i]
        BY <3>1 DEF Selected
      <4>2. QED
        BY <2>1, <3>1, <4>1
    <3>2. CASE i = Len(list) + 1
      BY <2>1, <3>2
    <3>3. QED
      BY <2>3, <3>1, <3>2
  <2>7. ASSUME NEW i \in 1 .. Len(more), NEW j \in 1 .. Len(more), i < j
        PROVE  \E k, l \in 1 .. m + 1 : k < l /\ names[k] = more[i] /\ names[l] = more[j]
    <3>1. i \in 1 .. Len(list)
      BY <1>1, <2>1, <2>7
    <3>2. CASE j \in 1 .. Len(list)
      <4>1. PICK k, l \in 1 .. m : k < l /\ names[k] = list[i] /\ names[l] = list[j]
        BY <2>7, <3>1, <3>2 DEF Selected
      <4>2. QED
        BY <2>1, <3>1, <3>2, <4>1
    <3>3. CASE j = Len(list) + 1
      <4>1. PICK k \in 1 .. m : names[k] = list[i]
        BY <3>1 DEF Selected
      <4>2. k < m + 1 /\ k \in 1 .. m + 1 /\ m + 1 \in 1 .. m + 1
        OBVIOUS
      <4>3. QED
        BY <2>1, <3>1, <3>3, <4>1, <4>2
    <3>4. QED
      BY <2>3, <3>2, <3>3
  <2>8. ASSUME NEW k \in 1 .. m + 1, names[k] \in table.key
        PROVE  \E i \in 1 .. Len(more) : more[i] = names[k]
    <3>1. CASE k \in 1 .. m
      <4>1. PICK i \in 1 .. Len(list) : list[i] = names[k]
        BY <2>8, <3>1 DEF Selected
      <4>2. i \in 1 .. Len(more)
        BY <1>1, <2>1
      <4>3. QED
        BY <2>1, <4>1, <4>2
    <3>2. CASE k = m + 1
      <4>1. Len(list) + 1 \in 1 .. Len(more)
        BY <1>1, <2>1
      <4>2. QED
        BY <2>1, <3>2, <4>1
    <3>3. QED
      BY <2>4, <3>1, <3>2
  <2>9. Selected(more, names, m + 1)
    BY <2>1, <2>5, <2>6, <2>7, <2>8 DEF Selected
  <2>10. QED
    BY <2>2, <2>9
<1>3. CASE names[m + 1] \notin table.key
  <2>1. Request!AddKey(list, names[m + 1]) = list
    BY <1>3 DEF Request!AddKey
  <2>2. 1 .. m \subseteq 1 .. m + 1
    OBVIOUS
  <2>3. \A k \in 1 .. m + 1 : k \in 1 .. m \/ k = m + 1
    OBVIOUS
  <2>4. QED
    BY <1>3, <2>1, <2>2, <2>3 DEF Selected
<1>4. QED
  BY <1>2, <1>3

LEMMA ExtendedNext ==
  ASSUME NEW list, NEW base, NEW names, NEW m \in Nat, base \in Seq(known),
         Extended(list, base, names, m)
  PROVE  Extended(Request!AddIndexed(list, names[m + 1]), base, names, m + 1)
<1>1. list \in Seq(known) /\ Len(list) \in Nat /\ Len(base) \in Nat /\ Len(base) <= Len(list)
  BY DEF Extended
<1>2. Request!Contains(list, names[m + 1]) <=> \E i \in 1 .. Len(list) : list[i] = names[m + 1]
  BY DEF Request!Contains
<1>3. \A k \in 1 .. m + 1 : k \in 1 .. m \/ k = m + 1
  OBVIOUS
<1>4. CASE names[m + 1] \in known /\ ~Request!Contains(list, names[m + 1])
  <2> DEFINE more == Append(list, names[m + 1])
  <2>1. /\ more \in Seq(known) /\ Len(more) = Len(list) + 1
        /\ \A i \in 1 .. Len(list) : more[i] = list[i]
        /\ more[Len(list) + 1] = names[m + 1]
    BY <1>1, <1>4
  <2>2. Request!AddIndexed(list, names[m + 1]) = more
    BY <1>4 DEF Request!AddIndexed
  <2> HIDE DEF more
  <2>3. \A i \in 1 .. Len(more) : i \in 1 .. Len(list) \/ i = Len(list) + 1
    BY <1>1, <2>1
  <2>4. Len(base) <= Len(more) /\ \A i \in 1 .. Len(base) : more[i] = base[i]
    BY <1>1, <2>1 DEF Extended
  <2>5. ASSUME NEW i \in 1 .. Len(more), NEW j \in 1 .. Len(more), i < j, j > Len(base)
        PROVE  more[i] # more[j]
    <3>1. i \in 1 .. Len(list)
      BY <1>1, <2>1, <2>5
    <3>2. CASE j \in 1 .. Len(list)
      BY <2>1, <2>5, <3>1, <3>2 DEF Extended
    <3>3. CASE j = Len(list) + 1
      BY <1>2, <1>4, <2>1, <3>1, <3>3
    <3>4. QED
      BY <2>3, <3>2, <3>3
  <2>6. ASSUME NEW i \in Len(base) + 1 .. Len(more)
        PROVE  \E k \in 1 .. m + 1 : names[k] = more[i]
    <3>1. CASE i \in 1 .. Len(list)
      <4>1. i \in Len(base) + 1 .. Len(list)
        BY <1>1, <3>1
      <4>2. PICK k \in 1 .. m : names[k] = list[i]
        BY <4>1 DEF Extended
      <4>3. QED
        BY <2>1, <3>1, <4>2
    <3>2. CASE i = Len(list) + 1
      BY <2>1, <3>2
    <3>3. QED
      BY <1>1, <2>1, <3>1, <3>2
  <2>7. ASSUME NEW k \in 1 .. m + 1, names[k] \in known
        PROVE  \E i \in 1 .. Len(more) : more[i] = names[k]
    <3>1. CASE k \in 1 .. m
      <4>1. PICK i \in 1 .. Len(list) : list[i] = names[k]
        BY <2>7, <3>1 DEF Extended
      <4>2. i \in 1 .. Len(more)
        BY <1>1, <2>1
      <4>3. QED
        BY <2>1, <4>1, <4>2
    <3>2. CASE k = m + 1
      <4>1. Len(list) + 1 \in 1 .. Len(more)
        BY <1>1, <2>1
      <4>2. QED
        BY <2>1, <3>2, <4>1
    <3>3. QED
      BY <1>3, <3>1, <3>2
  <2>8. QED
    BY <2>1, <2>2, <2>4, <2>5, <2>6, <2>7 DEF Extended
<1>5. CASE ~(names[m + 1] \in known /\ ~Request!Contains(list, names[m + 1]))
  <2>1. Request!AddIndexed(list, names[m + 1]) = list
    BY <1>5 DEF Request!AddIndexed
  <2>2. \A i \in Len(base) + 1 .. Len(list) : \E k \in 1 .. m + 1 : names[k] = list[i]
    <3>1. 1 .. m \subseteq 1 .. m + 1
      OBVIOUS
    <3>2. QED
      BY <3>1 DEF Extended
  <2>3. \A k \in 1 .. m + 1 : names[k] \in known => \E i \in 1 .. Len(list) : list[i] = names[k]
    BY <1>2, <1>3, <1>5 DEF Extended
  <2>4. QED
    BY <2>1, <2>2, <2>3 DEF Extended
<1>6. QED
  BY <1>4, <1>5

\* What the loops end with.
LEMMA KeysSelected ==
  ASSUME NEW names \in Seq(Columns)
  PROVE  Selected(Keys(names), names, Len(names))
<1> DEFINE n == Len(names)
<1>1. n \in Nat /\ DOMAIN names = 1 .. n
  OBVIOUS
<1>2. PICK f : Stepwise(f, "columns", <<>>, names, n) /\ Keys(names) = f[1 .. n]
  BY <1>1, FoldKeys
<1> DEFINE Missed == {m \in 0 .. n : ~Selected(f[1 .. m], names, m)}
<1>3. Missed = {}
  <2> SUFFICES ASSUME Missed # {} PROVE FALSE
    OBVIOUS
  <2>1. Missed \in SUBSET Nat
    BY <1>1
  <2>2. PICK m \in Missed : \A k \in Missed : m <= k
    BY <2>1, LeastNumber
  <2>3. Selected(f[1 .. 0], names, 0)
    <3>1. 1 .. 0 = {}
      OBVIOUS
    <3>2. Selected(<<>>, names, 0)
      BY DEF Selected
    <3>3. QED
      BY <1>2, <3>1, <3>2 DEF Stepwise
  <2>4. m \in 1 .. n /\ m - 1 \in 0 .. n /\ ~(m <= m - 1)
    BY <1>1, <2>2, <2>3
  <2>5. Selected(f[1 .. (m - 1)], names, m - 1)
    BY <2>2, <2>4
  <2>6. m - 1 \in Nat /\ (m - 1) + 1 = m /\ names[m] \in Columns
    BY <1>1, <2>4
  <2>7. Selected(Request!AddKey(f[1 .. (m - 1)], names[m]), names, m)
    BY <2>5, <2>6, SelectedNext
  <2>8. f[1 .. m] = Request!AddKey(f[1 .. (m - 1)], names[m])
    BY <1>2, <2>4 DEF Stepwise, Step
  <2>9. QED
    BY <2>2, <2>7, <2>8
<1>4. QED
  BY <1>1, <1>2, <1>3

LEMMA IndicesExtend ==
  ASSUME NEW base \in Seq(known), NEW T, NEW names \in Seq(T)
  PROVE  Extended(Indexed(base, names), base, names, Len(names))
<1> DEFINE n == Len(names)
<1>1. n \in Nat /\ DOMAIN names = 1 .. n
  OBVIOUS
<1>2. PICK f : Stepwise(f, "indices", base, names, n) /\ Indexed(base, names) = f[1 .. n]
  BY <1>1, FoldIndices
<1> DEFINE Missed == {m \in 0 .. n : ~Extended(f[1 .. m], base, names, m)}
<1>3. Missed = {}
  <2> SUFFICES ASSUME Missed # {} PROVE FALSE
    OBVIOUS
  <2>1. Missed \in SUBSET Nat
    BY <1>1
  <2>2. PICK m \in Missed : \A k \in Missed : m <= k
    BY <2>1, LeastNumber
  <2>3. Extended(f[1 .. 0], base, names, 0)
    <3>1. 1 .. 0 = {} /\ Len(base) \in Nat /\ Len(base) + 1 .. Len(base) = {}
      OBVIOUS
    <3>2. QED
      BY <1>2, <3>1 DEF Stepwise, Extended
  <2>4. m \in 1 .. n /\ m - 1 \in 0 .. n /\ ~(m <= m - 1)
    BY <1>1, <2>2, <2>3
  <2>5. Extended(f[1 .. (m - 1)], base, names, m - 1)
    BY <2>2, <2>4
  <2>6. m - 1 \in Nat /\ (m - 1) + 1 = m
    BY <1>1, <2>4
  <2>7. Extended(Request!AddIndexed(f[1 .. (m - 1)], names[m]), base, names, m)
    BY <2>5, <2>6, ExtendedNext
  <2>8. f[1 .. m] = Request!AddIndexed(f[1 .. (m - 1)], names[m])
    BY <1>2, <2>4 DEF Stepwise, Step
  <2>9. QED
    BY <2>2, <2>7, <2>8
<1>4. QED
  BY <1>1, <1>2, <1>3

\* A table has each of its columns once, and its indices are of them or of an expression.
LEMMA TableShape ==
  ASSUME NEW t \in Request!Tables
  PROVE  /\ t.columns \in Seq(Columns) /\ Request!ToSet(t.columns) \subseteq Columns
         /\ \A i, j \in 1 .. Len(t.columns) : t.columns[i] = t.columns[j] => i = j
         /\ t.key \subseteq Request!ToSet(t.columns) /\ IsFiniteSet(t.key)
         /\ t.indices \in Seq(Request!ToSet(t.columns) \cup {Expression})
<1>1. PICK cols \in SUBSET Columns :
        t \in {[columns |-> order, key |-> key, indices |-> indices] :
                 key \in SUBSET cols, order \in Request!SetToSeqs(cols),
                 indices \in Request!BoundedSeq(cols \cup {Expression}, MaxIndices)}
  BY DEF Request!Tables
<1>2. PICK key \in SUBSET cols, order \in Request!SetToSeqs(cols),
           indices \in Request!BoundedSeq(cols \cup {Expression}, MaxIndices) :
        t = [columns |-> order, key |-> key, indices |-> indices]
  BY <1>1
<1>3. t.columns = order /\ t.key = key /\ t.indices = indices
  BY <1>2
<1>4. IsFiniteSet(cols) /\ Cardinality(cols) \in Nat /\ IsFiniteSet(key)
  BY RequestAssumption, FS_Subset, FS_CardinalityType
<1> DEFINE c == Cardinality(cols)
<1>5. Request!Cardinality(cols) = c
  BY DEF Request!Cardinality, Cardinality
<1>6. /\ order \in [1 .. c -> cols]
      /\ \A i, j \in 1 .. c : i # j => order[i] # order[j]
  BY <1>5 DEF Request!SetToSeqs
<1> HIDE DEF c
<1>7. order \in Seq(cols) /\ Len(order) = c /\ c \in Nat /\ DOMAIN order = 1 .. c
  BY <1>4, <1>6 DEF c
<1>8. order \in Surjection(1 .. c, cols)
  <2>1. order \in Injection(1 .. c, cols)
    BY <1>6 DEF Injection, IsInjective
  <2>2. Cardinality(1 .. c) = c
    BY <1>7, FS_Interval
  <2>3. QED
    BY <1>4, <2>1, <2>2, FS_Injection DEF c
<1>9. Request!ToSet(order) = cols
  BY <1>7, <1>8 DEF Surjection, Request!ToSet
<1>10. indices \in Seq(cols \cup {Expression})
  <2>1. PICK m \in 0 .. MaxIndices : indices \in [1 .. m -> cols \cup {Expression}]
    BY DEF Request!BoundedSeq, Request!SeqOf
  <2>2. m \in Nat
    BY <2>1, RequestAssumption
  <2>3. QED
    BY <2>1, <2>2
<1>11. order \in Seq(Columns)
  BY <1>7
<1>12. QED
  BY <1>3, <1>4, <1>6, <1>7, <1>9, <1>10, <1>11

\* The list after the columns: those of the key, in the table's order.
KeyList(t, list) ==
  /\ list \in Seq(Columns) /\ Len(list) = Cardinality(t.key)
  /\ Request!ToSet(list) = t.key
  /\ \A i, j \in 1 .. Len(list) :
       i < j => \E k, l \in 1 .. Len(t.columns) :
                  k < l /\ t.columns[k] = list[i] /\ t.columns[l] = list[j]

LEMMA KeysAreKeyList == ASSUME table \in Request!Tables PROVE KeyList(table, Keys(table.columns))
<1> DEFINE list == Keys(table.columns)
           names == table.columns
<1>1. /\ names \in Seq(Columns)
      /\ \A i, j \in 1 .. Len(names) : names[i] = names[j] => i = j
      /\ table.key \subseteq Request!ToSet(names) /\ IsFiniteSet(table.key)
  BY TableShape
<1>2. Selected(list, names, Len(names))
  BY <1>1, KeysSelected
<1> HIDE DEF list
<1>3. list \in Seq(Columns) /\ Len(list) \in Nat /\ DOMAIN list = 1 .. Len(list)
  BY <1>2 DEF Selected
<1>4. \A i, j \in 1 .. Len(list) :
        i < j => \E k, l \in 1 .. Len(names) : k < l /\ names[k] = list[i] /\ names[l] = list[j]
  BY <1>2 DEF Selected
<1>5. Request!ToSet(list) = table.key
  <2>1. \A i \in 1 .. Len(list) : list[i] \in table.key
    BY <1>2 DEF Selected
  <2>2. ASSUME NEW x \in table.key PROVE \E i \in 1 .. Len(list) : list[i] = x
    <3>1. PICK k \in 1 .. Len(names) : names[k] = x
      BY <1>1 DEF Request!ToSet
    <3>2. QED
      BY <1>2, <3>1 DEF Selected
  <2>3. QED
    BY <1>3, <2>1, <2>2 DEF Request!ToSet
<1>6. list \in Bijection(1 .. Len(list), table.key)
  <2>1. list \in [1 .. Len(list) -> table.key]
    BY <1>3, <1>5 DEF Request!ToSet
  <2>2. ASSUME NEW i \in 1 .. Len(list), NEW j \in 1 .. Len(list), i < j PROVE list[i] # list[j]
    <3>1. PICK k, l \in 1 .. Len(names) : k < l /\ names[k] = list[i] /\ names[l] = list[j]
      BY <1>4, <2>2
    <3>2. QED
      BY <1>1, <3>1
  <2>3. \A i, j \in 1 .. Len(list) : list[i] = list[j] => i = j
    BY <1>3, <2>2
  <2>4. \A x \in table.key : \E i \in 1 .. Len(list) : list[i] = x
    BY <1>3, <1>5 DEF Request!ToSet
  <2>5. QED
    BY <2>1, <2>3, <2>4 DEF Bijection, Injection, IsInjective, Surjection
<1>7. Len(list) = Cardinality(table.key)
  BY <1>3, <1>6, FS_CountingElements DEF ExistsBijection
<1>8. KeyList(table, list)
  BY <1>3, <1>4, <1>5, <1>7 DEF KeyList
<1>9. QED
  BY <1>8 DEF list

\* A list that begins with the one of the key.
LEMMA BeginsWithKey ==
  ASSUME table \in Request!Tables, NEW base, KeyList(table, base),
         NEW list, list \in Seq(Columns), Len(base) <= Len(list),
         \A i \in 1 .. Len(base) : list[i] = base[i]
  PROVE  Request!KeyFirst(list)
<1> DEFINE n == Cardinality(table.key)
           Place(c) == CHOOSE i \in DOMAIN table.columns : table.columns[i] = c
<1>1. Request!Cardinality(table.key) = n
  BY DEF Request!Cardinality, Cardinality
<1>2. base \in Seq(Columns) /\ Len(base) = n /\ n \in Nat /\ Request!ToSet(base) = table.key
  BY DEF KeyList
<1> HIDE DEF n
<1>3. Request!ToSet(SubSeq(list, 1, n)) = table.key
  <2>1. Len(list) \in Nat
    OBVIOUS
  <2>2. /\ SubSeq(list, 1, n) \in Seq(Columns) /\ Len(SubSeq(list, 1, n)) = n
        /\ \A i \in 1 .. n : SubSeq(list, 1, n)[i] = base[i]
    BY <1>2, <2>1
  <2>3. DOMAIN SubSeq(list, 1, n) = 1 .. n /\ DOMAIN base = 1 .. n
    BY <1>2, <2>2
  <2>4. QED
    BY <1>2, <2>2, <2>3 DEF Request!ToSet
<1>4. ASSUME NEW i \in 1 .. n, NEW j \in 1 .. n, i < j PROVE Place(list[i]) < Place(list[j])
  <2>1. PICK k, l \in 1 .. Len(table.columns) :
          k < l /\ table.columns[k] = base[i] /\ table.columns[l] = base[j]
    BY <1>2, <1>4 DEF KeyList
  <2>2. list[i] = base[i] /\ list[j] = base[j]
    BY <1>2
  <2>3. /\ \A x, y \in 1 .. Len(table.columns) : table.columns[x] = table.columns[y] => x = y
        /\ DOMAIN table.columns = 1 .. Len(table.columns)
    <3>1. table.columns \in Seq(Columns)
      BY TableShape
    <3>2. \A x, y \in 1 .. Len(table.columns) : table.columns[x] = table.columns[y] => x = y
      BY TableShape
    <3>3. QED
      BY <3>1, <3>2
  <2>4. Place(list[i]) = k
    BY <2>1, <2>2, <2>3
  <2>5. Place(list[j]) = l
    BY <2>1, <2>2, <2>3
  <2>6. QED
    BY <2>1, <2>4, <2>5
<1>5. QED
  BY <1>1, <1>3, <1>4 DEF Request!KeyFirst

\* The answer if the indices could not be read, and if they could.
LEMMA KeyDescribes ==
  ASSUME table \in Request!Tables, NEW base, KeyList(table, base)
  PROVE  Request!Describes(base)
<1> DEFINE n == Cardinality(table.key)
<1>1. Request!Cardinality(table.key) = n /\ Request!Cardinality({}) = 0
  BY FS_EmptySet DEF Request!Cardinality, Cardinality
<1>2. base \in Seq(Columns) /\ Len(base) = n /\ n \in Nat
  BY DEF KeyList
<1>3. Request!KeyFirst(base)
  BY <1>2, BeginsWithKey
<1> HIDE DEF n
<1>4. SubSeq(base, n + 1, n) = <<>>
  BY <1>2
<1>5. Request!ToSet(SubSeq(base, n + 1, n)) = {}
  <2>1. DOMAIN <<>> = {}
    OBVIOUS
  <2>2. QED
    BY <1>4, <2>1 DEF Request!ToSet
<1>6. Request!ThenOnce(base, {})
  BY <1>1, <1>2, <1>5 DEF Request!ThenOnce
<1>7. QED
  BY <1>3, <1>6 DEF Request!Describes

LEMMA ExtendedDescribes ==
  ASSUME table \in Request!Tables, NEW base, KeyList(table, base), known = Request!ToSet(table.columns),
         NEW list, Extended(list, base, table.indices, Len(table.indices))
  PROVE  Request!Describes(list)
<1> DEFINE n == Cardinality(table.key)
           d == Len(list) - n
           others == SubSeq(list, n + 1, Len(list))
           indexed == (Request!ToSet(table.indices) \cap Columns) \ table.key
           names == table.indices
<1>1. base \in Seq(Columns) /\ Len(base) = n /\ n \in Nat /\ Request!ToSet(base) = table.key
  BY DEF KeyList
<1>2. list \in Seq(known) /\ Len(list) \in Nat /\ n <= Len(list) /\ \A i \in 1 .. n : list[i] = base[i]
  BY <1>1 DEF Extended
<1>3. /\ known \subseteq Columns /\ list \in Seq(Columns)
      /\ names \in Seq(known \cup {Expression}) /\ DOMAIN names = 1 .. Len(names)
  BY <1>2, TableShape
<1>4. Request!KeyFirst(list)
  BY <1>1, <1>2, <1>3, BeginsWithKey
<1>5. Request!Cardinality(table.key) = n /\ Request!Cardinality(indexed) = Cardinality(indexed)
  BY DEF Request!Cardinality, Cardinality
<1> HIDE DEF n
<1>6. d \in Nat /\ Len(list) = n + d
  BY <1>1, <1>2
<1> HIDE DEF d
<1>7. /\ others \in Seq(Columns) /\ Len(others) = d /\ DOMAIN others = 1 .. d
      /\ \A i \in 1 .. d : others[i] = list[n + i]
  BY <1>1, <1>2, <1>3, <1>6
<1> HIDE DEF others
<1>8. \A i, j \in 1 .. Len(list) : i < j /\ j > n => list[i] # list[j]
  BY <1>1 DEF Extended
<1>9. ASSUME NEW x \in table.key PROVE \E i \in 1 .. n : list[i] = x
  BY <1>1, <1>2 DEF Request!ToSet
<1>10. ASSUME NEW i \in 1 .. d PROVE others[i] \in indexed
  <2>1. n + i \in n + 1 .. Len(list) /\ n + i \in 1 .. Len(list)
    BY <1>1, <1>6
  <2>2. PICK k \in 1 .. Len(names) : names[k] = list[n + i]
    BY <1>1, <2>1 DEF Extended
  <2>3. list[n + i] \in Request!ToSet(names)
    BY <1>3, <2>2 DEF Request!ToSet
  <2>4. list[n + i] \in Columns
    BY <1>2, <1>3, <2>1
  <2>5. list[n + i] \notin table.key
    <3>1. \A j \in 1 .. n : j < n + i /\ n + i > n /\ j \in 1 .. Len(list)
      BY <1>1, <1>2
    <3>2. QED
      BY <1>8, <1>9, <2>1, <3>1
  <2>6. QED
    BY <1>7, <2>3, <2>4, <2>5
<1>11. ASSUME NEW x \in indexed PROVE \E i \in 1 .. d : others[i] = x
  <2>1. PICK k \in 1 .. Len(names) : names[k] = x
    BY <1>3 DEF Request!ToSet
  <2>2. x \in known
    BY <1>3, <2>1, RequestAssumption
  <2>3. PICK i \in 1 .. Len(list) : list[i] = x
    BY <2>1, <2>2 DEF Extended
  <2>4. i > n
    <3>1. SUFFICES ASSUME i \in 1 .. n PROVE FALSE
      BY <1>1
    <3>2. list[i] \in table.key
      BY <1>1, <1>2, <3>1 DEF Request!ToSet
    <3>3. QED
      BY <2>3, <3>2
  <2>5. i - n \in 1 .. d /\ n + (i - n) = i
    BY <1>1, <1>6, <2>4
  <2>6. others[i - n] = list[i]
    BY <1>7, <2>5
  <2>7. QED
    BY <2>3, <2>5, <2>6
<1> HIDE DEF indexed
<1>12. others \in Bijection(1 .. d, indexed)
  <2>1. others \in [1 .. d -> indexed]
    BY <1>7, <1>10
  <2>2. ASSUME NEW i \in 1 .. d, NEW j \in 1 .. d, i < j PROVE others[i] # others[j]
    <3>1. n + i \in 1 .. Len(list) /\ n + j \in 1 .. Len(list) /\ n + i < n + j /\ n + j > n
      BY <1>1, <1>6, <2>2
    <3>2. QED
      BY <1>7, <1>8, <3>1
  <2>3. \A i, j \in 1 .. d : others[i] = others[j] => i = j
    BY <2>2
  <2>4. QED
    BY <1>11, <2>1, <2>3 DEF Bijection, Injection, IsInjective, Surjection
<1>13. Cardinality(indexed) = d
  BY <1>6, <1>12, FS_CountingElements DEF ExistsBijection
<1>14. Request!ToSet(others) = indexed
  BY <1>7, <1>10, <1>11 DEF Request!ToSet
<1>15. Request!ThenOnce(list, indexed)
  BY <1>5, <1>6, <1>13, <1>14 DEF Request!ThenOnce, others
<1>16. QED
  BY <1>4, <1>15 DEF Request!Describes, indexed

\* What Describes says is of the table and the list alone.
DescribesAs(t, list) ==
  LET n == Request!Cardinality(t.key)
      Place(c) == CHOOSE i \in DOMAIN t.columns : t.columns[i] = c
  IN /\ Request!ToSet(SubSeq(list, 1, n)) = t.key
     /\ \A i, j \in 1 .. n : i < j => Place(list[i]) < Place(list[j])
     /\ \E names \in {{}, (Request!ToSet(t.indices) \cap Columns) \ t.key} :
          /\ Request!ToSet(SubSeq(list, n + 1, Len(list))) = names
          /\ Len(list) = n + Request!Cardinality(names)

LEMMA SameDescription ==
  /\ \A list : Request!Describes(list) <=> DescribesAs(table, list)
  /\ Request!Describes(columns)' <=> DescribesAs(table', columns')
  /\ Request!Describes(reply.columns)' <=> DescribesAs(table', reply'.columns)
<1>1. \A list : Request!Describes(list) <=> DescribesAs(table, list)
  BY DEF DescribesAs, Request!Describes, Request!KeyFirst, Request!ThenOnce
<1>2. Request!Describes(columns)' <=> DescribesAs(table', columns')
  BY DEF DescribesAs, Request!Describes, Request!KeyFirst, Request!ThenOnce
<1>3. Request!Describes(reply.columns)' <=> DescribesAs(table', reply'.columns)
  BY DEF DescribesAs, Request!Describes, Request!KeyFirst, Request!ThenOnce
<1>4. QED
  BY <1>1, <1>2, <1>3

\* What a request for a table has read: the columns of a moment, and, if the table stayed
\* as it was, first those of its key, and in the end the indexed ones too.
ListInv ==
  /\ table \in Request!Tables \cup {Request!NoTable}
  /\ step \in {"indices", "hosts"} /\ request.path = "table" =>
       columns \in Seq(known) /\ \E w \in past : known = Request!ToSet(w.table.columns)
  /\ (\A w \in past : w.table = table) =>
       /\ step \in {"columns", "indices"} => table # Request!NoTable
       /\ step = "indices" => KeyList(table, columns) /\ known = Request!ToSet(table.columns)
       /\ step = "hosts" /\ request.path = "table" => Request!Describes(columns)
  /\ Request!DescribesTable /\ Request!ColumnsOfOneMoment

LEMMA InitList == Request!Init => ListInv
BY DEF Request!Init, ListInv, Request!DescribesTable, Request!ColumnsOfOneMoment, Request!Found

LEMMA EndedList == RequestEnded => ListInv
BY DEF RequestEnded, ListInv, Request!DescribesTable, Request!ColumnsOfOneMoment, Request!Found

\* A table that changes is no longer what it was at every moment.
LEMMA ChangeList == ASSUME RequestInv, ListInv, Request!Change PROVE ListInv'
<1>1. /\ step # "done" /\ UNCHANGED <<request, step, known, columns, reply>>
      /\ past' = past \cup {[table |-> table', replicas |-> replicas']}
      /\ [table |-> table, replicas |-> replicas] \in past
  BY DEF Request!Change, Request!asked, RequestInv
<1>2. table' \in Request!Tables \cup {Request!NoTable}
  BY DEF Request!Change, ListInv
<1>3. (step \in {"indices", "hosts"} /\ request.path = "table" =>
         columns \in Seq(known) /\ \E w \in past : known = Request!ToSet(w.table.columns))'
  BY <1>1 DEF ListInv
<1>4. CASE table' = table
  <2>1. (\A w \in past' : w.table = table') => \A w \in past : w.table = table
    BY <1>1, <1>4
  <2>2. KeyList(table, columns) <=> KeyList(table, columns)'
    BY <1>1, <1>4 DEF KeyList
  <2>3. Request!Describes(columns) <=> Request!Describes(columns)'
    BY <1>1, <1>4, SameDescription
  <2>4. QED
    BY <1>1, <1>2, <1>3, <1>4, <2>1, <2>2, <2>3
       DEF ListInv, Request!DescribesTable, Request!ColumnsOfOneMoment, Request!Found
<1>5. CASE table' # table
  <2>1. ~(\A w \in past' : w.table = table')
    BY <1>1, <1>5
  <2>2. QED
    BY <1>1, <1>2, <1>3, <2>1
       DEF ListInv, Request!DescribesTable, Request!ColumnsOfOneMoment, Request!Found
<1>6. QED
  BY <1>4, <1>5

\* A reply without columns.
LEMMA RefuseList ==
  ASSUME ListInv, step # "done", UNCHANGED <<table, past, request>>, NEW status, NEW host2, NEW cols,
         Request!Reply(status, host2, cols), status # 200 \/ request.path # "table"
  PROVE  ListInv'
<1>1. step' = "done" /\ reply'.status = status
  BY DEF Request!Reply
<1>2. QED
  BY <1>1 DEF ListInv, Request!DescribesTable, Request!ColumnsOfOneMoment, Request!Found

\* A reply with the columns.
LEMMA TellList ==
  ASSUME ListInv, step # "done", UNCHANGED <<table, past, request>>, NEW host2, NEW cols,
         Request!Reply(200, host2, cols), cols \in Seq(known),
         \E w \in past : known = Request!ToSet(w.table.columns),
         (\A w \in past : w.table = table) => Request!Describes(cols)
  PROVE  ListInv'
<1>1. step' = "done" /\ reply'.columns = cols
  BY DEF Request!Reply
<1>2. Request!Describes(cols) => Request!Describes(reply.columns)'
  BY <1>1, SameDescription
<1>3. Request!ToSet(cols) \subseteq known
  BY DEF Request!ToSet
<1>4. Request!ColumnsOfOneMoment'
  BY <1>1, <1>3 DEF Request!ColumnsOfOneMoment
<1>5. Request!DescribesTable'
  BY <1>2 DEF Request!DescribesTable
<1>6. QED
  BY <1>1, <1>4, <1>5 DEF ListInv

LEMMA ReadColumnsList == ASSUME ListInv, Request!ReadColumns, RequestInv PROVE ListInv'
<1>1. /\ step = "columns" /\ step' = "indices"
      /\ UNCHANGED <<table, replicas, past, request, reply>>
      /\ known' = Request!ToSet(table.columns) /\ columns' = Keys(table.columns)
  BY DEF Request!ReadColumns, Request!Goto, Request!world, Request!asked, Keys
<1>2. [table |-> table, replicas |-> replicas] \in past
  BY <1>1 DEF RequestInv
<1>3. \E w \in past : known' = Request!ToSet(w.table.columns)
  BY <1>1, <1>2
<1>4. table.columns \in Seq(Columns)
  <2>1. CASE table \in Request!Tables
    BY <2>1, TableShape
  <2>2. CASE table = Request!NoTable
    BY <2>2 DEF Request!NoTable
  <2>3. QED
    BY <2>1, <2>2 DEF ListInv
<1>5. columns' \in Seq(known')
  <2>1. Selected(Keys(table.columns), table.columns, Len(table.columns))
    BY <1>4, KeysSelected
  <2>2. /\ Keys(table.columns) \in Seq(Columns)
        /\ \A i \in 1 .. Len(Keys(table.columns)) :
             \E k \in 1 .. Len(table.columns) : table.columns[k] = Keys(table.columns)[i]
    BY <2>1 DEF Selected
  <2>3. \A k \in 1 .. Len(table.columns) : table.columns[k] \in known'
    BY <1>1, <1>4 DEF Request!ToSet
  <2>4. QED
    BY <1>1, <2>2, <2>3
<1>6. ASSUME \A w \in past : w.table = table
      PROVE  table # Request!NoTable /\ KeyList(table, columns)'
  <2>1. table # Request!NoTable /\ table \in Request!Tables
    BY <1>1, <1>6 DEF ListInv
  <2>2. KeyList(table, Keys(table.columns))
    BY <2>1, KeysAreKeyList
  <2>3. QED
    BY <1>1, <2>1, <2>2 DEF KeyList
<1>7. QED
  BY <1>1, <1>3, <1>5, <1>6
     DEF ListInv, Request!DescribesTable, Request!ColumnsOfOneMoment, Request!Found

LEMMA ReadIndicesList == ASSUME ListInv, Request!ReadIndices, RequestInv PROVE ListInv'
<1>1. /\ step = "indices" /\ request.path = "table"
      /\ UNCHANGED <<table, replicas, past, request, known>>
      /\ columns' \in {columns, Indexed(columns, table.indices)}
      /\ \/ step' = "hosts" /\ UNCHANGED reply
         \/ Request!Reply(200, Request!NoHost, columns')
  BY DEF Request!ReadIndices, Request!Goto, Request!world, Request!asked, Indexed, RequestInv
<1>2. columns \in Seq(known) /\ \E w \in past : known = Request!ToSet(w.table.columns)
  BY <1>1 DEF ListInv
<1>3. \E T : table.indices \in Seq(T)
  <2>1. CASE table \in Request!Tables
    BY <2>1, TableShape
  <2>2. CASE table = Request!NoTable
    <3>1. table.indices \in Seq(Columns)
      BY <2>2 DEF Request!NoTable
    <3>2. QED
      BY <3>1
  <2>3. QED
    BY <2>1, <2>2 DEF ListInv
<1>4. Extended(Indexed(columns, table.indices), columns, table.indices, Len(table.indices))
  BY <1>2, <1>3, IndicesExtend
<1>5. columns' \in Seq(known)
  BY <1>1, <1>2, <1>4 DEF Extended
<1>6. ASSUME \A w \in past : w.table = table PROVE Request!Describes(columns')
  <2>1. /\ table \in Request!Tables /\ KeyList(table, columns) /\ known = Request!ToSet(table.columns)
    BY <1>1, <1>6 DEF ListInv
  <2>2. Request!Describes(columns)
    BY <2>1, KeyDescribes
  <2>3. Request!Describes(Indexed(columns, table.indices))
    BY <1>4, <2>1, ExtendedDescribes
  <2>4. QED
    BY <1>1, <2>2, <2>3
<1>7. CASE step' = "hosts" /\ UNCHANGED reply
  <2>1. Request!Describes(columns') => Request!Describes(columns)'
    BY <1>1, SameDescription
  <2>2. QED
    BY <1>1, <1>2, <1>5, <1>6, <1>7, <2>1
       DEF ListInv, Request!DescribesTable, Request!ColumnsOfOneMoment, Request!Found
<1>8. CASE Request!Reply(200, Request!NoHost, columns')
  BY <1>1, <1>2, <1>5, <1>6, <1>8, TellList
<1>9. QED
  BY <1>1, <1>7, <1>8

LEMMA StepList == ASSUME RequestInv, ListInv, Request!Handler PROVE ListInv'
<1> USE DEF Request!Goto, Request!world, Request!asked
<1>1. CASE Request!Start
  <2>1. step = "start" /\ UNCHANGED <<table, past, request, known, columns>>
    BY <1>1 DEF Request!Start
  <2>2. \/ Request!Reply(400, Request!NoHost, <<>>)
        \/ request.path = "config" /\ Request!Reply(200, Request!NoHost, <<>>)
        \/ step' = Request!FirstQuestion /\ UNCHANGED reply
    BY <1>1, Zenon DEF Request!Start
  <2>3. CASE Request!Reply(400, Request!NoHost, <<>>)
    BY <2>1, <2>3, RefuseList
  <2>4. CASE request.path = "config" /\ Request!Reply(200, Request!NoHost, <<>>)
    BY <2>1, <2>4, RefuseList
  <2>5. CASE step' = Request!FirstQuestion /\ UNCHANGED reply
    <3>1. request.path \in {"healthz", "config", "tables", "table"}
      BY DEF RequestInv, Request!Requests
    <3>2. /\ step' \in {"ping", "hosts", "tables", "table"}
          /\ step' = "hosts" => request.path # "table"
      BY <2>5, <3>1 DEF Request!FirstQuestion
    <3>3. QED
      BY <2>1, <2>5, <3>2
         DEF ListInv, Request!DescribesTable, Request!ColumnsOfOneMoment, Request!Found
  <2>6. QED
    BY <2>2, <2>3, <2>4, <2>5
<1>2. CASE Request!Fail
  BY <1>2, RefuseList DEF Request!Fail, Request!StatusOfFailure
<1>3. CASE Request!Answered
  BY <1>3, RefuseList DEF Request!Answered, RequestInv
<1>4. CASE Request!ReadTable
  <2>1. step = "table" /\ UNCHANGED <<table, past, request, known, columns>>
    BY <1>4 DEF Request!ReadTable
  <2>2. CASE table = Request!NoTable
    BY <1>4, <2>1, <2>2, RefuseList DEF Request!ReadTable
  <2>3. CASE table # Request!NoTable
    <3>1. step' = "columns" /\ UNCHANGED reply
      BY <1>4, <2>3 DEF Request!ReadTable
    <3>2. QED
      BY <2>1, <2>3, <3>1
         DEF ListInv, Request!DescribesTable, Request!ColumnsOfOneMoment, Request!Found
  <2>4. QED
    BY <2>2, <2>3
<1>5. CASE Request!ReadColumns
  BY <1>5, ReadColumnsList
<1>6. CASE Request!ReadIndices
  BY <1>6, ReadIndicesList
<1>7. CASE Request!ReadHosts
  <2>1. step = "hosts" /\ UNCHANGED <<table, past, request, known, columns>>
    BY <1>7 DEF Request!ReadHosts
  <2>2. \/ request.path = "config" /\ Request!Reply(200, Request!NoHost, <<>>)
        \/ Request!Reply(200, Request!Chosen, columns)
        \/ Request!Reply(400, Request!NoHost, <<>>)
    BY <1>7, Zenon DEF Request!ReadHosts
  <2>3. CASE request.path = "config" /\ Request!Reply(200, Request!NoHost, <<>>)
    BY <2>1, <2>3, RefuseList
  <2>4. CASE Request!Reply(200, Request!Chosen, columns)
    <3>1. CASE request.path = "table"
      BY <2>1, <2>4, <3>1, TellList DEF ListInv
    <3>2. CASE request.path # "table"
      BY <2>1, <2>4, <3>2, RefuseList
    <3>3. QED
      BY <3>1, <3>2
  <2>5. CASE Request!Reply(400, Request!NoHost, <<>>)
    BY <2>1, <2>5, RefuseList
  <2>6. QED
    BY <2>2, <2>3, <2>4, <2>5
<1>8. QED
  BY <1>1, <1>2, <1>3, <1>4, <1>5, <1>6, <1>7 DEF Request!Handler

LEMMA StaysRequest ==
  ASSUME RequestInv, ListInv, [StoreNext]_<<vars, requestVars, logVars>>
  PROVE  RequestInv' /\ ListInv'
<1>1. CASE Request!Next
  BY <1>1, ChangeRequest, StepRequest, ChangeList, StepList DEF Request!Next
<1>2. CASE UNCHANGED requestVars
  <2>1. RequestInv'
    BY <1>2 DEF requestVars, RequestInv, Request!OneHost, Request!StatusTells, Request!Found
  <2>2. ListInv'
    BY <1>2 DEF requestVars, ListInv, KeyList, Request!DescribesTable, Request!ColumnsOfOneMoment,
                Request!Found, Request!Describes, Request!KeyFirst, Request!ThenOnce
  <2>3. QED
    BY <2>1, <2>2
<1>3. QED
  BY <1>1, <1>2 DEF StoreNext

\* The columns of an answer are the table's, as they were at a moment of the request at
\* least; and of a table that stayed as it was, they are those of its key in its order and
\* the indexed ones after them, each once.
THEOREM ColumnsTold == StoreSpec => []ColumnsTell
<1>1. StoreInit => RequestInv /\ ListInv
  BY InitRequest, EndedRequest, InitList, EndedList DEF StoreInit
<1>2. RequestInv /\ ListInv /\ [StoreNext]_<<vars, requestVars, logVars>> => RequestInv' /\ ListInv'
  BY StaysRequest
<1>3. ListInv => ColumnsTell
  BY DEF ListInv, ColumnsTell
<1>4. QED
  BY <1>1, <1>2, <1>3, PTL DEF StoreSpec

-----------------------------------------------------------------------------
(***************************************************************************)
(* PartLog.                                                                *)
(***************************************************************************)
Events == log \cup unwritten

LogTypes ==
  /\ active \in [LogHosts -> [PartNames -> 0 .. Days]] /\ host \in LogHosts
  /\ log \subseteq Log!Event /\ unwritten \subseteq Log!Event /\ old \subseteq log

\* Nothing happened to an active part after it was written, and it was not removed on
\* that day.
LastEvent ==
  \A e \in Events :
    active[e.host][e.part] # 0 =>
      e.day <= active[e.host][e.part]
        /\ (e.day = active[e.host][e.part] => e.kind # "RemovePart")

\* A row of the log is of the host, and nothing that had happened to its part there since
\* was in the log.
LatestRow(rows, h, events) ==
  \A e \in rows :
    /\ e.host = h
    /\ \A f \in events : f.part = e.part /\ f.host = h /\ f.kind # "RemovePart" => f.day <= e.day

\* The parts of stays that have their event among events have a row.
HasRow(stays, events, rows, h, days) ==
  \A p \in stays :
    (\E e \in events : e.part = p /\ e.host = h /\ e.day = days[p])
      => \E e \in rows : e.part = p /\ e.day = days[p]

\* The parts that stayed are active, were read, and have their row if the log was read.
Staying ==
  /\ \A p \in stayed : p \in PartNames /\ active[host][p] # 0
  /\ "parts" \in back => stayed \subseteq parts
  /\ host = Here /\ "log" \in back => HasRow(stayed, old, partLog, host, active[host])

Joined ==
  IF logStep = "done" THEN "parts" \in back /\ created = {e \in partLog : e.part \in parts}
                      ELSE created = {}

LogInv == LogTypes /\ LastEvent /\ LatestRow(partLog, host, old) /\ Staying /\ Joined

LEMMA EndedLog == LogEnded => LogInv
BY LogAssumption
   DEF LogEnded, LogInv, LogTypes, LastEvent, LatestRow, HasRow, Staying, Joined, Events

\* What may have happened to a part before the request.
LEMMA PastOfPart ==
  ASSUME NEW h \in LogHosts, NEW p \in PartNames, NEW x \in Log!Past(h, p)
  PROVE  /\ x.day \in 0 .. Days /\ x.events \subseteq Log!Event
         /\ \A e \in x.events : /\ e.host = h /\ e.part = p
                                /\ x.day # 0 => e.day <= x.day
                                                 /\ (e.day = x.day => e.kind # "RemovePart")
<1> DEFINE E(kind, d) == [host |-> h, part |-> p, kind |-> kind, day |-> d]
<1>1. \A kind \in {"NewPart", "RemovePart"}, d \in 1 .. Days : E(kind, d) \in Log!Event
  BY DEF Log!Event
<1>2. CASE x = [day |-> 0, events |-> {}]
  BY <1>2, LogAssumption
<1>3. ASSUME NEW d \in 1 .. Days, x = [day |-> d, events |-> {E("NewPart", d)}]
      PROVE  /\ x.day \in 0 .. Days /\ x.events \subseteq Log!Event
             /\ \A e \in x.events : /\ e.host = h /\ e.part = p
                                    /\ e.day <= x.day /\ e.kind # "RemovePart"
  BY <1>1, <1>3
<1>4. ASSUME NEW d \in 1 .. Days,
             x = [day |-> 0, events |-> {E("NewPart", d), E("RemovePart", d)}]
      PROVE  /\ x.day = 0 /\ x.events \subseteq Log!Event
             /\ \A e \in x.events : e.host = h /\ e.part = p
  BY <1>1, <1>4
<1>5. ASSUME NEW c \in 1 .. Days, NEW d \in 1 .. Days, c < d,
             x = [day |-> d, events |-> {E("NewPart", c), E("RemovePart", c), E("NewPart", d)}]
      PROVE  /\ x.day \in 0 .. Days /\ x.events \subseteq Log!Event
             /\ \A e \in x.events : /\ e.host = h /\ e.part = p
                                    /\ e.day <= x.day
                                    /\ (e.day = x.day => e.kind # "RemovePart")
  BY <1>1, <1>5
<1>6. QED
  BY <1>2, <1>3, <1>4, <1>5, LogAssumption DEF Log!Past

LEMMA InitLog == ASSUME Log!Init PROVE LogInv
<1>1. PICK was \in [LogHosts \X PartNames -> UNION {Log!Past(h, p) : h \in LogHosts, p \in PartNames}] :
        (\A h \in LogHosts, p \in PartNames : was[<<h, p>>] \in Log!Past(h, p)) /\ Log!After(was)
  BY DEF Log!Init
<1> DEFINE all == UNION {was[x].events : x \in LogHosts \X PartNames}
<1>0. /\ active = [h \in LogHosts |-> [p \in PartNames |-> was[<<h, p>>].day]]
      /\ log \subseteq all /\ unwritten = all \ log
  BY <1>1 DEF Log!After
<1>2. log \subseteq all /\ unwritten \subseteq all
  BY <1>0
<1>3. ASSUME NEW h \in LogHosts, NEW p \in PartNames
      PROVE  active[h][p] = was[<<h, p>>].day /\ active[h][p] \in 0 .. Days
  <2>1. was[<<h, p>>] \in Log!Past(h, p)
    BY <1>1
  <2>2. active[h][p] = was[<<h, p>>].day
    BY <1>0
  <2>3. QED
    BY <2>1, <2>2, PastOfPart
<1>4. active \in [LogHosts -> [PartNames -> 0 .. Days]]
  BY <1>0, <1>1, PastOfPart
<1>5. \A e \in all :
        /\ e \in Log!Event
        /\ active[e.host][e.part] # 0 =>
             e.day <= active[e.host][e.part]
               /\ (e.day = active[e.host][e.part] => e.kind # "RemovePart")
  <2> SUFFICES ASSUME NEW h \in LogHosts, NEW p \in PartNames, NEW e \in was[<<h, p>>].events
               PROVE  /\ e \in Log!Event
                      /\ active[e.host][e.part] # 0 =>
                           e.day <= active[e.host][e.part]
                             /\ (e.day = active[e.host][e.part] => e.kind # "RemovePart")
    OBVIOUS
  <2>1. was[<<h, p>>] \in Log!Past(h, p)
    BY <1>1
  <2>2. QED
    BY <2>1, <1>3, PastOfPart
<1> HIDE DEF all
<1>6. /\ host \in LogHosts /\ logStep = "probe" /\ back = {} /\ partLog = {} /\ created = {}
      /\ stayed = {p \in PartNames : active[host][p] # 0} /\ old = log
  BY DEF Log!Init, Log!ActiveOn
<1>7. LogTypes
  BY <1>2, <1>4, <1>5, <1>6 DEF LogTypes
<1>8. LastEvent
  BY <1>2, <1>5 DEF LastEvent, Events
<1>9. QED
  BY <1>6, <1>7, <1>8 DEF LogInv, LatestRow, Staying, Joined

\* ClickHouse does not touch what the request has, nor the parts that stay.
LEMMA StaysLog ==
  ASSUME LogInv, LogTypes', LastEvent', UNCHANGED <<host, back, parts, partLog, logStep, created, old>>,
         stayed' \subseteq stayed, \A p \in stayed' : active'[host][p] = active[host][p]
  PROVE  LogInv'
<1>1. Staying'
  BY DEF LogInv, Staying, HasRow
<1>2. LatestRow(partLog, host, old)'
  BY DEF LogInv
<1>3. Joined'
  BY DEF LogInv, Joined
<1>4. QED
  BY <1>1, <1>2, <1>3 DEF LogInv

LEMMA ClickHouseLog == ASSUME LogInv, Log!ClickHouse PROVE LogInv'
<1>1. UNCHANGED <<host, back, parts, partLog, logStep, created, old>>
  BY DEF Log!ClickHouse, Log!request
<1>2. ASSUME NEW h \in LogHosts, NEW p \in PartNames, Log!Write(h, p) PROVE LogInv'
  <2> DEFINE new == [host |-> h, part |-> p, kind |-> "NewPart", day |-> Days]
  <2>1. /\ active[h][p] = 0 /\ active' = [active EXCEPT ![h][p] = Days]
        /\ \A e \in Events : ~(e.host = h /\ e.part = p /\ e.day = Days)
        /\ unwritten' = unwritten \cup {new} /\ log' = log /\ stayed' = stayed
    BY <1>2 DEF Log!Write, Log!Logged, Events
  <2>2. \A g \in LogHosts, r \in PartNames :
          active'[g][r] = IF g = h /\ r = p THEN Days ELSE active[g][r]
    BY <2>1 DEF LogInv, LogTypes
  <2>3. new \in Log!Event
    BY LogAssumption DEF Log!Event
  <2>4. LogTypes'
    <3>1. active' \in [LogHosts -> [PartNames -> 0 .. Days]]
      BY <2>1, LogAssumption DEF LogInv, LogTypes
    <3>2. QED
      BY <1>1, <2>1, <2>3, <3>1 DEF LogInv, LogTypes
  <2>5. ASSUME NEW e \in Events', active'[e.host][e.part] # 0
        PROVE  e.day <= active'[e.host][e.part]
                 /\ (e.day = active'[e.host][e.part] => e.kind # "RemovePart")
    <3>1. CASE e = new
      BY <2>2, <3>1, LogAssumption
    <3>2. CASE e \in Events
      <4>1. e \in Log!Event
        BY <3>2 DEF LogInv, LogTypes, Events
      <4>2. e.host \in LogHosts /\ e.part \in PartNames /\ e.day \in 1 .. Days
        BY <4>1 DEF Log!Event
      <4>3. CASE e.host = h /\ e.part = p
        BY <2>1, <2>2, <3>2, <4>2, <4>3, LogAssumption
      <4>4. CASE ~(e.host = h /\ e.part = p)
        <5>1. active'[e.host][e.part] = active[e.host][e.part]
          BY <2>2, <4>2, <4>4
        <5>2. QED
          BY <2>5, <3>2, <5>1 DEF LogInv, LastEvent
      <4>5. QED
        BY <4>3, <4>4
    <3>3. QED
      BY <2>1, <3>1, <3>2 DEF Events
  <2>6. LastEvent'
    BY <2>5 DEF LastEvent
  <2>7. \A r \in stayed' : active'[host][r] = active[host][r]
    BY <2>1, <2>2 DEF LogInv, LogTypes, Staying
  <2>8. QED
    BY <1>1, <2>1, <2>4, <2>6, <2>7, StaysLog
<1>3. ASSUME NEW h \in LogHosts, NEW p \in PartNames, Log!Remove(h, p) PROVE LogInv'
  <2> DEFINE new == [host |-> h, part |-> p, kind |-> "RemovePart", day |-> Days]
  <2>1. /\ active' = [active EXCEPT ![h][p] = 0]
        /\ unwritten' = unwritten \cup {new} /\ log' = log
        /\ stayed' = IF h = host THEN stayed \ {p} ELSE stayed
    BY <1>3 DEF Log!Remove, Log!Logged
  <2>2. \A g \in LogHosts, r \in PartNames :
          active'[g][r] = IF g = h /\ r = p THEN 0 ELSE active[g][r]
    BY <2>1 DEF LogInv, LogTypes
  <2>3. new \in Log!Event
    BY LogAssumption DEF Log!Event
  <2>4. LogTypes'
    <3>1. active' \in [LogHosts -> [PartNames -> 0 .. Days]]
      BY <2>1, LogAssumption DEF LogInv, LogTypes
    <3>2. QED
      BY <1>1, <2>1, <2>3, <3>1 DEF LogInv, LogTypes
  <2>5. ASSUME NEW e \in Events', active'[e.host][e.part] # 0
        PROVE  e.day <= active'[e.host][e.part]
                 /\ (e.day = active'[e.host][e.part] => e.kind # "RemovePart")
    <3>1. e # new
      BY <2>2, <2>5
    <3>2. e \in Events
      BY <2>1, <3>1 DEF Events
    <3>3. e \in Log!Event
      BY <3>2 DEF LogInv, LogTypes, Events
    <3>4. e.host \in LogHosts /\ e.part \in PartNames
      BY <3>3 DEF Log!Event
    <3>5. active'[e.host][e.part] = active[e.host][e.part]
      BY <2>2, <2>5, <3>4
    <3>6. QED
      BY <2>5, <3>2, <3>5 DEF LogInv, LastEvent
  <2>6. LastEvent'
    BY <2>5 DEF LastEvent
  <2>7. stayed' \subseteq stayed /\ \A r \in stayed' : active'[host][r] = active[host][r]
    BY <2>1, <2>2 DEF LogInv, LogTypes, Staying
  <2>8. QED
    BY <1>1, <2>4, <2>6, <2>7, StaysLog
<1>4. CASE Log!Flush
  <2>1. log' = Events /\ Events' = Events /\ UNCHANGED <<active, stayed>> /\ unwritten' = {}
    BY <1>4 DEF Log!Flush, Events
  <2>2. LogTypes'
    BY <1>1, <2>1 DEF LogInv, LogTypes, Events
  <2>3. LastEvent'
    BY <2>1 DEF LogInv, LastEvent
  <2>4. QED
    BY <1>1, <2>1, <2>2, <2>3, StaysLog
<1>5. QED
  BY <1>2, <1>3, <1>4 DEF Log!ClickHouse

\* The oldest day that is looked through.
LEMMA FirstDayLog ==
  ASSUME LogTypes
  PROVE  /\ Log!FirstDay \in Nat
         /\ \A p \in PartNames : active[Here][p] # 0 => Log!FirstDay <= active[Here][p]
<1>1. Log!Dates \in SUBSET (1 .. Days)
  BY LogAssumption DEF LogTypes, Log!Dates, Log!ActiveOn
<1>2. CASE Log!Dates = {}
  BY <1>2, LogAssumption DEF Log!FirstDay, Log!Dates, Log!ActiveOn
<1>3. CASE Log!Dates # {}
  <2>1. \E d \in Log!Dates : \A e \in Log!Dates : d <= e
    BY <1>1, <1>3, LeastNumber, LogAssumption
  <2>2. PICK d \in Log!Dates : /\ \A e \in Log!Dates : d <= e
                               /\ Log!FirstDay = d - 1
    BY <1>3, <2>1 DEF Log!FirstDay
  <2>3. d \in 1 .. Days
    BY <1>1
  <2>4. \A p \in PartNames : active[Here][p] # 0 => active[Here][p] \in Log!Dates
    BY DEF Log!Dates, Log!ActiveOn
  <2>5. ASSUME NEW p \in PartNames, active[Here][p] # 0 PROVE Log!FirstDay <= active[Here][p]
    <3>1. active[Here][p] \in 1 .. Days /\ d <= active[Here][p]
      BY <1>1, <2>2, <2>4, <2>5
    <3>2. QED
      BY <2>2, <2>3, <3>1, LogAssumption
  <2>6. QED
    BY <2>2, <2>3, <2>5, LogAssumption
<1>4. QED
  BY <1>2, <1>3

\* What the rows of the log say of the host of the page, if all of the log is read or a part.
LEMMA RowsOfLog ==
  ASSUME LogTypes, LastEvent, NEW names \in SUBSET PartNames, NEW rows \in Log!Rows(names)
  PROVE  /\ LatestRow(rows, host, old)
         /\ names = PartNames /\ host = Here =>
              HasRow({p \in PartNames : active[host][p] # 0}, old, rows, host, active[host])
<1>1. Log!FirstDay \in Nat /\ \A p \in PartNames : active[Here][p] # 0 => Log!FirstDay <= active[Here][p]
  BY FirstDayLog
<1>2. \A e \in rows : \E p \in names : e \in Log!Latest(p)
  BY DEF Log!Rows
<1>3. \A p \in names : Log!Found(p) # {} => \E e \in rows : e.part = p
  <2>1. \A p \in names : Log!Found(p) # {} => \E e \in rows : {f \in rows : f.part = p} = {e}
    BY Zenon DEF Log!Rows
  <2>2. QED
    BY <2>1
<1>4. ASSUME NEW p \in PartNames
      PROVE  \A e : e \in Log!Found(p) <=>
               /\ e \in log /\ e.part = p /\ e.host = host /\ e.kind # "RemovePart"
               /\ e.day >= Log!FirstDay /\ p \in PartNames /\ active[e.host][p] # 0
  BY DEF Log!Found, Log!OfHost, Log!Creates, Log!ActiveOn
<1>5. \A e \in log : e.host \in LogHosts /\ e.part \in PartNames /\ e.day \in 1 .. Days
  BY DEF LogTypes, Log!Event
<1>6. ASSUME NEW e \in rows
      PROVE  \E p \in names : /\ e \in Log!Found(p) /\ e \in log /\ e.part = p /\ e.host = host
                              /\ e.day >= Log!FirstDay
                              /\ \A f \in Log!Found(p) : f.day <= e.day
  BY <1>2, <1>4 DEF Log!Latest
<1>7. ASSUME NEW e \in rows, NEW f \in old, f.part = e.part, f.host = host, f.kind # "RemovePart"
      PROVE  f.day <= e.day
  <2>1. PICK p \in names : /\ e \in Log!Found(p) /\ e \in log /\ e.part = p /\ e.host = host
                           /\ e.day >= Log!FirstDay
                           /\ \A g \in Log!Found(p) : g.day <= e.day
    BY <1>6
  <2>2. f \in log
    BY DEF LogTypes
  <2>3. CASE f.day >= Log!FirstDay
    <3>1. active[host][p] # 0
      BY <1>4, <2>1
    <3>2. f \in Log!Found(p)
      BY <1>4, <1>7, <2>1, <2>2, <2>3, <3>1
    <3>3. QED
      BY <2>1, <3>2
  <2>4. CASE ~(f.day >= Log!FirstDay)
    BY <1>1, <1>5, <2>1, <2>2, <2>4, LogAssumption
  <2>5. QED
    BY <2>3, <2>4
<1>8. LatestRow(rows, host, old)
  BY <1>6, <1>7 DEF LatestRow
<1>9. ASSUME names = PartNames, host = Here, NEW p \in PartNames, active[host][p] # 0,
             NEW e \in old, e.part = p, e.host = host, e.day = active[host][p]
      PROVE  \E r \in rows : r.part = p /\ r.day = active[host][p]
  <2>1. e \in log /\ e \in Events
    BY DEF LogTypes, Events
  <2>2. e.kind # "RemovePart"
    BY <1>9, <2>1 DEF LastEvent
  <2>3. e.day >= Log!FirstDay
    BY <1>1, <1>5, <1>9, <2>1, LogAssumption
  <2>4. e \in Log!Found(p)
    BY <1>4, <1>9, <2>1, <2>2, <2>3
  <2>5. PICK r \in rows : r.part = p
    BY <1>3, <1>9, <2>4
  <2>6. r \in log /\ r.host = host /\ e.day <= r.day
    BY <1>6, <2>4, <2>5
  <2>7. r.day <= active[host][p]
    BY <1>9, <2>5, <2>6 DEF LastEvent, Events
  <2>8. QED
    BY <1>5, <1>9, <2>1, <2>5, <2>6, <2>7, LogAssumption
<1>10. QED
  BY <1>8, <1>9 DEF HasRow

LEMMA ReadLogLog == ASSUME LogInv, Log!ReadLog PROVE LogInv'
<1>1. /\ logStep = "wait" /\ back \cap {"log", "cut"} = {}
      /\ UNCHANGED <<active, log, unwritten, host, logStep, parts, created, stayed, old>>
  BY DEF Log!ReadLog, Log!world
<1>2. PICK names \in SUBSET PartNames :
        /\ partLog' \in Log!Rows(names)
        /\ \/ back' = back \cup {"log"} /\ names = PartNames
           \/ back' = back \cup {"cut"}
  BY DEF Log!ReadLog
<1>3. /\ LatestRow(partLog', host, old)
      /\ names = PartNames /\ host = Here =>
           HasRow({p \in PartNames : active[host][p] # 0}, old, partLog', host, active[host])
  BY <1>2, RowsOfLog DEF LogInv
<1>4. Staying'
  <2>1. \A p \in stayed : p \in PartNames /\ active[host][p] # 0
    BY DEF LogInv, Staying
  <2>2. "parts" \in back' => "parts" \in back
    BY <1>2
  <2>3. host = Here /\ "log" \in back' => HasRow(stayed, old, partLog', host, active[host])
    <3> SUFFICES ASSUME host = Here, "log" \in back' PROVE HasRow(stayed, old, partLog', host, active[host])
      OBVIOUS
    <3>1. names = PartNames
      BY <1>1, <1>2
    <3>2. QED
      BY <1>3, <2>1, <3>1 DEF HasRow
  <2>4. QED
    BY <1>1, <2>1, <2>2, <2>3 DEF LogInv, Staying
<1>5. LogTypes' /\ LastEvent' /\ Joined'
  BY <1>1 DEF LogInv, LogTypes, LastEvent, Joined, Events
<1>6. LatestRow(partLog, host, old)'
  BY <1>1, <1>3
<1>7. QED
  BY <1>4, <1>5, <1>6 DEF LogInv

LEMMA StepLog == ASSUME LogInv, Log!Next PROVE LogInv'
<1>1. CASE Log!Probe
  BY <1>1 DEF Log!Probe, Log!world, LogInv, LogTypes, LastEvent, Staying, Joined, Events
<1>2. CASE Log!ReadParts
  <2>1. /\ back' = back \cup {"parts"} /\ parts' = {p \in PartNames : active[host][p] # 0}
        /\ UNCHANGED <<active, log, unwritten, host, logStep, partLog, created, stayed, old>>
    BY <1>2 DEF Log!ReadParts, Log!world, Log!ActiveOn
  <2>2. LogTypes' /\ LastEvent'
    BY <2>1 DEF LogInv, LogTypes, LastEvent, Events
  <2>3. Staying'
    BY <2>1 DEF LogInv, Staying
  <2>4. Joined'
    BY <1>2, <2>1 DEF Log!ReadParts, LogInv, Joined
  <2>5. LatestRow(partLog, host, old)'
    BY <2>1 DEF LogInv
  <2>6. QED
    BY <2>2, <2>3, <2>4, <2>5 DEF LogInv
<1>3. CASE Log!Join
  BY <1>3 DEF Log!Join, Log!world, LogInv, LogTypes, LastEvent, Staying, Joined, Events
<1>4. QED
  BY <1>1, <1>2, <1>3, ClickHouseLog, ReadLogLog DEF Log!Next

LEMMA StaysPartLog ==
  ASSUME LogInv, [StoreNext]_<<vars, requestVars, logVars>> PROVE LogInv'
<1>1. CASE Log!Next
  BY <1>1, StepLog
<1>2. CASE UNCHANGED logVars
  BY <1>2 DEF logVars, LogInv, LogTypes, LastEvent, Staying, Joined, Events
<1>3. QED
  BY <1>1, <1>2 DEF StoreNext

\* A part is shown with a creation of its own, on the host the page is of, and the last one
\* that the log had of it when the request began; and on a page of the host the service is
\* connected to, a part that stayed is shown with its creation, if the log had that.
THEOREM CreationsTold == StoreSpec => []CreationsTell
<1>1. StoreInit => LogInv
  BY InitLog, EndedLog DEF StoreInit
<1>2. LogInv /\ [StoreNext]_<<vars, requestVars, logVars>> => LogInv'
  BY StaysPartLog
<1>3. LogInv => CreationsTell
  <2> SUFFICES ASSUME LogInv PROVE CreationsTell
    OBVIOUS
  <2>1. Log!CreatedByItsOwn
    BY DEF LogInv, LatestRow, Joined, Log!CreatedByItsOwn
  <2>2. Log!EachHasItsEventHere
    BY DEF LogInv, Staying, HasRow, Joined, Log!EachHasItsEventHere, Log!EachHasItsEvent
  <2>3. QED
    BY <2>1, <2>2 DEF CreationsTell
<1>4. QED
  BY <1>1, <1>2, <1>3, PTL DEF StoreSpec
-----------------------------------------------------------------------------
(***************************************************************************)
(* SettingsClause.                                                         *)
(***************************************************************************)
Characters == Outside \cup {" ", ","}
Everything == Characters \cup {"SETTINGS"}

LEMMA LeastIs ==
  ASSUME NEW S \in SUBSET Nat, NEW m \in S, \A n \in S : m <= n
  PROVE  Least(S) = m
<1>1. \A i \in S : (\A j \in S : i <= j) => i = m
  <2> SUFFICES ASSUME NEW i \in S, \A j \in S : i <= j PROVE i = m
    OBVIOUS
  <2>1. i \in Nat /\ m \in Nat /\ i <= m /\ m <= i
    OBVIOUS
  <2>2. QED
    BY <2>1
<1>2. QED
  BY <1>1 DEF Least

LEMMA EndOfIs ==
  ASSUME Len(engine) \in Nat, NEW i \in Nat \ {0}, NEW j \in i .. Len(engine) + 1, NEW S,
         \A k \in i .. j - 1 : At(k) \in S, At(j) \notin S
  PROVE  EndOf(i, S) = j
<1> DEFINE Ends == {k \in i .. Len(engine) + 1 : At(k) \notin S}
<1>1. Ends \in SUBSET Nat /\ j \in Ends
  OBVIOUS
<1>2. \A k \in Ends : j <= k
  <2> SUFFICES ASSUME NEW k \in Ends, k < j PROVE FALSE
    BY <1>1
  <2>1. k \in i .. j - 1
    BY <1>1
  <2>2. QED
    BY <2>1
<1>3. QED
  BY <1>1, <1>2, LeastIs DEF EndOf

\* Quotes are taken from around a value.
LEMMA TrimPlain ==
  ASSUME NEW S, "'" \notin S, NEW v \in Seq(S), v # <<>>
  PROVE  Trim(v) = v
<1> DEFINE kept == {i \in DOMAIN v : v[i] # "'"}
           m == Len(v)
<1>1. m \in Nat /\ m > 0 /\ DOMAIN v = 1 .. m
  OBVIOUS
<1>2. kept = 1 .. m
  BY <1>1
<1>3. Least(kept) = 1
  BY <1>1, <1>2, LeastIs
<1>4. (CHOOSE i \in kept : \A j \in kept : j <= i) = m
  BY <1>1, <1>2
<1>5. Trim(v) = IF kept = {} THEN <<>>
                ELSE SubSeq(v, Least(kept), CHOOSE i \in kept : \A j \in kept : j <= i)
  BY DEF Trim
<1>6. kept # {}
  BY <1>1, <1>2
<1> HIDE DEF kept
<1>7. Trim(v) = SubSeq(v, 1, m)
  BY <1>3, <1>4, <1>5, <1>6
<1>8. QED
  BY <1>7

LEMMA TrimQuoted ==
  ASSUME NEW S, "'" \notin S, NEW v \in Seq(S)
  PROVE  Trim(<<"'">> \o v \o <<"'">>) = v
<1> DEFINE m == Len(v)
           w == <<"'">> \o v \o <<"'">>
           kept == {i \in DOMAIN w : w[i] # "'"}
<1>1. /\ m \in Nat /\ w \in Seq(S \cup {"'"}) /\ Len(w) = m + 2
      /\ w[1] = "'" /\ w[m + 2] = "'" /\ \A k \in 1 .. m : w[k + 1] = v[k]
  OBVIOUS
<1> HIDE DEF w
<1>2. DOMAIN w = 1 .. m + 2
  BY <1>1
<1>3. kept = 2 .. m + 1
  <2>1. ASSUME NEW i \in 2 .. m + 1 PROVE i \in kept
    <3>1. i - 1 \in 1 .. m /\ (i - 1) + 1 = i /\ i \in 1 .. m + 2
      BY <1>1
    <3>2. w[i] = v[i - 1] /\ v[i - 1] \in S
      BY <1>1, <3>1
    <3>3. QED
      BY <1>2, <3>1, <3>2
  <2>2. ASSUME NEW i \in kept PROVE i \in 2 .. m + 1
    <3>1. i \in 1 .. m + 2 /\ i # 1 /\ i # m + 2
      BY <1>1, <1>2
    <3>2. QED
      BY <1>1, <3>1
  <2>3. QED
    BY <2>1, <2>2
<1>4. CASE m = 0
  <2>1. kept = {} /\ v = <<>>
    BY <1>3, <1>4
  <2>2. QED
    BY <2>1 DEF Trim, w
<1>5. CASE m > 0
  <2>1. kept # {} /\ Least(kept) = 2
    BY <1>1, <1>3, <1>5, LeastIs
  <2>2. (CHOOSE i \in kept : \A j \in kept : j <= i) = m + 1
    BY <1>1, <1>3, <1>5
  <2>3. Trim(w) = SubSeq(w, 2, m + 1)
    BY <2>1, <2>2 DEF Trim
  <2>4. /\ SubSeq(w, 2, m + 1) \in Seq(S \cup {"'"}) /\ Len(SubSeq(w, 2, m + 1)) = m
        /\ \A k \in 1 .. m : SubSeq(w, 2, m + 1)[k] = v[k]
    <3>1. SubSeq(w, 2, m + 1) \in Seq(S \cup {"'"}) /\ Len(SubSeq(w, 2, m + 1)) = m
      BY <1>1, <1>5
    <3>2. \A k \in 1 .. m : SubSeq(w, 2, m + 1)[k] = w[k + 1]
      BY <1>1, <1>5
    <3>3. QED
      BY <1>1, <3>1, <3>2
  <2>5. SubSeq(w, 2, m + 1) = v
    BY <1>1, <2>4
  <2>6. QED
    BY <2>3, <2>5 DEF w
<1>6. QED
  BY <1>1, <1>4, <1>5

\* Two texts, one after the other, and a text of three characters.
LEMMA Concatenated ==
  ASSUME NEW S, NEW a \in Seq(S), NEW b \in Seq(S)
  PROVE  /\ a \o b \in Seq(S) /\ Len(a \o b) = Len(a) + Len(b)
         /\ \A k \in 1 .. Len(a) : (a \o b)[k] = a[k]
         /\ \A k \in 1 .. Len(b) : (a \o b)[Len(a) + k] = b[k]
<1>1. a \o b \in Seq(S) /\ Len(a \o b) = Len(a) + Len(b)
  OBVIOUS
<1>2. ASSUME NEW k \in 1 .. Len(a) PROVE (a \o b)[k] = a[k]
  OBVIOUS
<1>3. ASSUME NEW k \in 1 .. Len(b) PROVE (a \o b)[Len(a) + k] = b[k]
  OBVIOUS
<1>4. QED
  BY <1>1, <1>2, <1>3
LEMMA SettingKinds ==
  ASSUME NEW s, Printable(s)
  PROVE  /\ s.name \in Seq(Word) /\ Len(s.name) \in Nat /\ Len(s.name) > 0
         /\ s.value \in Seq(Characters \ {"'"}) /\ Len(s.value) \in Nat
         /\ \/ s.quoted = TRUE
            \/ s.quoted = FALSE /\ s.value \in Seq(Outside \ {"'"}) /\ Len(s.value) > 0
         /\ \A k \in 1 .. Len(s.name) : s.name[k] # "SETTINGS"
         /\ \A k \in 1 .. Len(s.value) : s.value[k] # "SETTINGS"
<1> DEFINE Plain1 == Outside \ {"'", "SETTINGS"}
           Plain2 == Plain1 \cup {" ", ","}
<1>1. s.name \in Seq(Word \ {"SETTINGS"}) /\ s.name # <<>>
  BY DEF Printable
<1>2. /\ s.name \in Seq(Word) /\ Len(s.name) \in Nat /\ Len(s.name) > 0
      /\ \A k \in 1 .. Len(s.name) : s.name[k] # "SETTINGS"
  BY <1>1
<1>3. \/ s.quoted = TRUE /\ s.value \in Seq(Plain2)
      \/ s.quoted = FALSE /\ s.value \in Seq(Plain1) /\ s.value # <<>>
  BY DEF Printable
<1>4. /\ Plain1 \subseteq Plain2 /\ Plain1 \subseteq Outside \ {"'"}
      /\ Plain2 \subseteq Characters \ {"'"} /\ "SETTINGS" \notin Plain2
  BY DEF Characters
<1> HIDE DEF Plain1, Plain2
<1>5. ASSUME s.value \in Seq(Plain2)
      PROVE  /\ s.value \in Seq(Characters \ {"'"}) /\ Len(s.value) \in Nat
             /\ \A k \in 1 .. Len(s.value) : s.value[k] # "SETTINGS"
  BY <1>4, <1>5
<1>6. ASSUME s.value \in Seq(Plain1), s.value # <<>>
      PROVE  /\ s.value \in Seq(Plain2) /\ s.value \in Seq(Outside \ {"'"}) /\ Len(s.value) > 0
  BY <1>4, <1>6
<1>7. QED
  BY <1>2, <1>3, <1>5, <1>6

\* Texts of one character, of two and of three.
LEMMA Single == ASSUME NEW S, NEW a \in S PROVE <<a>> \in Seq(S) /\ Len(<<a>>) = 1 /\ <<a>>[1] = a
OBVIOUS

LEMMA Double == ASSUME NEW S, NEW a \in S, NEW b \in S PROVE <<a, b>> \in Seq(S) /\ Len(<<a, b>>) = 2
OBVIOUS

LEMMA Triple ==
  ASSUME NEW S, NEW a \in S, NEW b \in S, NEW c \in S
  PROVE  /\ <<a, b, c>> \in Seq(S) /\ Len(<<a, b, c>>) = 3
         /\ <<a, b, c>>[1] = a /\ <<a, b, c>>[2] = b /\ <<a, b, c>>[3] = c
OBVIOUS

\* Text u is in text t after position b.
Holds(t, b, u) == \A k \in 1 .. Len(u) : t[b + k] = u[k]

LEMMA Beside ==
  ASSUME NEW S, NEW a \in Seq(S), NEW b \in Seq(S)
  PROVE  /\ a \o b \in Seq(S) /\ Len(a \o b) = Len(a) + Len(b)
         /\ Holds(a \o b, 0, a) /\ Holds(a \o b, Len(a), b)
BY Concatenated DEF Holds

\* What a text holds, another holds that holds the text.
LEMMA HeldWithin ==
  ASSUME NEW t, NEW u, NEW v, NEW b \in Nat, NEW c \in Nat, Len(u) \in Nat, Len(v) \in Nat,
         Holds(t, b, u), Holds(u, c, v), c + Len(v) <= Len(u)
  PROVE  Holds(t, b + c, v)
<1> SUFFICES ASSUME NEW k \in 1 .. Len(v) PROVE t[(b + c) + k] = v[k]
  BY DEF Holds
<1>1. c + k \in 1 .. Len(u) /\ b + (c + k) = (b + c) + k
  OBVIOUS
<1>2. u[c + k] = v[k] /\ t[b + (c + k)] = u[c + k]
  BY <1>1 DEF Holds
<1>3. QED
  BY <1>1, <1>2

\* What a text holds is what stands there.
LEMMA HeldIs ==
  ASSUME NEW S, NEW t \in Seq(S), NEW b \in Nat, NEW u \in Seq(S), Holds(t, b, u),
         b + Len(u) <= Len(t)
  PROVE  SubSeq(t, b + 1, b + Len(u)) = u
<1> DEFINE n == Len(u)
           w == SubSeq(t, b + 1, b + n)
<1>1. n \in Nat /\ Len(t) \in Nat
  OBVIOUS
<1> HIDE DEF n
<1>2. w \in Seq(S) /\ Len(w) = n /\ \A k \in 1 .. n : w[k] = t[b + k]
  <2>1. CASE n = 0
    BY <2>1, <1>1, SubSeqProperties DEF n
  <2>2. CASE n > 0
    BY <2>2, <1>1, SubSeqProperties DEF n
  <2>3. QED
    BY <1>1, <2>1, <2>2
<1> HIDE DEF w
<1>3. \A k \in 1 .. n : w[k] = u[k]
  BY <1>2 DEF Holds, n
<1>4. w = u
  BY <1>2, <1>3 DEF n
<1>5. QED
  BY <1>4 DEF w, n

\* The value as it is printed.
Quoted(s) == <<"'">> \o s.value \o <<"'">>
Shown(s)  == IF s.quoted THEN Quoted(s) ELSE s.value

NameLen(s)  == Len(s.name)
ValueLen(s) == Len(s.value)
ShownLen(s) == Len(Shown(s))

LEMMA QuotedShape ==
  ASSUME NEW s, Printable(s)
  PROVE  /\ Quoted(s) \in Seq(Characters) /\ Len(Quoted(s)) = ValueLen(s) + 2
         /\ ValueLen(s) \in Nat
         /\ Quoted(s)[1] = "'" /\ Quoted(s)[ValueLen(s) + 2] = "'"
         /\ \A k \in 1 .. ValueLen(s) : Quoted(s)[1 + k] = s.value[k]
<1> DEFINE m == ValueLen(s)
           a == <<"'">>
           b == a \o s.value
<1>1. a \in Seq(Characters) /\ Len(a) = 1 /\ a[1] = "'"
  BY Single DEF Characters, Outside
<1>2. s.value \in Seq(Characters) /\ m \in Nat /\ Len(s.value) = m
  <2>1. s.value \in Seq(Characters \ {"'"}) /\ Len(s.value) \in Nat
    BY SettingKinds
  <2>2. s.value \in Seq(Characters)
    BY <2>1
  <2>3. QED
    BY <2>1, <2>2 DEF ValueLen
<1> HIDE DEF a, m
<1>3. b \in Seq(Characters) /\ Len(b) = 1 + m /\ Holds(b, 0, a) /\ Holds(b, 1, s.value)
  <2>1. /\ b \in Seq(Characters) /\ Len(b) = Len(a) + Len(s.value)
        /\ Holds(b, 0, a) /\ Holds(b, Len(a), s.value)
    BY <1>1, <1>2, Beside
  <2> HIDE DEF b
  <2>2. QED
    BY <1>1, <1>2, <2>1
<1>4. 1 + m = m + 1 /\ 1 \in 1 .. Len(a) /\ 0 + 1 = 1
  BY <1>1, <1>2
<1>5. b[1] = "'"
  BY <1>1, <1>3, <1>4 DEF Holds
<1>6. \A k \in 1 .. m : b[1 + k] = s.value[k]
  BY <1>2, <1>3 DEF Holds
<1> HIDE DEF b
<1>7. Quoted(s) = b \o a
  BY DEF Quoted, a, b
<1>8. /\ Quoted(s) \in Seq(Characters) /\ Len(Quoted(s)) = (1 + m) + 1
      /\ Holds(Quoted(s), 0, b) /\ Holds(Quoted(s), 1 + m, a)
  BY <1>1, <1>3, <1>7, Beside
<1>9. (1 + m) + 1 = m + 2 /\ 1 \in 1 .. Len(b) /\ 0 + 1 = 1
  BY <1>2, <1>3
<1>10. Quoted(s)[m + 2] = "'"
  BY <1>1, <1>4, <1>8, <1>9 DEF Holds
<1>11. Quoted(s)[1] = "'"
  BY <1>5, <1>8, <1>9 DEF Holds
<1>12. ASSUME NEW k \in 1 .. m PROVE Quoted(s)[1 + k] = s.value[k]
  <2>1. 1 + k \in 1 .. Len(b) /\ 0 + (1 + k) = 1 + k
    BY <1>2, <1>3
  <2>2. Quoted(s)[1 + k] = b[1 + k]
    BY <1>8, <2>1 DEF Holds
  <2>3. QED
    BY <1>6, <2>2
<1>13. QED
  BY <1>2, <1>8, <1>9, <1>10, <1>11, <1>12 DEF m

LEMMA ShownKinds ==
  ASSUME NEW s, Printable(s)
  PROVE  Shown(s) \in Seq(Characters) /\ ShownLen(s) \in Nat /\ ShownLen(s) > 0
<1>1. CASE s.quoted = TRUE
  <2>1. Shown(s) = Quoted(s)
    BY <1>1 DEF Shown
  <2>2. QED
    BY <2>1, QuotedShape DEF ShownLen
<1>2. CASE s.quoted = FALSE
  <2>1. Shown(s) = s.value
    BY <1>2 DEF Shown
  <2>2. s.value \in Seq(Characters \ {"'"}) /\ Len(s.value) \in Nat /\ Len(s.value) > 0
    BY <1>2, SettingKinds
  <2>3. s.value \in Seq(Characters)
    BY <2>2
  <2>4. QED
    BY <2>1, <2>2, <2>3 DEF ShownLen
<1>3. QED
  BY <1>1, <1>2, SettingKinds

\* A setting as it is printed.
Equals == <<" ", "=", " ">>

LEMMA TextShape ==
  ASSUME NEW s, Printable(s)
  PROVE  /\ TextOf(s) \in Seq(Characters) /\ NameLen(s) \in Nat /\ NameLen(s) > 0
         /\ Len(TextOf(s)) = NameLen(s) + 3 + ShownLen(s)
         /\ Holds(TextOf(s), 0, s.name) /\ Holds(TextOf(s), NameLen(s), Equals)
         /\ Holds(TextOf(s), NameLen(s) + 3, Shown(s))
<1> DEFINE n == NameLen(s)
           v == Shown(s)
           m == ShownLen(s)
           a == s.name \o Equals
           t == TextOf(s)
<1>1. s.name \in Seq(Characters) /\ n \in Nat /\ n > 0 /\ Len(s.name) = n
  <2>1. s.name \in Seq(Word) /\ Len(s.name) \in Nat /\ Len(s.name) > 0
    BY SettingKinds
  <2>2. Word \subseteq Characters
    BY DEF Characters, Outside
  <2>3. s.name \in Seq(Characters)
    BY <2>1, <2>2
  <2>4. QED
    BY <2>1, <2>3 DEF NameLen
<1>2. Equals \in Seq(Characters) /\ Len(Equals) = 3
  BY Triple DEF Equals, Characters, Outside
<1>3. v \in Seq(Characters) /\ m \in Nat /\ Len(v) = m
  BY ShownKinds DEF ShownLen
<1>4. t = a \o v
  BY DEF TextOf, Shown, Quoted, Equals
<1> HIDE DEF n, v, m, t
<1>5. /\ a \in Seq(Characters) /\ Len(a) = n + 3
      /\ Holds(a, 0, s.name) /\ Holds(a, n, Equals)
  BY <1>1, <1>2, Beside
<1> HIDE DEF a
<1>6. /\ t \in Seq(Characters) /\ Len(t) = n + 3 + m
      /\ Holds(t, 0, a) /\ Holds(t, n + 3, v)
  BY <1>3, <1>4, <1>5, Beside
<1>7. /\ 0 + 0 = 0 /\ 0 + n = n /\ 0 + Len(s.name) <= Len(a) /\ n + Len(Equals) <= Len(a)
      /\ Len(a) \in Nat /\ Len(s.name) \in Nat /\ Len(Equals) \in Nat
  BY <1>1, <1>2, <1>5
<1>8. Holds(t, 0 + 0, s.name)
  BY <1>5, <1>6, <1>7, HeldWithin
<1>9. Holds(t, 0 + n, Equals)
  BY <1>1, <1>5, <1>6, <1>7, HeldWithin
<1>10. QED
  BY <1>1, <1>6, <1>7, <1>8, <1>9 DEF n, v, m, t

-----------------------------------------------------------------------------
\* A setting stands in the engine after position b, and a comma or nothing after it.
Stands(s, b) ==
  /\ Holds(engine, b, TextOf(s)) /\ b + Len(TextOf(s)) <= Len(engine)
  /\ At(b + Len(TextOf(s)) + 1) \in {",", "end"}

\* Where the value begins, and the character after it.
From(s, b)  == b + NameLen(s) + 4
After(s, b) == b + Len(TextOf(s)) + 1

LEMMA SettingStands ==
  ASSUME Len(engine) \in Nat, engine \in Seq(Everything), NEW s, Printable(s), NEW b \in Nat, Stands(s, b)
  PROVE  /\ NameLen(s) \in Nat /\ NameLen(s) > 0 /\ ShownLen(s) \in Nat /\ ShownLen(s) > 0
         /\ b + NameLen(s) + 3 + ShownLen(s) <= Len(engine)
         /\ After(s, b) = b + NameLen(s) + 4 + ShownLen(s)
         /\ Holds(engine, b, s.name)
         /\ At(b + NameLen(s) + 1) = " " /\ At(b + NameLen(s) + 2) = "="
         /\ At(b + NameLen(s) + 3) = " "
         /\ Holds(engine, b + NameLen(s) + 3, Shown(s))
<1> DEFINE n == NameLen(s)
           m == ShownLen(s)
           t == TextOf(s)
<1>1. /\ t \in Seq(Characters) /\ n \in Nat /\ n > 0 /\ Len(t) = n + 3 + m
      /\ Holds(t, 0, s.name) /\ Holds(t, n, Equals) /\ Holds(t, n + 3, Shown(s))
  BY TextShape
<1>2. m \in Nat /\ m > 0 /\ Len(Shown(s)) = m
  BY ShownKinds DEF ShownLen
<1>3. Len(s.name) = n /\ Len(Equals) = 3 /\ Equals[1] = " " /\ Equals[2] = "=" /\ Equals[3] = " "
  BY DEF NameLen, Equals
<1>4. Holds(engine, b, t) /\ b + Len(t) <= Len(engine) /\ After(s, b) = b + Len(t) + 1
  BY DEF Stands, After
<1> HIDE DEF n, m, t
<1>5. /\ b + (n + 3 + m) <= Len(engine) /\ After(s, b) = b + n + 4 + m
      /\ b + n + 3 + m <= Len(engine)
  BY <1>1, <1>2, <1>4
<1>6. /\ b + 0 = b /\ b + (n + 3) = b + n + 3 /\ 0 + n <= n + 3 + m /\ n + 3 \in Nat
      /\ n + 3 <= n + 3 + m /\ (n + 3) + m <= n + 3 + m /\ n + 3 + m \in Nat
  BY <1>1, <1>2
<1>16. /\ 0 + Len(s.name) <= Len(t) /\ n + Len(Equals) <= Len(t) /\ (n + 3) + Len(Shown(s)) <= Len(t)
       /\ Len(t) \in Nat /\ Len(s.name) \in Nat /\ Len(Equals) \in Nat /\ Len(Shown(s)) \in Nat
  <2>1. Len(t) = n + 3 + m /\ n \in Nat /\ m \in Nat
    BY <1>1, <1>2
  <2>2. Len(s.name) = n /\ Len(Equals) = 3 /\ Len(Shown(s)) = m
    BY <1>2, <1>3
  <2>3. QED
    BY <1>6, <2>1, <2>2
<1>7. Holds(engine, b + 0, s.name)
  BY <1>1, <1>4, <1>6, <1>16, HeldWithin
<1>8. Holds(engine, b + n, Equals)
  BY <1>1, <1>4, <1>6, <1>16, HeldWithin
<1>9. Holds(engine, b + (n + 3), Shown(s))
  BY <1>1, <1>4, <1>6, <1>16, HeldWithin
<1>10. \A k \in 1 .. 3 : engine[b + n + k] = Equals[k]
  BY <1>3, <1>8 DEF Holds
<1>11. 1 \in 1 .. 3 /\ 2 \in 1 .. 3 /\ 3 \in 1 .. 3
  OBVIOUS
<1>12. engine[b + n + 1] = " " /\ engine[b + n + 2] = "=" /\ engine[b + n + 3] = " "
  BY <1>3, <1>10, <1>11
<1>13. \A k \in 1 .. 3 : b + n + k \in DOMAIN engine
  BY <1>1, <1>2, <1>5
<1>14. At(b + n + 1) = " " /\ At(b + n + 2) = "=" /\ At(b + n + 3) = " "
  BY <1>11, <1>12, <1>13 DEF At
<1>15. QED
  BY <1>1, <1>2, <1>5, <1>6, <1>7, <1>9, <1>14 DEF n, m

\* No sign that the expression knows is a word.
LEMMA Signs ==
  /\ "2.5" \notin Word /\ "-" \notin Word /\ "=" \notin Word /\ "'" \notin Word
  /\ " " \notin Word /\ "," \notin Word /\ "end" \notin Word
  /\ " " \notin Outside /\ "," \notin Outside /\ "end" \notin Outside
BY WordAssumption DEF Outside

\* The value ends where it was printed to end.
LEMMA ValueEnds ==
  ASSUME engine \in Seq(Everything), NEW s, Printable(s), NEW b \in Nat, Stands(s, b)
  PROVE  ValueEnd(From(s, b)) = After(s, b) /\ At(From(s, b)) \notin {" "}
<1> DEFINE f == From(s, b)
           c == b + NameLen(s) + 3
           m == ShownLen(s)
<1>1. Len(engine) \in Nat /\ DOMAIN engine = 1 .. Len(engine)
  OBVIOUS
<1>2. /\ c \in Nat /\ f = c + 1 /\ After(s, b) = c + 1 + m /\ m \in Nat /\ m > 0
      /\ c + m <= Len(engine) /\ Holds(engine, c, Shown(s)) /\ Len(Shown(s)) = m
  <2> DEFINE n == NameLen(s)
  <2>1. /\ n \in Nat /\ m \in Nat /\ m > 0 /\ b + n + 3 + m <= Len(engine)
        /\ After(s, b) = b + n + 4 + m /\ Holds(engine, b + n + 3, Shown(s)) /\ f = b + n + 4
    BY <1>1, SettingStands DEF From
  <2>2. Len(Shown(s)) = m
    BY DEF ShownLen
  <2> HIDE DEF n, m, f
  <2>3. c = b + n + 3
    BY DEF n
  <2>4. c \in Nat /\ b + n + 4 = c + 1 /\ b + n + 4 + m = c + 1 + m
    BY <2>1, <2>3
  <2>5. QED
    BY <2>1, <2>2, <2>3, <2>4
<1>3. At(c + 1 + m) \in {",", "end"}
  BY <1>2 DEF Stands, After
<1> HIDE DEF f, c, m
<1>4. ASSUME NEW k \in 1 .. m
      PROVE  c + k \in 1 .. Len(engine) /\ engine[c + k] = Shown(s)[k] /\ At(c + k) = Shown(s)[k]
  <2>1. c + k \in 1 .. Len(engine)
    BY <1>1, <1>2
  <2>2. QED
    BY <1>1, <1>2, <2>1 DEF Holds, At
<1>5. 1 \in 1 .. m
  BY <1>2
<1>6. CASE s.quoted = TRUE
  <2> DEFINE n == ValueLen(s)
             closing == {j \in f + 1 .. Len(engine) : engine[j] = "'"}
  <2>1. /\ Shown(s) = Quoted(s) /\ n \in Nat /\ m = n + 2
        /\ Quoted(s)[1] = "'" /\ Quoted(s)[n + 2] = "'"
        /\ \A k \in 1 .. n : Quoted(s)[1 + k] = s.value[k]
    BY <1>2, <1>6, QuotedShape DEF Shown
  <2>2. \A k \in 1 .. n : s.value[k] # "'"
    <3>1. s.value \in Seq(Characters \ {"'"})
      BY SettingKinds
    <3>2. QED
      BY <3>1 DEF ValueLen
  <2> HIDE DEF n
  <2>3. At(f) = "'"
    BY <1>2, <1>4, <1>5, <2>1
  <2>4. c + m \in closing
    <3>1. m \in 1 .. m /\ c + m \in f + 1 .. Len(engine)
      BY <1>1, <1>2, <2>1
    <3>2. QED
      BY <1>4, <2>1, <3>1
  <2>5. ASSUME NEW j \in closing PROVE c + m <= j
    <3>1. SUFFICES ASSUME j < c + m PROVE FALSE
      BY <1>1, <1>2
    <3>2. j \in f + 1 .. Len(engine) /\ engine[j] = "'" /\ j \in Nat
      BY <1>1, <1>2
    <3>3. j - c \in 1 .. m /\ (j - c) - 1 \in 1 .. n /\ c + (j - c) = j /\ 1 + ((j - c) - 1) = j - c
      BY <1>1, <1>2, <2>1, <3>1, <3>2
    <3>4. engine[j] = Shown(s)[j - c]
      BY <1>4, <3>3
    <3>5. Shown(s)[j - c] = s.value[(j - c) - 1]
      BY <2>1, <3>3
    <3>6. QED
      BY <2>2, <3>2, <3>3, <3>4, <3>5
  <2>6. closing \in SUBSET Nat
    BY <1>1, <1>2
  <2>7. Least(closing) = c + m
    BY <2>4, <2>5, <2>6, LeastIs
  <2>8. ValueEnd(f) = c + m + 1
    BY <2>3, <2>4, <2>7 DEF ValueEnd
  <2>9. c + m + 1 = c + 1 + m
    BY <1>2
  <2>10. QED
    BY <1>2, <2>3, <2>8, <2>9 DEF f
<1>7. CASE s.quoted = FALSE
  <2>1. Shown(s) = s.value /\ s.value \in Seq(Outside \ {"'"})
    BY <1>7, SettingKinds DEF Shown
  <2>2. \A k \in 1 .. m : Shown(s)[k] \in Outside \ {"'"}
    BY <1>2, <2>1
  <2>3. At(f) \in Outside /\ At(f) # "'"
    BY <1>2, <1>4, <1>5, <2>2
  <2>4. ASSUME NEW k \in f .. (c + 1 + m) - 1 PROVE At(k) \in Outside
    <3>1. k - c \in 1 .. m /\ c + (k - c) = k
      BY <1>2
    <3>2. QED
      BY <1>4, <2>2, <3>1
  <2>5. At(c + 1 + m) \notin Outside
    BY <1>3, Signs
  <2>6. f \in Nat \ {0} /\ c + 1 + m \in f .. Len(engine) + 1
    BY <1>1, <1>2
  <2>7. EndOf(f, Outside) = c + 1 + m
    BY <1>1, <2>4, <2>5, <2>6, EndOfIs
  <2>8. ValueEnd(f) = EndOf(f, Outside)
    BY <2>3 DEF ValueEnd
  <2>9. QED
    BY <1>2, <2>3, <2>7, <2>8, Signs DEF f
<1>8. QED
  BY <1>6, <1>7, SettingKinds

\* At a setting the expression matches, and what it finds is the setting.
LEMMA MatchHere ==
  ASSUME engine \in Seq(Everything), NEW s, Printable(s), NEW b \in Nat, Stands(s, b)
  PROVE  /\ Matches(b + 1) /\ ValueAt(b + 1) = From(s, b) /\ ValueEnd(From(s, b)) = After(s, b)
         /\ SubSeq(engine, b + 1, EndOf(b + 1, Word) - 1) = s.name
         /\ Trim(SubSeq(engine, From(s, b), After(s, b) - 1)) = s.value
<1> DEFINE n == NameLen(s)
           m == ShownLen(s)
           f == b + n + 4
<1>1. Len(engine) \in Nat /\ DOMAIN engine = 1 .. Len(engine)
  OBVIOUS
<1> DEFINE L == Len(engine)
<1>2. /\ n \in Nat /\ n > 0 /\ m \in Nat /\ m > 0 /\ b + n + 3 + m <= L /\ L \in Nat
      /\ After(s, b) = f + m /\ From(s, b) = f
      /\ Holds(engine, b, s.name) /\ Holds(engine, b + n + 3, Shown(s))
      /\ At(b + n + 1) = " " /\ At(b + n + 2) = "=" /\ At(b + n + 3) = " "
  BY <1>1, SettingStands DEF From
<1>3. s.name \in Seq(Word) /\ Len(s.name) = n
  BY SettingKinds DEF NameLen
<1>4. Shown(s) \in Seq(Characters) /\ Len(Shown(s)) = m
  BY ShownKinds DEF ShownLen
<1>5. ValueEnd(f) = f + m /\ At(f) \notin {" "}
  BY <1>2, ValueEnds
<1> HIDE DEF n, m, f, L
<1>6. f = b + n + 4 /\ L = Len(engine)
  BY DEF f, L
<1> DEFINE Numbers == n \in Nat /\ n > 0 /\ m \in Nat /\ m > 0 /\ b + n + 3 + m <= L /\ L \in Nat /\ f = b + n + 4
<1>18. Numbers
  BY <1>2, <1>6
<1> HIDE DEF Numbers
<1>7. ASSUME NEW k \in b + 1 .. (b + n + 1) - 1 PROVE At(k) \in Word
  <2>1. k - b \in 1 .. n /\ b + (k - b) = k /\ k \in 1 .. L
    BY <1>18 DEF Numbers
  <2>2. At(k) = engine[k]
    BY <1>1, <1>6, <2>1 DEF At
  <2>3. engine[b + (k - b)] = s.name[k - b]
    BY <1>2, <1>3, <2>1 DEF Holds
  <2>4. s.name[k - b] \in Word
    BY <1>3, <2>1
  <2>5. QED
    BY <2>1, <2>2, <2>3, <2>4
<1>8. EndOf(b + 1, Word) = b + n + 1
  <2>1. b + 1 \in Nat \ {0} /\ b + n + 1 \in b + 1 .. L + 1
    BY <1>18 DEF Numbers
  <2>2. At(b + n + 1) \notin Word
    BY <1>2, Signs
  <2>3. QED
    BY <1>1, <1>6, <1>7, <2>1, <2>2, EndOfIs
<1>9. EndOf(b + n + 1, {" "}) = b + n + 2
  <2>1. /\ b + n + 1 \in Nat \ {0} /\ b + n + 2 \in b + n + 1 .. L + 1
        /\ \A k \in b + n + 1 .. (b + n + 2) - 1 : k = b + n + 1
    BY <1>18 DEF Numbers
  <2>2. /\ At(b + n + 2) \notin {" "}
        /\ \A k \in b + n + 1 .. (b + n + 2) - 1 : At(k) \in {" "}
    BY <1>2, <2>1
  <2>3. QED
    BY <1>1, <1>6, <2>1, <2>2, EndOfIs
<1>10. Sign(b + 1) = b + n + 2
  BY <1>8, <1>9 DEF Sign
<1>11. EndOf(b + n + 3, {" "}) = f
  <2>1. /\ b + n + 3 \in Nat \ {0} /\ f \in b + n + 3 .. L + 1
        /\ \A k \in b + n + 3 .. f - 1 : k = b + n + 3
    BY <1>18 DEF Numbers
  <2>2. \A k \in b + n + 3 .. f - 1 : At(k) \in {" "}
    BY <1>2, <2>1
  <2>3. QED
    BY <1>1, <1>5, <1>6, <2>1, <2>2, EndOfIs
<1>12. ValueAt(b + 1) = f
  <2>1. (b + n + 2) + 1 = b + n + 3
    BY <1>18 DEF Numbers
  <2>2. QED
    BY <1>10, <1>11, <2>1 DEF ValueAt
<1>13. Matches(b + 1)
  <2>1. b + 1 \in b + 1 .. (b + n + 1) - 1 /\ f + m > f
    BY <1>18 DEF Numbers
  <2>2. At(b + 1) \in Word
    BY <1>7, <2>1
  <2>3. QED
    BY <1>2, <1>5, <1>10, <1>12, <2>1, <2>2 DEF Matches
<1>14. SubSeq(engine, b + 1, EndOf(b + 1, Word) - 1) = s.name
  <2>1. s.name \in Seq(Everything)
    <3>1. Word \subseteq Everything
      BY DEF Everything, Characters, Outside
    <3>2. QED
      BY <1>3, <3>1
  <2>5. (b + n + 1) - 1 = b + n /\ b + n <= L
    BY <1>18 DEF Numbers
  <2>2. (b + n + 1) - 1 = b + Len(s.name) /\ b + Len(s.name) <= Len(engine)
    BY <1>3, <1>6, <2>5
  <2>3. SubSeq(engine, b + 1, b + Len(s.name)) = s.name
    BY <1>2, <2>1, <2>2, HeldIs
  <2>4. QED
    BY <1>8, <2>2, <2>3
<1>15. SubSeq(engine, f, (f + m) - 1) = Shown(s)
  <2> DEFINE c == b + n + 3
  <2>1. Shown(s) \in Seq(Everything)
    BY <1>4 DEF Everything
  <2>6. c \in Nat /\ f = c + 1 /\ (f + m) - 1 = c + m /\ c + m <= L
    BY <1>18 DEF Numbers
  <2>2. c \in Nat /\ f = c + 1 /\ (f + m) - 1 = c + Len(Shown(s)) /\ c + Len(Shown(s)) <= Len(engine)
    BY <1>4, <1>6, <2>6
  <2>3. Holds(engine, c, Shown(s))
    BY <1>2
  <2> HIDE DEF c
  <2>4. SubSeq(engine, c + 1, c + Len(Shown(s))) = Shown(s)
    BY <2>1, <2>2, <2>3, HeldIs
  <2>5. QED
    BY <2>2, <2>4
<1>16. Trim(Shown(s)) = s.value
  <2>1. CASE s.quoted = TRUE
    <3>1. s.value \in Seq(Characters \ {"'"}) /\ "'" \notin Characters \ {"'"}
      BY SettingKinds
    <3>2. Trim(<<"'">> \o s.value \o <<"'">>) = s.value
      BY <3>1, TrimQuoted
    <3>3. QED
      BY <2>1, <3>2 DEF Shown, Quoted
  <2>2. CASE s.quoted = FALSE
    <3>1. s.value \in Seq(Outside \ {"'"}) /\ s.value # <<>> /\ "'" \notin Outside \ {"'"}
      <4>1. s.value \in Seq(Outside \ {"'"}) /\ Len(s.value) > 0
        BY <2>2, SettingKinds
      <4>2. QED
        BY <4>1
    <3>2. Trim(s.value) = s.value
      BY <3>1, TrimPlain
    <3>3. QED
      BY <2>2, <3>2 DEF Shown
  <2>3. QED
    BY <2>1, <2>2, SettingKinds
<1>17. QED
  BY <1>2, <1>5, <1>12, <1>13, <1>14, <1>15, <1>16

-----------------------------------------------------------------------------
(***************************************************************************)
(* The text of a clause, setting by setting.                               *)
(***************************************************************************)
Longer(a, n, s) == a \o Mark(n) \o TextOf(s)

IsText(g, c, m) ==
  g = [n \in 0 .. m |-> IF n = 0 THEN <<>> ELSE g[n - 1] \o Mark(n) \o TextOf(c[n])]

LEMMA TextExists ==
  ASSUME NEW c, NEW N \in Nat
  PROVE  \E g : IsText(g, c, N)
<1> DEFINE Lacks == {m \in Nat : ~\E g : IsText(g, c, m)}
<1> SUFFICES ASSUME Lacks # {} PROVE FALSE
  OBVIOUS
<1>1. PICK m \in Lacks : \A k \in Lacks : m <= k
  BY LeastNumber
<1>2. m # 0
  <2>1. IsText([n \in 0 .. 0 |-> <<>>], c, 0)
    BY DEF IsText
  <2>2. QED
    BY <1>1, <2>1
<1>3. PICK g : IsText(g, c, m - 1)
  <2>1. m - 1 \in Nat /\ ~(m <= m - 1)
    BY <1>2
  <2>2. QED
    BY <1>1, <2>1
<1> DEFINE f == [n \in 0 .. m |-> IF n = m THEN Longer(g[m - 1], m, c[m]) ELSE g[n]]
<1>4. ASSUME NEW n \in 0 .. m
      PROVE  f[n] = IF n = 0 THEN <<>> ELSE f[n - 1] \o Mark(n) \o TextOf(c[n])
  <2>1. CASE n = m
    <3>1. n - 1 \in 0 .. m /\ n - 1 # m /\ n # 0
      BY <1>2, <2>1
    <3>2. f[n - 1] = g[m - 1] /\ f[n] = Longer(g[m - 1], m, c[m])
      BY <2>1, <3>1
    <3>3. QED
      BY <2>1, <3>1, <3>2 DEF Longer
  <2>2. CASE n # m
    <3>1. n \in 0 .. m - 1 /\ (n # 0 => n - 1 \in 0 .. m /\ n - 1 # m)
      BY <1>2, <2>2
    <3>2. f[n] = g[n] /\ (n # 0 => f[n - 1] = g[n - 1])
      BY <2>2, <3>1
    <3>3. g[n] = IF n = 0 THEN <<>> ELSE g[n - 1] \o Mark(n) \o TextOf(c[n])
      BY <1>3, <3>1 DEF IsText
    <3>4. QED
      BY <3>2, <3>3
  <2>3. QED
    BY <2>1, <2>2
<1>5. f = [n \in 0 .. m |-> f[n]]
  OBVIOUS
<1> HIDE DEF f
<1>6. IsText(f, c, m)
  BY <1>4, <1>5 DEF IsText
<1>7. QED
  BY <1>1, <1>6

LEMMA ClauseTextIs ==
  ASSUME NEW c, Len(c) \in Nat
  PROVE  \E g : IsText(g, c, Len(c)) /\ ClauseText(c) = g[Len(c)]
<1> DEFINE g == CHOOSE g : g = [n \in 0 .. Len(c) |->
                   IF n = 0 THEN <<>> ELSE g[n - 1] \o Mark(n) \o TextOf(c[n])]
<1>1. IsText(g, c, Len(c))
  BY TextExists DEF IsText
<1>2. ClauseText(c) = g[Len(c)]
  BY DEF ClauseText
<1>3. QED
  BY <1>1, <1>2

MarkLen(n) == Len(Mark(n))

LEMMA MarkIs ==
  ASSUME NEW n \in Nat \ {0}
  PROVE  /\ Mark(n) \in Seq(Everything) /\ MarkLen(n) \in Nat
         /\ n = 1 => MarkLen(n) = 3 /\ Mark(n) = Keyword
         /\ n # 1 => MarkLen(n) = 2 /\ Mark(n)[1] = "," /\ Mark(n)[2] = " "
<1>1. " " \in Everything /\ "SETTINGS" \in Everything /\ "," \in Everything
  BY DEF Everything, Characters
<1>2. Keyword \in Seq(Everything) /\ Len(Keyword) = 3
  BY <1>1, Triple DEF Keyword
<1>3. <<",", " ">> \in Seq(Everything) /\ Len(<<",", " ">>) = 2
  BY <1>1, Double
<1>4. CASE n = 1
  BY <1>2, <1>4 DEF Mark, MarkLen
<1>5. CASE n # 1
  BY <1>3, <1>5 DEF Mark, MarkLen
<1>6. QED
  BY <1>4, <1>5

\* The lengths of a text and of a printed setting.
Size(t)     == Len(t)
TextLen(s)  == Len(TextOf(s))

\* After n settings: the text before, the mark and the setting.
PrintedAfter(t, u, n, s) ==
  /\ Size(t) = Size(u) + MarkLen(n) + TextLen(s)
  /\ Holds(t, 0, u) /\ Holds(t, Size(u), Mark(n)) /\ Holds(t, Size(u) + MarkLen(n), TextOf(s))

LEMMA LongerIs ==
  ASSUME NEW u \in Seq(Everything), NEW n \in Nat \ {0}, NEW s, Printable(s)
  PROVE  /\ Longer(u, n, s) \in Seq(Everything) /\ PrintedAfter(Longer(u, n, s), u, n, s)
         /\ Size(u) \in Nat /\ MarkLen(n) \in Nat /\ TextLen(s) \in Nat
<1> DEFINE m == Mark(n)
           t == TextOf(s)
           a == u \o m
           w == a \o t
           U == Size(u)
           M == MarkLen(n)
           T == TextLen(s)
<1>1. m \in Seq(Everything) /\ Len(m) = M /\ M \in Nat
  BY MarkIs DEF MarkLen
<1>2. t \in Seq(Everything) /\ Len(t) = T /\ T \in Nat
  <2>1. t \in Seq(Characters)
    BY TextShape
  <2>2. Characters \subseteq Everything
    BY DEF Everything
  <2>3. t \in Seq(Everything)
    BY <2>1, <2>2
  <2>4. QED
    BY <2>3 DEF TextLen
<1>3. Longer(u, n, s) = w /\ Len(u) = U /\ U \in Nat
  BY DEF Longer, Size
<1> HIDE DEF m, t, U, M, T
<1>4. a \in Seq(Everything) /\ Len(a) = U + M /\ Holds(a, 0, u) /\ Holds(a, U, m)
  <2>1. a \in Seq(Everything) /\ Len(a) = Len(u) + Len(m) /\ Holds(a, 0, u) /\ Holds(a, Len(u), m)
    BY <1>1, Beside
  <2> HIDE DEF a
  <2>2. QED
    BY <1>1, <1>3, <2>1
<1> HIDE DEF a
<1>5. /\ w \in Seq(Everything) /\ Len(w) = U + M + T /\ Holds(w, 0, a) /\ Holds(w, U + M, t)
  <2>1. w \in Seq(Everything) /\ Len(w) = Len(a) + Len(t) /\ Holds(w, 0, a) /\ Holds(w, Len(a), t)
    BY <1>2, <1>4, Beside
  <2> HIDE DEF w
  <2>2. QED
    BY <1>2, <1>4, <2>1
<1> HIDE DEF w
<1>6. 0 + 0 = 0 /\ 0 + U = U /\ 0 + U <= U + M /\ U + M <= U + M /\ U + M \in Nat
  BY <1>1, <1>3
<1>7. /\ 0 + Len(u) <= Len(a) /\ U + Len(m) <= Len(a)
      /\ Len(a) \in Nat /\ Len(u) \in Nat /\ Len(m) \in Nat
  BY <1>1, <1>3, <1>4, <1>6
<1>8. Holds(w, 0 + 0, u)
  BY <1>4, <1>5, <1>7, HeldWithin
<1>9. Holds(w, 0 + U, m)
  BY <1>3, <1>4, <1>5, <1>7, HeldWithin
<1>10. PrintedAfter(w, u, n, s)
  BY <1>5, <1>6, <1>8, <1>9 DEF PrintedAfter, Size, m, t, U, M, T
<1>11. QED
  BY <1>1, <1>2, <1>3, <1>5, <1>10 DEF U, M, T

\* The texts along the way.
AllPrintable(c) == \A i \in 1 .. Len(c) : Printable(c[i])

LEMMA TextsAre ==
  ASSUME NEW c, Len(c) \in Nat, AllPrintable(c), NEW g, IsText(g, c, Len(c))
  PROVE  /\ g[0] = <<>>
         /\ \A n \in 0 .. Len(c) : g[n] \in Seq(Everything) /\ Size(g[n]) \in Nat
         /\ \A n \in 1 .. Len(c) : PrintedAfter(g[n], g[n - 1], n, c[n])
<1> DEFINE N == Len(c)
<1>1. g[0] = <<>> /\ \A n \in 1 .. N : g[n] = Longer(g[n - 1], n, c[n])
  BY DEF IsText, Longer
<1>2. \A n \in 1 .. N : Printable(c[n])
  BY DEF AllPrintable
<1>8. N \in Nat
  OBVIOUS
<1> HIDE DEF N
<1> DEFINE Bad == {n \in 0 .. N : g[n] \notin Seq(Everything)}
<1>3. Bad = {}
  <2> SUFFICES ASSUME Bad # {} PROVE FALSE
    OBVIOUS
  <2>1. Bad \in SUBSET Nat
    OBVIOUS
  <2>2. PICK m \in Bad : \A k \in Bad : m <= k
    BY <2>1, LeastNumber
  <2>3. m # 0 /\ m \in 0 .. N
    <3>1. <<>> \in Seq(Everything) /\ m \in 0 .. N /\ g[m] \notin Seq(Everything)
      BY <2>2
    <3>2. QED
      BY <1>1, <3>1
  <2>4. m - 1 \in 0 .. N /\ ~(m <= m - 1) /\ m \in 1 .. N /\ m \in Nat \ {0}
    BY <1>8, <2>3
  <2>5. g[m - 1] \in Seq(Everything)
    BY <2>2, <2>4
  <2>6. g[m] = Longer(g[m - 1], m, c[m])
    BY <1>1, <2>4
  <2>7. g[m] \in Seq(Everything)
    BY <1>2, <2>4, <2>5, <2>6, LongerIs
  <2>8. QED
    BY <2>2, <2>7
<1>4. \A n \in 0 .. N : g[n] \in Seq(Everything)
  BY <1>3
<1>5. \A n \in 0 .. N : Size(g[n]) \in Nat
  BY <1>4 DEF Size
<1>6. ASSUME NEW n \in 1 .. N PROVE PrintedAfter(g[n], g[n - 1], n, c[n])
  <2>1. n - 1 \in 0 .. N /\ n \in Nat \ {0}
    BY <1>8
  <2>2. QED
    BY <1>1, <1>2, <1>4, <2>1, LongerIs
<1>7. QED
  BY <1>1, <1>4, <1>5, <1>6 DEF N

\* Every text along the way begins the last one.
Begins(u, t) == Holds(t, 0, u) /\ Size(u) <= Size(t)

LEMMA TextsBegin ==
  ASSUME NEW c, Len(c) \in Nat, AllPrintable(c), NEW g, IsText(g, c, Len(c)), NEW n \in 0 .. Len(c)
  PROVE  Begins(g[n], g[Len(c)])
<1> DEFINE N == Len(c)
           Bad == {m \in 0 .. N : ~\A i \in 0 .. m : Begins(g[i], g[m])}
<1>1. /\ \A i \in 0 .. N : Size(g[i]) \in Nat
      /\ \A m \in 1 .. N : PrintedAfter(g[m], g[m - 1], m, c[m])
  BY TextsAre
<1>2. N \in Nat /\ \A m \in 1 .. N : Printable(c[m])
  BY DEF AllPrintable
<1> HIDE DEF N
<1>3. Bad = {}
  <2> SUFFICES ASSUME Bad # {} PROVE FALSE
    OBVIOUS
  <2>1. Bad \in SUBSET Nat
    BY <1>2
  <2>2. PICK m \in Bad : \A k \in Bad : m <= k
    BY <2>1, LeastNumber
  <2>3. m \in 0 .. N /\ m \in Nat
    BY <1>2, <2>2
  <2>4. PICK i \in 0 .. m : ~Begins(g[i], g[m])
    BY <2>2
  <2>5. i # m
    <3>1. Begins(g[m], g[m])
      BY <1>1, <2>3 DEF Begins, Holds, Size
    <3>2. QED
      BY <2>4, <3>1
  <2>6. /\ m \in 1 .. N /\ m - 1 \in 0 .. N /\ ~(m <= m - 1) /\ i \in 0 .. m - 1 /\ i \in 0 .. N
        /\ m \in Nat \ {0}
    BY <1>2, <2>3, <2>4, <2>5
  <2>7. Begins(g[i], g[m - 1])
    BY <2>2, <2>6
  <2>8. PrintedAfter(g[m], g[m - 1], m, c[m]) /\ MarkLen(m) \in Nat /\ TextLen(c[m]) \in Nat
    <3>1. TextLen(c[m]) \in Nat
      <4>1. TextOf(c[m]) \in Seq(Characters)
        BY <1>2, <2>6, TextShape
      <4>2. QED
        BY <4>1 DEF TextLen
    <3>2. QED
      BY <1>1, <2>6, <3>1, MarkIs
  <2>9. Size(g[i]) <= Size(g[m - 1]) /\ Size(g[m - 1]) <= Size(g[m])
    <3>1. Size(g[m]) = Size(g[m - 1]) + MarkLen(m) + TextLen(c[m])
      BY <2>8 DEF PrintedAfter
    <3>2. Size(g[m - 1]) \in Nat
      BY <1>1, <2>6
    <3>3. QED
      BY <2>7, <2>8, <3>1, <3>2 DEF Begins
  <2>10. Size(g[i]) \in Nat /\ Size(g[m - 1]) \in Nat /\ Size(g[m]) \in Nat
    BY <1>1, <2>3, <2>6
  <2>11. Holds(g[m], 0 + 0, g[i])
    <3>1. Holds(g[m], 0, g[m - 1]) /\ Holds(g[m - 1], 0, g[i])
      BY <2>7, <2>8 DEF Begins, PrintedAfter
    <3>2. /\ 0 + Size(g[i]) <= Size(g[m - 1])
      BY <2>9, <2>10
    <3>3. QED
      BY <2>10, <3>1, <3>2, HeldWithin DEF Size
  <2>12. Begins(g[i], g[m])
    <3>1. Size(g[i]) <= Size(g[m])
      BY <2>9, <2>10
    <3>2. QED
      BY <2>11, <3>1 DEF Begins
  <2>13. QED
    BY <2>4, <2>12
<1>4. N \in 0 .. N /\ n \in 0 .. N
  BY <1>2 DEF N
<1>5. QED
  BY <1>3, <1>4 DEF N

\* The word that begins a clause is nowhere in a printed setting.
LEMMA TextClean ==
  ASSUME NEW s, Printable(s), NEW k \in 1 .. TextLen(s)
  PROVE  TextOf(s)[k] # "SETTINGS"
<1> DEFINE t == TextOf(s)
           n == NameLen(s)
           m == ShownLen(s)
<1>1. /\ n \in Nat /\ n > 0 /\ TextLen(s) = n + 3 + m
      /\ Holds(t, 0, s.name) /\ Holds(t, n, Equals) /\ Holds(t, n + 3, Shown(s))
  BY TextShape DEF TextLen
<1>2. m \in Nat /\ Len(Shown(s)) = m /\ Len(s.name) = n
  BY ShownKinds DEF ShownLen, NameLen
<1>3. \A i \in 1 .. n : s.name[i] # "SETTINGS"
  BY SettingKinds DEF NameLen
<1>4. \A i \in 1 .. m : Shown(s)[i] # "SETTINGS"
  <2>1. \A i \in 1 .. ValueLen(s) : s.value[i] # "SETTINGS"
    BY SettingKinds DEF ValueLen
  <2>2. CASE s.quoted = FALSE
    BY <2>1, <2>2 DEF Shown, ShownLen, ValueLen
  <2>3. CASE s.quoted = TRUE
    <3> DEFINE v == ValueLen(s)
    <3>1. /\ Shown(s) = Quoted(s) /\ m = v + 2 /\ v \in Nat
          /\ Quoted(s)[1] = "'" /\ Quoted(s)[v + 2] = "'"
          /\ \A i \in 1 .. v : Quoted(s)[1 + i] = s.value[i]
      BY <2>3, QuotedShape DEF Shown, ShownLen
    <3> HIDE DEF v, m
    <3>2. SUFFICES ASSUME NEW i \in 1 .. v + 2 PROVE Quoted(s)[i] # "SETTINGS"
      BY <3>1
    <3>3. i = 1 \/ i = v + 2 \/ (i - 1 \in 1 .. v /\ 1 + (i - 1) = i)
      BY <3>1
    <3>4. QED
      BY <2>1, <3>1, <3>3 DEF v
  <2>4. QED
    BY <2>2, <2>3, SettingKinds
<1>5. Len(Equals) = 3 /\ \A i \in 1 .. 3 : Equals[i] # "SETTINGS"
  <2>1. Len(Equals) = 3 /\ Equals[1] = " " /\ Equals[2] = "=" /\ Equals[3] = " "
    BY DEF Equals
  <2>2. \A i \in 1 .. 3 : i = 1 \/ i = 2 \/ i = 3
    OBVIOUS
  <2>3. QED
    BY <2>1, <2>2
<1> HIDE DEF t, n, m
<1>6. CASE k <= n
  <2>1. k \in 1 .. n /\ 0 + k = k
    BY <1>1, <1>6
  <2>2. t[0 + k] = s.name[k]
    BY <1>1, <1>2, <2>1 DEF Holds
  <2>3. QED
    BY <1>3, <2>1, <2>2 DEF t
<1>7. CASE k > n /\ k <= n + 3
  <2>1. k - n \in 1 .. 3 /\ n + (k - n) = k
    BY <1>1, <1>7
  <2>2. t[n + (k - n)] = Equals[k - n]
    BY <1>1, <1>5, <2>1 DEF Holds
  <2>3. QED
    BY <1>5, <2>1, <2>2 DEF t
<1>8. CASE k > n + 3
  <2>1. k - (n + 3) \in 1 .. m /\ (n + 3) + (k - (n + 3)) = k
    BY <1>1, <1>2, <1>8
  <2>2. t[(n + 3) + (k - (n + 3))] = Shown(s)[k - (n + 3)]
    BY <1>1, <1>2, <2>1 DEF Holds
  <2>3. QED
    BY <1>4, <2>1, <2>2 DEF t
<1>9. QED
  BY <1>1, <1>6, <1>7, <1>8

\* Nor is it again in a clause.
Clean(t) == \A k \in 3 .. Size(t) : t[k] # "SETTINGS"

LEMMA TextsClean ==
  ASSUME NEW c, Len(c) \in Nat, AllPrintable(c), NEW g, IsText(g, c, Len(c)), NEW n \in 0 .. Len(c)
  PROVE  Clean(g[n])
<1> DEFINE N == Len(c)
           Bad == {m \in 0 .. N : ~Clean(g[m])}
<1>1. /\ g[0] = <<>> /\ \A i \in 0 .. N : Size(g[i]) \in Nat
      /\ \A m \in 1 .. N : PrintedAfter(g[m], g[m - 1], m, c[m])
  BY TextsAre
<1>2. N \in Nat /\ \A m \in 1 .. N : Printable(c[m])
  BY DEF AllPrintable
<1> HIDE DEF N
<1>3. Bad = {}
  <2> SUFFICES ASSUME Bad # {} PROVE FALSE
    OBVIOUS
  <2>1. Bad \in SUBSET Nat
    BY <1>2
  <2>2. PICK m \in Bad : \A k \in Bad : m <= k
    BY <2>1, LeastNumber
  <2>3. m \in 0 .. N /\ m \in Nat /\ ~Clean(g[m])
    BY <1>2, <2>2
  <2>4. m # 0
    <3>1. Size(g[0]) = 0
      BY <1>1 DEF Size
    <3>2. Clean(g[0])
      BY <3>1 DEF Clean
    <3>3. QED
      BY <2>3, <3>2
  <2>5. m \in 1 .. N /\ m - 1 \in 0 .. N /\ ~(m <= m - 1) /\ m \in Nat \ {0}
    BY <1>2, <2>3, <2>4
  <2>6. Clean(g[m - 1]) /\ Size(g[m - 1]) \in Nat
    BY <1>1, <2>2, <2>5
  <2> DEFINE U == Size(g[m - 1])
             M == MarkLen(m)
             T == TextLen(c[m])
  <2>7. /\ Size(g[m]) = U + M + T /\ Holds(g[m], 0, g[m - 1]) /\ Holds(g[m], U, Mark(m))
        /\ Holds(g[m], U + M, TextOf(c[m]))
    BY <1>1, <2>5 DEF PrintedAfter
  <2>8. /\ U \in Nat /\ M \in Nat /\ Len(g[m - 1]) = U /\ Len(Mark(m)) = M /\ Len(TextOf(c[m])) = T
        /\ m = 1 => M = 3 /\ Mark(m)[3] = " "
        /\ m # 1 => M = 2 /\ Mark(m)[1] = "," /\ Mark(m)[2] = " "
        /\ m = 1 => U = 0
    <3>1. m = 1 => U = 0
      BY <1>1 DEF Size
    <3>2. Keyword[3] = " "
      BY DEF Keyword
    <3>3. QED
      BY <2>5, <2>6, <3>1, <3>2, MarkIs DEF Size, MarkLen, TextLen
  <2>9. T \in Nat
    <3>1. TextOf(c[m]) \in Seq(Characters)
      BY <1>2, <2>5, TextShape
    <3>2. QED
      BY <3>1 DEF TextLen
  <2>10. PICK k \in 3 .. U + M + T : g[m][k] = "SETTINGS"
    BY <2>3, <2>7 DEF Clean
  <2> HIDE DEF U, M, T
  <2>15. U \in Nat /\ M \in Nat /\ T \in Nat /\ k \in 3 .. U + M + T
    BY <2>8, <2>9, <2>10
  <2>16. (m = 1 /\ M = 3 /\ U = 0) \/ (m # 1 /\ M = 2)
    BY <2>8
  <2>11. CASE k <= U
    <3>1. k \in 1 .. U /\ k \in 3 .. U /\ 0 + k = k
      BY <2>15, <2>11
    <3>2. g[m][0 + k] = g[m - 1][k]
      BY <2>7, <2>8, <3>1 DEF Holds
    <3>3. QED
      BY <2>6, <2>10, <3>1, <3>2 DEF Clean, U
  <2>12. CASE k > U /\ k <= U + M
    <3>1. k - U \in 1 .. M /\ U + (k - U) = k
      BY <2>15, <2>12
    <3>2. g[m][U + (k - U)] = Mark(m)[k - U]
      BY <2>7, <2>8, <3>1 DEF Holds
    <3>3. \/ m = 1 /\ k - U = 3
          \/ m # 1 /\ (k - U = 1 \/ k - U = 2)
      BY <2>15, <2>16, <3>1
    <3>4. QED
      BY <2>8, <2>10, <3>1, <3>2, <3>3
  <2>13. CASE k > U + M
    <3>1. k - (U + M) \in 1 .. T /\ (U + M) + (k - (U + M)) = k
      BY <2>15, <2>13
    <3>2. g[m][(U + M) + (k - (U + M))] = TextOf(c[m])[k - (U + M)]
      BY <2>7, <2>8, <3>1 DEF Holds
    <3>3. TextOf(c[m])[k - (U + M)] # "SETTINGS"
      BY <1>2, <2>5, <3>1, TextClean DEF T
    <3>4. QED
      BY <2>10, <3>1, <3>2, <3>3
  <2>14. QED
    BY <2>15, <2>11, <2>12, <2>13
<1>4. n \in 0 .. N
  BY DEF N
<1>5. QED
  BY <1>3, <1>4

-----------------------------------------------------------------------------
(***************************************************************************)
(* Where the settings stand in the engine.                                 *)
(***************************************************************************)
\* Setting n stands after position b[n], and the next one after a comma and a space.
Layout(c, b) ==
  /\ \A n \in 1 .. Len(c) : b[n] \in Nat /\ Stands(c[n], b[n])
  /\ \A n \in 1 .. Len(c) - 1 :
       /\ b[n + 1] = After(c[n], b[n]) + 1
       /\ At(After(c[n], b[n])) = "," /\ At(After(c[n], b[n]) + 1) = " "
  /\ Len(c) > 0 => After(c[Len(c)], b[Len(c)]) = Len(engine) + 1

\* The mark and the text of setting n in the engine, after l characters of a definition.
SettingAt(c, g, l, n) ==
  /\ Holds(engine, l + Size(g[n - 1]), Mark(n))
  /\ Holds(engine, l + Size(g[n - 1]) + MarkLen(n), TextOf(c[n]))
  /\ Size(g[n]) = Size(g[n - 1]) + MarkLen(n) + TextLen(c[n])
  /\ Size(g[n - 1]) \in Nat /\ Size(g[n]) \in Nat /\ MarkLen(n) \in Nat /\ TextLen(c[n]) \in Nat
  /\ l + Size(g[n]) <= Len(engine)

LEMMA EngineHolds ==
  ASSUME NEW c, Len(c) \in Nat, AllPrintable(c), NEW g, IsText(g, c, Len(c)),
         NEW d \in Seq(Characters), engine = d \o g[Len(c)]
  PROVE  /\ engine \in Seq(Everything) /\ Size(d) \in Nat /\ Holds(engine, 0, d)
         /\ Len(engine) = Size(d) + Size(g[Len(c)]) /\ Holds(engine, Size(d), g[Len(c)])
         /\ \A n \in 1 .. Len(c) : SettingAt(c, g, Size(d), n)
<1> DEFINE N == Len(c)
           D == Size(d)
<1>1. /\ \A n \in 0 .. N : g[n] \in Seq(Everything) /\ Size(g[n]) \in Nat
      /\ \A n \in 1 .. N : PrintedAfter(g[n], g[n - 1], n, c[n])
  BY TextsAre
<1>2. \A n \in 0 .. N : Begins(g[n], g[N])
  BY TextsBegin
<1>3. \A n \in 1 .. N : Printable(c[n])
  BY DEF AllPrintable
<1>4. N \in Nat
  OBVIOUS
<1> HIDE DEF N
<1>5. d \in Seq(Everything) /\ D \in Nat /\ Len(d) = D
  <2>1. Characters \subseteq Everything
    BY DEF Everything
  <2>2. d \in Seq(Everything)
    BY <2>1
  <2>3. QED
    BY <2>2 DEF Size
<1> HIDE DEF D
<1>6. N \in 0 .. N /\ g[N] \in Seq(Everything)
  BY <1>1, <1>4
<1>7. /\ engine \in Seq(Everything) /\ Len(engine) = D + Size(g[N])
      /\ Holds(engine, D, g[N]) /\ Holds(engine, 0, d)
  <2>1. engine = d \o g[N]
    BY DEF N
  <2>2. QED
    BY <1>5, <1>6, <2>1, Beside DEF Size
<1>8. ASSUME NEW n \in 1 .. N PROVE SettingAt(c, g, D, n)
  <2> DEFINE U == Size(g[n - 1])
             M == MarkLen(n)
             T == TextLen(c[n])
             V == Size(g[n])
             W == Size(g[N])
  <2>1. n \in 0 .. N /\ n - 1 \in 0 .. N /\ n \in Nat \ {0}
    BY <1>4
  <2>2. /\ V = U + M + T
        /\ Holds(g[n], U, Mark(n)) /\ Holds(g[n], U + M, TextOf(c[n]))
    BY <1>1 DEF PrintedAfter
  <2>3. U \in Nat /\ V \in Nat /\ W \in Nat /\ M \in Nat /\ T \in Nat
    <3>1. TextOf(c[n]) \in Seq(Characters)
      BY <1>3, TextShape
    <3>2. T \in Nat
      BY <3>1 DEF TextLen
    <3>3. M \in Nat
      BY <2>1, MarkIs
    <3>4. QED
      BY <1>1, <1>6, <2>1, <3>2, <3>3
  <2>4. Holds(g[N], 0, g[n]) /\ V <= W
    BY <1>2, <2>1 DEF Begins
  <2>5. Len(g[n]) = V /\ Len(g[N]) = W /\ Len(Mark(n)) = M /\ Len(TextOf(c[n])) = T
    BY DEF Size, MarkLen, TextLen
  <2> HIDE DEF U, M, T, V, W
  <2>6. /\ D + 0 = D /\ 0 + V <= W /\ U + M <= V /\ (U + M) + T <= V /\ U + M \in Nat
        /\ D + (U + M) = D + U + M /\ D + V <= D + W
    BY <1>5, <2>2, <2>3, <2>4
  <2>7. Holds(engine, D + 0, g[n])
    BY <1>5, <1>7, <2>3, <2>4, <2>5, <2>6, HeldWithin
  <2>8. Holds(engine, D, g[n])
    BY <2>6, <2>7
  <2>9. Holds(engine, D + U, Mark(n))
    BY <1>5, <2>2, <2>3, <2>5, <2>6, <2>8, HeldWithin
  <2>10. Holds(engine, D + (U + M), TextOf(c[n]))
    BY <1>5, <2>2, <2>3, <2>5, <2>6, <2>8, HeldWithin
  <2>11. D + V <= Len(engine)
    BY <1>7, <2>6 DEF W
  <2>12. QED
    BY <2>2, <2>3, <2>6, <2>9, <2>10, <2>11 DEF SettingAt, U, M, T, V
<1>9. QED
  BY <1>5, <1>7, <1>8 DEF N, D

\* Where the settings begin, after a definition.
Positions(c, g, d) == [n \in 1 .. Len(c) |-> Size(d) + Size(g[n - 1]) + MarkLen(n)]

LEMMA LayoutIs ==
  ASSUME NEW c, Len(c) \in Nat, AllPrintable(c), NEW g, IsText(g, c, Len(c)),
         NEW d \in Seq(Characters), engine = d \o g[Len(c)]
  PROVE  Layout(c, Positions(c, g, d))
<1> DEFINE N == Len(c)
           D == Size(d)
           b == Positions(c, g, d)
<1>1. /\ engine \in Seq(Everything) /\ D \in Nat /\ Len(engine) = D + Size(g[N])
      /\ \A n \in 1 .. N : SettingAt(c, g, D, n)
  BY EngineHolds
<1>2. Len(engine) \in Nat /\ DOMAIN engine = 1 .. Len(engine)
  BY <1>1
<1>3. N \in Nat /\ b = [n \in 1 .. N |-> D + Size(g[n - 1]) + MarkLen(n)]
  BY DEF Positions
<1>4. \A n \in 1 .. N : Printable(c[n])
  BY DEF AllPrintable
<1>13. \A n \in 0 .. N : Size(g[n]) \in Nat
  BY TextsAre
<1> HIDE DEF N, D, b
<1>5. ASSUME NEW n \in 1 .. N
      PROVE  /\ b[n] \in Nat /\ b[n] = D + Size(g[n - 1]) + MarkLen(n)
             /\ After(c[n], b[n]) = D + Size(g[n]) + 1
             /\ b[n] + TextLen(c[n]) <= Len(engine)
  <2>1. SettingAt(c, g, D, n) /\ b[n] = D + Size(g[n - 1]) + MarkLen(n)
    BY <1>1, <1>3
  <2>2. /\ Size(g[n]) = Size(g[n - 1]) + MarkLen(n) + TextLen(c[n])
        /\ Size(g[n - 1]) \in Nat /\ Size(g[n]) \in Nat /\ MarkLen(n) \in Nat
        /\ TextLen(c[n]) \in Nat /\ D + Size(g[n]) <= Len(engine)
    BY <2>1 DEF SettingAt
  <2>3. b[n] \in Nat /\ b[n] + TextLen(c[n]) = D + Size(g[n])
    BY <1>1, <2>1, <2>2
  <2>4. After(c[n], b[n]) = b[n] + TextLen(c[n]) + 1
    BY DEF After, TextLen
  <2>5. QED
    BY <2>1, <2>2, <2>3, <2>4
<1>6. ASSUME NEW n \in 1 .. N - 1
      PROVE  /\ b[n + 1] = After(c[n], b[n]) + 1
             /\ At(After(c[n], b[n])) = "," /\ At(After(c[n], b[n]) + 1) = " "
  <2> DEFINE V == Size(g[n])
  <2>1. n \in 1 .. N /\ n + 1 \in 1 .. N /\ (n + 1) - 1 = n /\ n + 1 # 1 /\ n + 1 \in Nat \ {0}
    BY <1>3
  <2>2. /\ MarkLen(n + 1) = 2 /\ Len(Mark(n + 1)) = 2
        /\ Mark(n + 1)[1] = "," /\ Mark(n + 1)[2] = " "
    BY <2>1, MarkIs DEF MarkLen
  <2>3. /\ Holds(engine, D + V, Mark(n + 1)) /\ V \in Nat
        /\ Size(g[n + 1]) = V + MarkLen(n + 1) + TextLen(c[n + 1]) /\ TextLen(c[n + 1]) \in Nat
        /\ D + Size(g[n + 1]) <= Len(engine)
    <3>1. SettingAt(c, g, D, n + 1)
      BY <1>1, <2>1
    <3>2. QED
      BY <2>1, <3>1 DEF SettingAt
  <2>4. b[n + 1] = D + V + MarkLen(n + 1) /\ After(c[n], b[n]) = D + V + 1
    BY <1>5, <2>1
  <2> HIDE DEF V
  <2>5. D + V + 2 <= Len(engine)
    <3>1. Size(g[n + 1]) = V + 2 + TextLen(c[n + 1])
      BY <2>2, <2>3
    <3>2. QED
      BY <1>1, <1>2, <2>3, <3>1
  <2>6. /\ D + V + 1 \in 1 .. Len(engine) /\ D + V + 2 \in 1 .. Len(engine)
        /\ (D + V + 1) + 1 = D + V + 2 /\ 1 \in 1 .. 2 /\ 2 \in 1 .. 2
    BY <1>1, <1>2, <2>3, <2>5
  <2>7. engine[D + V + 1] = "," /\ engine[D + V + 2] = " "
    BY <2>2, <2>3, <2>6 DEF Holds
  <2>8. QED
    BY <1>2, <2>2, <2>4, <2>6, <2>7 DEF At
<1>7. N > 0 => After(c[N], b[N]) = Len(engine) + 1
  <2>1. ASSUME N > 0 PROVE N \in 1 .. N
    BY <1>3, <2>1
  <2>2. QED
    BY <1>1, <1>5, <2>1
<1>8. ASSUME NEW n \in 1 .. N PROVE Stands(c[n], b[n])
  <2>1. Holds(engine, b[n], TextOf(c[n]))
    BY <1>1, <1>5 DEF SettingAt
  <2>2. At(After(c[n], b[n])) \in {",", "end"}
    <3>1. CASE n \in 1 .. N - 1
      BY <1>6, <3>1
    <3>2. CASE n = N
      <4>1. N > 0 /\ Len(engine) + 1 \notin DOMAIN engine
        BY <1>2, <1>3, <3>2
      <4>2. After(c[n], b[n]) = Len(engine) + 1
        BY <1>7, <3>2, <4>1
      <4>3. At(Len(engine) + 1) = "end"
        BY <4>1 DEF At
      <4>4. QED
        BY <4>2, <4>3
    <3>3. n \in 1 .. N - 1 \/ n = N
      <4>1. N \in Nat
        BY <1>3
      <4>2. QED
        BY <4>1
    <3>4. QED
      BY <3>1, <3>2, <3>3
  <2>3. QED
    BY <1>5, <2>1, <2>2 DEF Stands, After, TextLen
<1>9. QED
  BY <1>5, <1>6, <1>7, <1>8 DEF Layout, N, b

\* Where the search begins.
LEMMA StartIs ==
  ASSUME NEW S, NEW c \in Seq(S), AllPrintable(c), NEW g, IsText(g, c, Len(c)),
         NEW d \in Seq(Characters), engine = d \o g[Len(c)],
         c = <<>> => \A i \in DOMAIN d : d[i] # "SETTINGS"
  PROVE  Start(engine) = IF Len(c) = 0 THEN Len(engine) + 1 ELSE Positions(c, g, d)[1] + 1
<1> DEFINE N == Len(c)
           b == Positions(c, g, d)
           D == Size(d)
           L == Len(engine)
           found == {i \in 1 .. Len(engine) - 2 : SubSeq(engine, i, i + 2) = Keyword}
<1>1. /\ engine \in Seq(Everything) /\ D \in Nat /\ L = D + Size(g[N]) /\ Holds(engine, 0, d)
      /\ Holds(engine, D, g[N])
      /\ \A n \in 1 .. N : SettingAt(c, g, D, n)
  <2>1. Len(c) \in Nat
    OBVIOUS
  <2>2. QED
    BY <2>1, EngineHolds
<1>2. L \in Nat /\ DOMAIN engine = 1 .. L /\ Len(d) = D /\ DOMAIN d = 1 .. D /\ N \in Nat
  BY <1>1 DEF Size
<1>3. Start(engine) = IF found = {} THEN L + 1
                      ELSE 3 + CHOOSE i \in found : \A j \in found : j <= i
  BY DEF Start
<1>4. ASSUME NEW i \in found PROVE i \in 1 .. L - 2 /\ engine[i + 1] = "SETTINGS"
  <2>1. i \in 1 .. L - 2 /\ SubSeq(engine, i, i + 2) = Keyword
    OBVIOUS
  <2>2. i \in 1 .. L /\ i + 2 \in 1 .. L /\ (i + 2) - i + 1 = 3 /\ i + 2 - 1 = i + 1 /\ i <= i + 2
    BY <1>2, <2>1
  <2>3. SubSeq(engine, i, i + 2)[2] = engine[i + 1]
    BY <1>1, <1>2, <2>2
  <2>4. Keyword[2] = "SETTINGS"
    BY DEF Keyword
  <2>5. QED
    BY <2>1, <2>3, <2>4
<1>5. Clean(g[N]) /\ Size(g[N]) \in Nat /\ Len(g[N]) = Size(g[N])
  <2>1. N \in 0 .. N
    BY <1>2
  <2>2. QED
    BY <2>1, TextsClean, TextsAre DEF Size
<1>6. CASE N = 0
  <2>1. g[N] = <<>> /\ Size(g[N]) = 0 /\ c = <<>>
    BY <1>6, TextsAre DEF Size
  <2>2. L = D
    BY <1>1, <1>2, <2>1
  <2>3. ASSUME NEW i \in found PROVE FALSE
    <3>1. i + 1 \in 1 .. D /\ 0 + (i + 1) = i + 1
      BY <1>2, <1>4, <2>2
    <3>2. engine[0 + (i + 1)] = d[i + 1]
      BY <1>1, <1>2, <3>1 DEF Holds
    <3>3. QED
      BY <1>2, <1>4, <2>1, <3>1, <3>2
  <2>4. found = {}
    BY <2>3
  <2>5. QED
    BY <1>3, <1>6, <2>4
<1>7. CASE N # 0
  <2>1. 1 \in 1 .. N /\ 0 \in 0 .. N /\ 1 - 1 = 0 /\ 1 \in Nat \ {0}
    BY <1>2, <1>7
  <2>2. Size(g[0]) = 0
    BY TextsAre DEF Size
  <2>3. MarkLen(1) = 3 /\ Mark(1) = Keyword
    BY <2>1, MarkIs
  <2>4. /\ Holds(engine, D, Keyword) /\ D + 3 <= L /\ b[1] = D + 3
    <3>1. SettingAt(c, g, D, 1)
      BY <1>1, <2>1
    <3>2. /\ Holds(engine, D + 0, Keyword) /\ Size(g[1]) = 0 + 3 + TextLen(c[1])
          /\ TextLen(c[1]) \in Nat /\ D + Size(g[1]) <= L
      BY <2>1, <2>2, <2>3, <3>1 DEF SettingAt
    <3>3. b[1] = D + 0 + 3
      BY <2>1, <2>2, <2>3 DEF Positions
    <3>4. D + 0 = D
      BY <1>1
    <3>5. D + 3 <= L
      BY <1>1, <1>2, <3>2
    <3>6. QED
      BY <3>2, <3>3, <3>4, <3>5
  <2>5. D + 1 \in found
    <3>1. D + 1 \in 1 .. L - 2 /\ D + Len(Keyword) <= L /\ D + Len(Keyword) = (D + 1) + 2
      <4>1. Len(Keyword) = 3
        BY DEF Keyword
      <4>2. QED
        BY <1>1, <1>2, <2>4, <4>1
    <3>2. Keyword \in Seq(Everything)
      BY <2>1, <2>3, MarkIs
    <3>3. SubSeq(engine, D + 1, D + Len(Keyword)) = Keyword
      BY <1>1, <2>4, <3>1, <3>2, HeldIs
    <3>4. QED
      BY <3>1, <3>3
  <2>6. ASSUME NEW i \in found PROVE i <= D + 1
    <3>1. SUFFICES ASSUME i > D + 1 PROVE FALSE
      BY <1>1, <1>4
    <3>2. i \in 1 .. L - 2 /\ engine[i + 1] = "SETTINGS"
      BY <1>4
    <3>3. (i + 1) - D \in 3 .. Size(g[N]) /\ D + ((i + 1) - D) = i + 1
      <4> DEFINE G == Size(g[N])
      <4>1. i \in Nat /\ i <= L - 2 /\ L = D + G /\ i > D + 1 /\ D \in Nat /\ G \in Nat /\ L \in Nat
        BY <1>1, <1>2, <1>5, <3>1, <3>2
      <4> HIDE DEF D, G, L
      <4>2. (i + 1) - D \in 3 .. G /\ D + ((i + 1) - D) = i + 1
        BY <4>1
      <4>3. QED
        BY <4>2 DEF G
    <3>4. engine[D + ((i + 1) - D)] = g[N][(i + 1) - D]
      <4>1. (i + 1) - D \in 1 .. Len(g[N])
        BY <1>5, <3>3
      <4>2. QED
        BY <1>1, <4>1 DEF Holds
    <3>5. QED
      BY <1>5, <3>2, <3>3, <3>4 DEF Clean
  <2>7. found \in SUBSET Nat
    BY <1>2
  <2> HIDE DEF found
  <2>8. (CHOOSE i \in found : \A j \in found : j <= i) = D + 1
    <3>1. \A i \in found : (\A j \in found : j <= i) => i = D + 1
      <4> SUFFICES ASSUME NEW i \in found, \A j \in found : j <= i PROVE i = D + 1
        OBVIOUS
      <4>1. i \in Nat /\ D + 1 <= i /\ i <= D + 1 /\ D \in Nat
        BY <1>1, <2>5, <2>6, <2>7
      <4>2. QED
        BY <4>1
    <3>2. \A j \in found : j <= D + 1
      BY <2>6
    <3>3. QED
      BY <2>5, <3>1, <3>2
  <2>9. found # {} /\ 3 + (D + 1) = (D + 3) + 1
    BY <1>1, <2>5
  <2>10. Start(engine) = b[1] + 1
    BY <1>3, <2>4, <2>8, <2>9 DEF found
  <2>11. QED
    BY <1>7, <2>10
<1>8. QED
  BY <1>6, <1>7

-----------------------------------------------------------------------------
(***************************************************************************)
(* The search goes from one setting to the next.                           *)
(***************************************************************************)
Distinct == \A i, j \in 1 .. Len(clause) : clause[i].name = clause[j].name => i = j

Read(n) == DOMAIN out = Listed(n) /\ \A i \in 1 .. n : out[clause[i].name] = clause[i].value

\* Where the search is, once n settings were read.
Searching(b, n) ==
  /\ n = Len(clause) => pos = Len(engine) + 1
  /\ n < Len(clause) /\ n = 0 => pos = b[1] + 1
  /\ n < Len(clause) /\ n > 0 =>
       \/ pos = After(clause[n], b[n]) \/ pos = After(clause[n], b[n]) + 1
       \/ pos = b[n + 1] + 1

ParseInv ==
  /\ Len(clause) \in Nat /\ DOMAIN clause = 1 .. Len(clause) /\ AllPrintable(clause) /\ Distinct
  /\ engine \in Seq(Everything)
  /\ \E b : Layout(clause, b) /\ \E n \in 0 .. Len(clause) : Read(n) /\ Searching(b, n)

LEMMA InitParse ==
  ASSUME NEW t \in Given, ParseInit(t.definition, t.clause)
  PROVE  ParseInv
<1> DEFINE c == t.clause
           d == t.definition
           S == [name : Seq(Word), value : Seq(Outside \cup {" ", ","}), quoted : BOOLEAN]
<1>1. /\ c \in Seq(S) /\ d \in Seq(Characters)
      /\ \A i \in DOMAIN c : Printable(c[i])
      /\ \A i, j \in DOMAIN c : c[i].name = c[j].name => i = j
      /\ c = <<>> => \A i \in DOMAIN d : d[i] # "SETTINGS"
  BY GivenAssumption DEF Clauses, Characters
<1>2. clause = c /\ engine = d \o ClauseText(c) /\ pos = Start(engine) /\ out = <<>>
  BY DEF ParseInit
<1> HIDE DEF c, d, S
<1>3. Len(c) \in Nat /\ DOMAIN c = 1 .. Len(c)
  BY <1>1
<1>4. AllPrintable(c)
  BY <1>1, <1>3 DEF AllPrintable
<1>5. PICK g : IsText(g, c, Len(c)) /\ ClauseText(c) = g[Len(c)]
  BY <1>3, ClauseTextIs
<1>6. engine = d \o g[Len(c)]
  BY <1>2, <1>5
<1> DEFINE b == Positions(c, g, d)
<1>7. Layout(c, b)
  BY <1>1, <1>3, <1>4, <1>5, <1>6, LayoutIs
<1>8. pos = IF Len(c) = 0 THEN Len(engine) + 1 ELSE b[1] + 1
  BY <1>1, <1>2, <1>4, <1>5, <1>6, StartIs
<1>9. engine \in Seq(Everything)
  BY <1>1, <1>3, <1>4, <1>5, <1>6, EngineHolds
<1> HIDE DEF b
<1>10. Read(0)
  BY <1>2 DEF Read, Listed
<1>11. Searching(b, 0)
  BY <1>2, <1>3, <1>8 DEF Searching
<1>12. 0 \in 0 .. Len(clause) /\ Distinct
  BY <1>1, <1>2, <1>3 DEF Distinct
<1>13. QED
  BY <1>2, <1>3, <1>4, <1>7, <1>9, <1>10, <1>11, <1>12 DEF ParseInv

\* While there is something to read, the next setting is not far.
LEMMA NextSetting ==
  ASSUME ParseInv, NEW b, Layout(clause, b), NEW n \in 0 .. Len(clause), Searching(b, n)
  PROVE  \/ n = Len(clause) /\ pos = Len(engine) + 1
         \/ /\ n < Len(clause) /\ n + 1 \in 1 .. Len(clause) /\ n + 1 \in 0 .. Len(clause)
            /\ b[n + 1] \in Nat /\ Stands(clause[n + 1], b[n + 1]) /\ Printable(clause[n + 1])
            /\ b[n + 1] + 1 <= Len(engine)
            /\ \/ pos = b[n + 1] + 1
               \/ pos = b[n + 1] /\ At(pos) = " " /\ n > 0
               \/ pos + 1 = b[n + 1] /\ pos = After(clause[n], b[n]) /\ At(pos) = "," /\ n > 0
            /\ pos \in Nat /\ pos <= Len(engine) /\ pos >= 1
<1>1. Len(clause) \in Nat /\ AllPrintable(clause) /\ engine \in Seq(Everything)
  BY DEF ParseInv
<1>2. CASE n = Len(clause)
  BY <1>2 DEF Searching
<1>3. CASE n < Len(clause)
  <2> DEFINE s == clause[n + 1]
             a == b[n + 1]
             L == Len(engine)
  <2>1. n + 1 \in 1 .. Len(clause) /\ n + 1 \in 0 .. Len(clause)
    BY <1>1, <1>3
  <2>2. a \in Nat /\ Stands(s, a) /\ Printable(s)
    BY <1>1, <2>1 DEF Layout, AllPrintable
  <2>3. a + 1 <= L /\ L \in Nat
    <3> DEFINE p == NameLen(s)
               m == ShownLen(s)
    <3>1. L \in Nat
      BY <1>1
    <3>2. p \in Nat /\ p > 0 /\ m \in Nat /\ m > 0 /\ a + p + 3 + m <= L
      BY <1>1, <2>2, <3>1, SettingStands
    <3> HIDE DEF p, m, a, L
    <3>3. a \in Nat
      BY <2>2
    <3>4. QED
      BY <3>1, <3>2, <3>3
  <2>4. CASE n = 0
    <3>1. pos = a + 1
      BY <1>3, <2>4 DEF Searching
    <3>2. pos \in Nat /\ pos <= L /\ pos >= 1
      BY <2>2, <2>3, <3>1
    <3>3. QED
      BY <1>3, <2>1, <2>2, <2>3, <3>1, <3>2
  <2>5. CASE n > 0
    <3> DEFINE e == After(clause[n], b[n])
    <3>1. n \in 1 .. Len(clause) - 1 /\ n \in 1 .. Len(clause)
      BY <1>1, <1>3, <2>5
    <3>2. a = e + 1 /\ At(e) = "," /\ At(e + 1) = " "
      BY <3>1 DEF Layout
    <3>3. e \in Nat /\ e >= 1
      <4> DEFINE p == NameLen(clause[n])
                 m == ShownLen(clause[n])
                 x == b[n]
      <4>1. x \in Nat /\ Stands(clause[n], x) /\ Printable(clause[n])
        BY <1>1, <3>1 DEF Layout, AllPrintable
      <4>2. p \in Nat /\ m \in Nat /\ e = x + p + 4 + m
        BY <1>1, <2>3, <4>1, SettingStands
      <4> HIDE DEF p, m, x, e
      <4>3. QED
        BY <4>1, <4>2
    <3>4. pos = e \/ pos = e + 1 \/ pos = a + 1
      BY <1>3, <2>5 DEF Searching
    <3>8. e \in Nat /\ e >= 1 /\ a = e + 1 /\ a + 1 <= L /\ L \in Nat
      BY <2>3, <3>2, <3>3
    <3> HIDE DEF e, a, L
    <3>5. pos \in Nat /\ pos <= L /\ pos >= 1
      BY <3>4, <3>8
    <3>6. \/ pos = a + 1
          \/ pos = a /\ At(pos) = " "
          \/ pos + 1 = a /\ pos = e /\ At(pos) = ","
      BY <3>2, <3>3, <3>4
    <3>7. QED
      BY <1>3, <2>1, <2>2, <2>3, <2>5, <3>5, <3>6 DEF a, e, L
  <2>6. n = 0 \/ n > 0
    BY <1>1
  <2>7. QED
    BY <2>4, <2>5, <2>6
<1>4. n = Len(clause) \/ n < Len(clause)
  BY <1>1
<1>5. QED
  BY <1>2, <1>3, <1>4

LEMMA MatchParse == ASSUME ParseInv, Match PROVE ParseInv'
<1>1. /\ Len(clause) \in Nat /\ AllPrintable(clause) /\ Distinct /\ engine \in Seq(Everything)
      /\ DOMAIN clause = 1 .. Len(clause)
  BY DEF ParseInv
<1>2. PICK b : /\ Layout(clause, b)
               /\ \E n \in 0 .. Len(clause) : Read(n) /\ Searching(b, n)
  BY DEF ParseInv
<1>20. PICK n \in 0 .. Len(clause) : Read(n) /\ Searching(b, n)
  BY <1>2
<1>3. pos <= Len(engine) /\ Matches(pos) /\ UNCHANGED <<clause, engine>>
  BY DEF Match
<1>4. Len(engine) \in Nat /\ At(pos) \in Word
  BY <1>1, <1>3 DEF Matches
<1> DEFINE s == clause[n + 1]
           a == b[n + 1]
<1>5. /\ n < Len(clause) /\ n + 1 \in 1 .. Len(clause) /\ n + 1 \in 0 .. Len(clause)
      /\ a \in Nat /\ Stands(s, a) /\ Printable(s) /\ pos = a + 1
  <2>1. ~(n = Len(clause) /\ pos = Len(engine) + 1)
    BY <1>3, <1>4
  <2>2. At(pos) # " " /\ At(pos) # ","
    BY <1>4, Signs
  <2>3. QED
    BY <1>2, <1>20, <2>1, <2>2, NextSetting
<1>6. /\ ValueAt(pos) = From(s, a) /\ ValueEnd(From(s, a)) = After(s, a)
      /\ SubSeq(engine, pos, EndOf(pos, Word) - 1) = s.name
      /\ Trim(SubSeq(engine, From(s, a), After(s, a) - 1)) = s.value
  BY <1>1, <1>5, MatchHere
<1>7. /\ out' = [k \in DOMAIN out \cup {s.name} |-> IF k = s.name THEN s.value ELSE out[k]]
      /\ pos' = After(s, a)
  BY <1>6 DEF Match
<1>8. Read(n + 1)'
  <2>1. DOMAIN out = Listed(n) /\ \A i \in 1 .. n : out[clause[i].name] = clause[i].value
    BY <1>2, <1>20 DEF Read
  <2>2. 1 .. n + 1 = (1 .. n) \cup {n + 1}
    BY <1>1
  <2>3. Listed(n + 1) = Listed(n) \cup {s.name}
    BY <2>2 DEF Listed
  <2>4. DOMAIN out' = Listed(n + 1)'
    BY <1>3, <1>7, <2>1, <2>3 DEF Listed
  <2>5. ASSUME NEW i \in 1 .. n + 1 PROVE out'[clause[i].name] = clause[i].value
    <3>1. clause[i].name \in Listed(n + 1)
      BY DEF Listed
    <3>2. clause[i].name \in DOMAIN out \cup {s.name}
      BY <2>1, <2>3, <3>1
    <3>3. CASE i = n + 1
      BY <1>7, <3>2, <3>3
    <3>4. CASE i # n + 1
      <4>1. i \in 1 .. n /\ i \in 1 .. Len(clause)
        BY <1>1, <1>5, <2>2, <3>4
      <4>2. clause[i].name # s.name
        BY <1>1, <1>5, <3>4, <4>1 DEF Distinct
      <4>3. QED
        BY <1>7, <2>1, <3>2, <4>1, <4>2
    <3>5. QED
      BY <3>3, <3>4
  <2>6. QED
    BY <1>3, <2>4, <2>5 DEF Read
<1>9. Searching(b, n + 1)'
  <2>1. n + 1 > 0 /\ (n + 1 = Len(clause) => Len(clause) > 0)
    OBVIOUS
  <2>2. n + 1 = Len(clause) => pos' = Len(engine) + 1
    BY <1>2, <1>20, <1>7, <2>1 DEF Layout
  <2>3. After(s, a)' = After(s, a)
    BY <1>3 DEF After
  <2>4. n + 1 # 0
    BY <1>1
  <2>5. QED
    BY <1>3, <1>7, <2>2, <2>4 DEF Searching, After
<1>10. Layout(clause, b)'
  BY <1>2, <1>20, <1>3 DEF Layout, Stands, Holds, After, At
<1>11. QED
  BY <1>1, <1>3, <1>5, <1>8, <1>9, <1>10 DEF ParseInv, AllPrintable, Distinct

LEMMA SkipParse == ASSUME ParseInv, Skip PROVE ParseInv'
<1>1. /\ Len(clause) \in Nat /\ AllPrintable(clause) /\ Distinct /\ engine \in Seq(Everything)
      /\ DOMAIN clause = 1 .. Len(clause)
  BY DEF ParseInv
<1>2. PICK b : /\ Layout(clause, b)
               /\ \E n \in 0 .. Len(clause) : Read(n) /\ Searching(b, n)
  BY DEF ParseInv
<1>20. PICK n \in 0 .. Len(clause) : Read(n) /\ Searching(b, n)
  BY <1>2
<1>3. /\ pos <= Len(engine) /\ ~Matches(pos) /\ UNCHANGED <<clause, engine, out>> /\ pos' = pos + 1
      /\ Len(engine) \in Nat
  BY <1>1 DEF Skip
<1> DEFINE s == clause[n + 1]
           a == b[n + 1]
<1>4. /\ n < Len(clause) /\ n > 0 /\ pos \in Nat /\ a \in Nat
      /\ pos = a \/ (pos + 1 = a /\ pos = After(clause[n], b[n]))
  <2>1. ~(n = Len(clause) /\ pos = Len(engine) + 1)
    BY <1>3
  <2>2. ASSUME Stands(s, a), Printable(s), a \in Nat PROVE pos # a + 1
    BY <1>1, <1>3, <2>2, MatchHere
  <2>3. QED
    BY <1>2, <1>20, <2>1, <2>2, NextSetting
<1>5. Searching(b, n)'
  <2>4. n \in Nat /\ Len(clause) \in Nat /\ n < Len(clause) /\ n > 0
    BY <1>1, <1>4
  <2>1. n # Len(clause) /\ n # 0
    BY <2>4
  <2>2. pos' = a + 1 \/ pos' = After(clause[n], b[n]) + 1
    BY <1>3, <1>4
  <2>3. QED
    BY <1>3, <2>1, <2>2 DEF Searching, After
<1>6. Read(n)'
  BY <1>2, <1>20, <1>3 DEF Read, Listed
<1>7. Layout(clause, b)'
  BY <1>2, <1>20, <1>3 DEF Layout, Stands, Holds, After, At
<1>8. QED
  BY <1>1, <1>2, <1>20, <1>3, <1>5, <1>6, <1>7 DEF ParseInv, AllPrintable, Distinct

LEMMA ParseReads == ASSUME ParseInv PROVE ReadsBack
<1>1. /\ Len(clause) \in Nat /\ DOMAIN clause = 1 .. Len(clause) /\ engine \in Seq(Everything)
  BY DEF ParseInv
<1>2. PICK b : /\ Layout(clause, b)
               /\ \E n \in 0 .. Len(clause) : Read(n) /\ Searching(b, n)
  BY DEF ParseInv
<1>20. PICK n \in 0 .. Len(clause) : Read(n) /\ Searching(b, n)
  BY <1>2
<1>3. Len(engine) \in Nat
  BY <1>1
<1>4. ASSUME Parsed PROVE n = Len(clause)
  <2>1. ~(pos <= Len(engine) /\ pos \in Nat)
    BY <1>3, <1>4 DEF Parsed
  <2>2. QED
    BY <1>2, <1>20, <2>1, NextSetting
<1>5. QED
  BY <1>2, <1>20, <1>4 DEF ReadsBack, Read

LEMMA ParseTypes == ASSUME ParseInv PROVE ParseTypeOK
<1>1. /\ Len(clause) \in Nat /\ AllPrintable(clause) /\ engine \in Seq(Everything)
  BY DEF ParseInv
<1>2. PICK b : /\ Layout(clause, b)
               /\ \E n \in 0 .. Len(clause) : Read(n) /\ Searching(b, n)
  BY DEF ParseInv
<1>20. PICK n \in 0 .. Len(clause) : Read(n) /\ Searching(b, n)
  BY <1>2
<1>3. Len(engine) \in Nat
  BY <1>1
<1>4. pos \in 1 .. Len(engine) + 1
  <2>1. \/ pos = Len(engine) + 1
        \/ pos \in Nat /\ pos <= Len(engine) /\ pos >= 1
    BY <1>2, <1>20, NextSetting
  <2>2. QED
    BY <1>3, <2>1
<1>5. ASSUME NEW k \in DOMAIN out
      PROVE  /\ k \in Seq(Word) /\ out[k] \in Seq(Outside \cup {" ", ","})
             /\ ~Contains(out[k], "'")
  <2>1. PICK i \in 1 .. n : k = clause[i].name
    BY <1>2, <1>20 DEF Read, Listed
  <2>2. out[k] = clause[i].value /\ i \in 1 .. Len(clause)
    BY <1>1, <1>2, <1>20, <2>1 DEF Read
  <2>3. Printable(clause[i])
    BY <1>1, <2>2 DEF AllPrintable
  <2>4. clause[i].name \in Seq(Word) /\ clause[i].value \in Seq(Characters \ {"'"})
    BY <2>3, SettingKinds
  <2> DEFINE v == clause[i].value
  <2>5. v \in Seq(Characters) /\ \A j \in 1 .. Len(v) : v[j] # "'"
    BY <2>4
  <2>6. QED
    BY <2>1, <2>2, <2>4, <2>5 DEF Contains, Characters
<1>6. QED
  BY <1>4, <1>5 DEF ParseTypeOK

-----------------------------------------------------------------------------
(***************************************************************************)
(* SelectorSettings.                                                       *)
(***************************************************************************)
\* ClickHouse takes no text for a switch but these, on the server or in a clause.
Switches ==
  \A n \in Bools :
    /\ n \in DOMAIN server => server[n] \in Switch
    /\ \A i \in 1 .. Len(clause) :
         clause[i].name = <<n>> => \E v \in Switch : clause[i].value = <<v>>

\* What Apply and Finish compute from texts.
AppliedTo(texts) ==
  [n \in Applied |->
     IF ValueIn(texts, n) = {} \/ Ignored(n, texts) THEN Before(n, texts)
     ELSE CHOOSE v \in ValueIn(texts, n) : TRUE]
LimitIn(texts) ==
  LET limit == ValueIn(texts, "max_bytes") \ {"0"}
  IN IF limit = {} THEN "150G" ELSE CHOOSE v \in limit : TRUE
NoteOn(texts) ==
  LET algo == IF Has(texts, "algorithm") THEN texts["algorithm"] ELSE ""
  IN IF algo \in NoteFree THEN "" ELSE algo

\* What is known at which point.
Stages ==
  /\ pc \in {"query", "apply", "limit", "done", "ended"}
  /\ pc \in {"apply", "limit", "done"} =>
       Parsed /\ \/ resp = [texts |-> Merged, warning |-> FALSE]
                 \/ resp = [texts |-> <<>>, warning |-> TRUE]
  /\ pc \in {"query", "ended"} => resp = [texts |-> <<>>, warning |-> FALSE]
  /\ settings = IF pc \in {"limit", "done"} THEN AppliedTo(resp.texts) ELSE Defaults
  /\ pc = "done" => maxBytes = LimitIn(resp.texts) /\ note = NoteOn(resp.texts)
  /\ pc # "done" => maxBytes = "150G" /\ note = ""

SettingsInv == ParseInv /\ Switches /\ DOMAIN server \subseteq Names /\ Stages

LEMMA InitSettings == Init => SettingsInv
<1> SUFFICES ASSUME Init PROVE SettingsInv
  OBVIOUS
<1>1. PICK t \in Given : ParseInit(t.definition, t.clause) /\ server = t.server
  BY DEF Init
<1>2. ParseInv
  BY <1>1, InitParse
<1>3. Switches /\ DOMAIN server \subseteq Names
  <2>1. /\ DOMAIN t.server \subseteq Names
        /\ \A n \in Bools :
             /\ n \in DOMAIN t.server => t.server[n] \in Switch
             /\ \A s \in ToSet(t.clause) : s.name = <<n>> => s.value \in {<<v>> : v \in Switch}
    BY GivenAssumption
  <2>2. clause = t.clause /\ DOMAIN clause = 1 .. Len(clause)
    BY <1>1, <1>2 DEF ParseInit, ParseInv
  <2>3. \A i \in 1 .. Len(clause) : clause[i] \in ToSet(t.clause)
    BY <2>2 DEF ToSet
  <2>4. ASSUME NEW n \in Bools, NEW i \in 1 .. Len(clause), clause[i].name = <<n>>
        PROVE  \E v \in Switch : clause[i].value = <<v>>
    BY <2>1, <2>3, <2>4
  <2>5. QED
    BY <1>1, <2>1, <2>4 DEF Switches
<1>4. Stages
  BY DEF Init, Stages
<1>5. QED
  BY <1>2, <1>3, <1>4 DEF SettingsInv

LEMMA EndedSettings == SettingsEnded => SettingsInv
<1> SUFFICES ASSUME SettingsEnded PROVE SettingsInv
  OBVIOUS
<1>1. /\ clause = <<>> /\ engine = <<>> /\ pos = 1 /\ out = <<>> /\ server = PlainServer
      /\ Len(clause) = 0 /\ Len(engine) = 0
  BY DEF SettingsEnded
<1>2. ParseInv
  <2>1. Layout(clause, <<>>)
    BY <1>1 DEF Layout
  <2>2. 0 \in 0 .. Len(clause) /\ Read(0) /\ Searching(<<>>, 0)
    BY <1>1 DEF Read, Searching, Listed
  <2>3. Len(clause) \in Nat /\ DOMAIN clause = 1 .. Len(clause) /\ AllPrintable(clause) /\ Distinct
    BY <1>1 DEF AllPrintable, Distinct
  <2>4. engine \in Seq(Everything)
    BY <1>1
  <2>5. QED
    BY <2>1, <2>2, <2>3, <2>4 DEF ParseInv
<1>3. Switches /\ DOMAIN server \subseteq Names
  <2>1. DOMAIN server = Names
    BY <1>1 DEF PlainServer
  <2>2. ASSUME NEW n \in Bools PROVE server[n] = "0"
    <3>1. n \in Names /\ n # "algorithm"
      BY DEF Names, Bools
    <3>2. PlainServer[n] = Plain(n) /\ Plain(n) = "0"
      BY <3>1 DEF PlainServer, Plain
    <3>3. QED
      BY <1>1, <3>2
  <2>3. 1 .. Len(clause) = {}
    BY <1>1
  <2>4. QED
    BY <2>1, <2>2, <2>3 DEF Switches, Switch
<1>4. Stages
  BY DEF SettingsEnded, Stages
<1>5. QED
  BY <1>2, <1>3, <1>4 DEF SettingsInv

LEMMA ReadingSettings ==
  ASSUME SettingsInv, Match \/ Skip, UNCHANGED later PROVE SettingsInv'
<1>1. ParseInv'
  BY MatchParse, SkipParse DEF SettingsInv
<1>2. UNCHANGED <<clause, server>> /\ pos <= Len(engine)
  BY DEF Match, Skip, later
<1>3. (Switches /\ DOMAIN server \subseteq Names)'
  BY <1>2 DEF SettingsInv, Switches
<1>4. ~Parsed
  <2>1. pos \in Nat /\ Len(engine) \in Nat
    <3>1. ParseInv
      BY DEF SettingsInv
    <3>2. ParseTypeOK
      BY <3>1, ParseTypes
    <3>3. engine \in Seq(Everything)
      BY <3>1 DEF ParseInv
    <3>4. Len(engine) \in Nat
      BY <3>3
    <3>5. pos \in 1 .. Len(engine) + 1
      BY <3>2 DEF ParseTypeOK
    <3>6. QED
      BY <3>4, <3>5
  <2>2. QED
    BY <1>2, <2>1 DEF Parsed
<1>5. Stages'
  BY <1>4 DEF SettingsInv, Stages, later
<1>6. QED
  BY <1>1, <1>3, <1>5 DEF SettingsInv

LEMMA SameParse == ASSUME ParseInv, UNCHANGED parseVars PROVE ParseInv'
<1>1. UNCHANGED <<clause, engine, pos, out>>
  BY DEF parseVars
<1>2. PICK b : /\ Layout(clause, b)
               /\ \E n \in 0 .. Len(clause) : Read(n) /\ Searching(b, n)
  BY DEF ParseInv
<1>3. PICK n \in 0 .. Len(clause) : Read(n) /\ Searching(b, n)
  BY <1>2
<1>4. Layout(clause, b)'
  BY <1>1, <1>2 DEF Layout, Stands, Holds, After, At
<1>5. Read(n)' /\ Searching(b, n)'
  BY <1>1, <1>3 DEF Read, Listed, Searching, After
<1>6. QED
  BY <1>1, <1>4, <1>5 DEF ParseInv, AllPrintable, Distinct

LEMMA StepSettings == ASSUME SettingsInv, [Next]_vars PROVE SettingsInv'
<1>1. CASE (Match \/ Skip) /\ UNCHANGED later
  BY <1>1, ReadingSettings
<1>2. ASSUME UNCHANGED <<parseVars, server>>
      PROVE  /\ (ParseInv /\ Switches /\ DOMAIN server \subseteq Names)'
             /\ Parsed' = Parsed /\ Merged' = Merged
  BY <1>2, SameParse DEF SettingsInv, Switches, parseVars, Parsed, Merged, Own
<1>3. CASE Query
  <2>1. UNCHANGED <<parseVars, server>> /\ Stages'
    BY <1>2, <1>3 DEF Query, SettingsInv, Stages
  <2>2. QED
    BY <1>2, <2>1 DEF SettingsInv
<1>4. CASE Apply
  <2>1. settings' = AppliedTo(resp.texts)
    BY <1>4 DEF Apply, AppliedTo
  <2>2. UNCHANGED <<parseVars, server>> /\ Stages'
    BY <1>2, <1>4, <2>1 DEF Apply, SettingsInv, Stages
  <2>3. QED
    BY <1>2, <2>2 DEF SettingsInv
<1>5. CASE Finish
  <2>1. maxBytes' = LimitIn(resp.texts) /\ note' = NoteOn(resp.texts)
    BY <1>5 DEF Finish, LimitIn, NoteOn
  <2>2. UNCHANGED <<parseVars, server>> /\ Stages'
    BY <1>2, <1>5, <2>1 DEF Finish, SettingsInv, Stages
  <2>3. QED
    BY <1>2, <2>2 DEF SettingsInv
<1>6. CASE UNCHANGED vars
  <2>1. UNCHANGED <<parseVars, server>> /\ Stages'
    BY <1>2, <1>6 DEF vars, SettingsInv, Stages
  <2>2. QED
    BY <1>2, <2>1 DEF SettingsInv
<1>7. QED
  BY <1>1, <1>3, <1>4, <1>5, <1>6 DEF Next

\* Once a clause is read, the merged texts are what is configured.
LEMMA ConfiguredIs ==
  ASSUME SettingsInv, Parsed, NEW n \in Names
  PROVE  /\ n \in DOMAIN Merged => Configured(n) = {Merged[n]}
         /\ n \notin DOMAIN Merged => Configured(n) = {}
<1>1. /\ Len(clause) \in Nat /\ DOMAIN clause = 1 .. Len(clause) /\ Distinct
  BY DEF SettingsInv, ParseInv
<1>2. Read(Len(clause))
  <2>1. PICK b : /\ Layout(clause, b)
                 /\ \E k \in 0 .. Len(clause) : Read(k) /\ Searching(b, k)
    BY DEF SettingsInv, ParseInv
  <2>2. PICK k \in 0 .. Len(clause) : Read(k) /\ Searching(b, k)
    BY <2>1
  <2>3. Len(engine) \in Nat
    BY DEF SettingsInv, ParseInv
  <2>4. ~(pos <= Len(engine) /\ pos \in Nat)
    BY <2>3 DEF Parsed
  <2>5. k = Len(clause)
    BY <2>1, <2>2, <2>4, NextSetting DEF SettingsInv
  <2>6. QED
    BY <2>2, <2>5
<1>3. CASE <<n>> \in DOMAIN out
  <2>1. PICK i \in 1 .. Len(clause) : clause[i].name = <<n>>
    BY <1>2, <1>3 DEF Read, Listed
  <2>2. \A s \in ToSet(clause) : s.name = <<n>> => s = clause[i]
    BY <1>1, <2>1 DEF ToSet, Distinct
  <2>3. clause[i] \in ToSet(clause) /\ out[<<n>>] = clause[i].value
    BY <1>1, <1>2, <2>1 DEF ToSet, Read
  <2>4. {s \in ToSet(clause) : s.name = <<n>>} = {clause[i]}
    BY <2>1, <2>2, <2>3
  <2>5. Written(n) = {TextIn(out[<<n>>])}
    BY <2>3, <2>4 DEF Written
  <2>6. n \in DOMAIN Own /\ Own[n] = TextIn(out[<<n>>])
    BY <1>3 DEF Own
  <2>7. n \in DOMAIN Merged /\ Merged[n] = Own[n]
    BY <2>6 DEF Merged, Has
  <2>8. QED
    BY <2>5, <2>6, <2>7 DEF Configured
<1>4. CASE <<n>> \notin DOMAIN out
  <2>1. \A s \in ToSet(clause) : s.name # <<n>>
    BY <1>1, <1>2, <1>4 DEF ToSet, Read, Listed
  <2>2. Written(n) = {}
    BY <2>1 DEF Written
  <2>3. n \notin DOMAIN Own
    BY <1>4 DEF Own
  <2>4. /\ n \in DOMAIN Merged <=> n \in DOMAIN server
        /\ n \in DOMAIN server => Merged[n] = server[n]
    BY <2>3 DEF Merged, Has
  <2>5. QED
    BY <2>2, <2>4 DEF Configured, Has
<1>5. QED
  BY <1>3, <1>4

\* A switch that was written or held is read.
LEMMA SwitchIsRead ==
  ASSUME SettingsInv, Parsed, NEW n \in Bools, n \in DOMAIN Merged
  PROVE  Merged[n] \in Switch
<1>1. Len(clause) \in Nat
  BY DEF SettingsInv, ParseInv
<1>2. n \in Names
  BY DEF Names
<1>3. Configured(n) = {Merged[n]}
  BY <1>2, ConfiguredIs
<1>4. DOMAIN clause = 1 .. Len(clause) /\ Switches
  BY DEF SettingsInv, ParseInv
<1>5. CASE Written(n) = {}
  <2>1. n \in DOMAIN server /\ Merged[n] = server[n]
    BY <1>3, <1>5 DEF Configured, Has
  <2>2. QED
    BY <1>4, <2>1 DEF Switches
<1>6. CASE Written(n) # {}
  <2>1. Merged[n] \in Written(n)
    BY <1>3, <1>6 DEF Configured
  <2>2. PICK s \in ToSet(clause) : s.name = <<n>> /\ Merged[n] = TextIn(s.value)
    BY <2>1 DEF Written
  <2>3. PICK i \in 1 .. Len(clause) : s = clause[i]
    BY <1>4 DEF ToSet
  <2>4. PICK v \in Switch : s.value = <<v>>
    BY <1>4, <2>2, <2>3 DEF Switches
  <2>5. TextIn(s.value) = v
    BY <2>4 DEF TextIn
  <2>6. QED
    BY <2>2, <2>4, <2>5
<1>7. QED
  BY <1>5, <1>6

\* What is read of the texts is what is read of the configuration.
LEMMA ReadIs ==
  ASSUME SettingsInv, Parsed, NEW n \in Names
  PROVE  UNION {Value(n, t) : t \in Configured(n)} = ValueIn(Merged, n)
<1>1. CASE n \in DOMAIN Merged
  <2>1. Configured(n) = {Merged[n]}
    BY <1>1, ConfiguredIs
  <2>2. ValueIn(Merged, n) = Value(n, Merged[n])
    BY <1>1 DEF ValueIn, Has
  <2>3. QED
    BY <2>1, <2>2
<1>2. CASE n \notin DOMAIN Merged
  <2>1. Configured(n) = {}
    BY <1>2, ConfiguredIs
  <2>2. ValueIn(Merged, n) = {}
    BY <1>2 DEF ValueIn, Has
  <2>3. QED
    BY <2>1, <2>2
<1>3. QED
  BY <1>1, <1>2

\* Which texts each setting is read from.
LEMMA Values ==
  /\ \A n \in Bools : \A t \in Switch : Value(n, t) # {}
  /\ \A n \in Bools : \A t : Value(n, t) \subseteq {"0", "1"}
  /\ \A n \in Bools : \A t : t \in {"1", "true"} <=> Value(n, t) = {"1"}
  /\ \A t : Value("base", t) \subseteq {"7", "2.5"}
  /\ \A n \in Ints : \A t : Value(n, t) \subseteq {"0", "7"}
  /\ \A t : Value("max_bytes", t) \subseteq {"0", "7", "big"}
<1>8. \A n \in Bools : n # "base" /\ n \notin Ints
  BY DEF Bools, Ints
<1>1. \A n \in Bools : \A t : Value(n, t) = IF t \in {"1", "true"} THEN {"1"}
                                            ELSE IF t \in {"0", "false"} THEN {"0"} ELSE {}
  BY <1>8 DEF Value
<1>2. "base" \notin Bools /\ \A n \in Ints : n \notin Bools /\ n # "base"
  BY DEF Bools, Ints
<1>3. "max_bytes" \notin Bools /\ "max_bytes" \notin Ints /\ "max_bytes" # "base"
  BY DEF Bools, Ints
<1>4. \A t : Value("base", t) = {t} \cap {"7", "2.5"}
  BY <1>2 DEF Value
<1>5. \A n \in Ints : \A t : Value(n, t) = {t} \cap {"0", "7"}
  BY <1>2 DEF Value
<1>6. \A t : Value("max_bytes", t) = {t} \cap {"0", "7", "big"}
  BY <1>3 DEF Value
<1>7. QED
  BY <1>1, <1>4, <1>5, <1>6 DEF Switch

LEMMA SettingsTell == ASSUME SettingsInv PROVE EffectiveOrWarned
<1> SUFFICES ASSUME Done, ~resp.warning PROVE Effective
  BY DEF EffectiveOrWarned
<1> DEFINE OnlyPartitions == Configured("partition_only") \cap {"1", "true"} # {}
           ReadOf(n) == UNION {Value(n, t) : t \in Configured(n)}
<1>1. /\ Parsed /\ resp.texts = Merged /\ settings = AppliedTo(Merged)
      /\ maxBytes = LimitIn(Merged) /\ note = NoteOn(Merged)
  BY DEF Done, SettingsInv, Stages
<1>2. \A n \in Names : ReadOf(n) = ValueIn(Merged, n)
  BY <1>1, ReadIs
<1>3. "partition_only" \in Bools /\ "partition_only" \in Names /\ "max_bytes" \in Names /\ "algorithm" \in Names
      /\ Applied \subseteq Names
  BY DEF Bools, Names, Applied
<1>4. OnlyPartitions <=> ValueIn(Merged, "partition_only") = {"1"}
  <2>1. CASE "partition_only" \in DOMAIN Merged
    <3>1. Configured("partition_only") = {Merged["partition_only"]}
      BY <1>1, <1>3, <2>1, ConfiguredIs
    <3>2. ValueIn(Merged, "partition_only") = Value("partition_only", Merged["partition_only"])
      BY <2>1 DEF ValueIn, Has
    <3>3. QED
      BY <1>3, <3>1, <3>2, Values
  <2>2. CASE "partition_only" \notin DOMAIN Merged
    <3>1. Configured("partition_only") = {}
      BY <1>1, <1>3, <2>2, ConfiguredIs
    <3>2. ValueIn(Merged, "partition_only") = {}
      BY <2>2 DEF ValueIn, Has
    <3>3. QED
      BY <3>1, <3>2
  <2>3. QED
    BY <2>1, <2>2
<1> HIDE DEF OnlyPartitions, ReadOf
<1>5. ASSUME NEW n \in Applied
      PROVE  \/ n = "min_age" /\ OnlyPartitions /\ settings[n] = "0"
             \/ ~(n = "min_age" /\ OnlyPartitions) /\ settings[n] \in ReadOf(n)
             \/ ReadOf(n) = {} /\ n = "lower_max_parts" /\ settings[n] = "0"
             \/ ReadOf(n) = {} /\ n # "lower_max_parts" /\ settings[n] = Defaults[n]
  <2>1. /\ n \in Names /\ ReadOf(n) = ValueIn(Merged, n)
        /\ settings[n] = IF ValueIn(Merged, n) = {} \/ Ignored(n, Merged) THEN Before(n, Merged)
                         ELSE CHOOSE v \in ValueIn(Merged, n) : TRUE
    BY <1>1, <1>2, <1>3 DEF AppliedTo
  <2>2. Ignored(n, Merged) <=> n = "min_age" /\ OnlyPartitions
    BY <1>4 DEF Ignored
  <2>3. CASE Ignored(n, Merged)
    <3>1. n = "min_age" /\ OnlyPartitions /\ settings[n] = Before(n, Merged)
      BY <2>1, <2>2, <2>3
    <3>2. Before(n, Merged) = Defaults["min_age"]
      BY <3>1 DEF Before
    <3>3. Defaults["min_age"] = "0"
      BY DEF Defaults, Applied, Names, Ints, Bools
    <3>4. QED
      BY <3>1, <3>2, <3>3
  <2>4. CASE ~Ignored(n, Merged) /\ ValueIn(Merged, n) # {}
    <3>1. settings[n] \in ValueIn(Merged, n)
      BY <2>1, <2>4
    <3>2. QED
      BY <2>1, <2>2, <2>4, <3>1
  <2>5. CASE ~Ignored(n, Merged) /\ ValueIn(Merged, n) = {}
    <3>1. settings[n] = Before(n, Merged) /\ ReadOf(n) = {}
      BY <2>1, <2>5
    <3>2. CASE n # "lower_max_parts"
      BY <3>1, <3>2 DEF Before
    <3>3. CASE n = "lower_max_parts"
      <4>1. n \in Bools
        BY <3>3 DEF Bools
      <4>2. n \notin DOMAIN Merged
        <5>1. ASSUME n \in DOMAIN Merged PROVE FALSE
          <6>1. Merged[n] \in Switch
            BY <1>1, <4>1, <5>1, SwitchIsRead
          <6>2. ValueIn(Merged, n) = Value(n, Merged[n])
            BY <5>1 DEF ValueIn, Has
          <6>3. QED
            BY <2>5, <4>1, <6>1, <6>2, Values
        <5>2. QED
          BY <5>1
      <4>3. settings[n] = "0"
        BY <3>1, <3>3, <4>2 DEF Before, Has
      <4>4. QED
        BY <3>1, <3>3, <4>3
    <3>4. QED
      BY <3>2, <3>3
  <2>6. QED
    BY <2>3, <2>4, <2>5
<1>6. ReadOf("max_bytes") \cap {"7", "big"} # {} => maxBytes \in ReadOf("max_bytes")
  <2>1. ReadOf("max_bytes") = ValueIn(Merged, "max_bytes")
    BY <1>2, <1>3
  <2> DEFINE limit == ValueIn(Merged, "max_bytes") \ {"0"}
  <2>2. maxBytes = IF limit = {} THEN "150G" ELSE CHOOSE v \in limit : TRUE
    BY <1>1 DEF LimitIn
  <2>3. ValueIn(Merged, "max_bytes") \cap {"7", "big"} # {} => limit # {}
    OBVIOUS
  <2>4. limit # {} => (CHOOSE v \in limit : TRUE) \in limit
    OBVIOUS
  <2>5. limit \subseteq ValueIn(Merged, "max_bytes")
    OBVIOUS
  <2> HIDE DEF limit
  <2>6. QED
    BY <2>1, <2>2, <2>3, <2>4, <2>5
<1>7. Configured("algorithm") \cap {"StochasticSimple", "Trivial"} # {} => note # ""
  <2>1. SUFFICES ASSUME Configured("algorithm") \cap {"StochasticSimple", "Trivial"} # {}
                 PROVE  note # ""
    OBVIOUS
  <2>2. "algorithm" \in DOMAIN Merged /\ Configured("algorithm") = {Merged["algorithm"]}
    BY <1>1, <1>3, <2>1, ConfiguredIs
  <2>3. Merged["algorithm"] \in {"StochasticSimple", "Trivial"}
    BY <2>1, <2>2
  <2>4. note = Merged["algorithm"]
    BY <1>1, <2>2, <2>3 DEF NoteOn, Has, NoteFree
  <2>5. QED
    BY <2>3, <2>4
<1>8. QED
  BY <1>5, <1>6, <1>7 DEF Effective, OnlyPartitions, ReadOf

\* The kinds of values of a setting.
KindOf(n) == CASE n \in Bools -> {"0", "1"}
               [] n = "base"  -> {"5", "7", "2.5"}
               [] OTHER       -> {"0", "5", "7", "100", "1000", "3000"}

LEMMA KindsAre ==
  ASSUME NEW n \in Applied
  PROVE  /\ Defaults[n] \in KindOf(n) /\ \A texts : Before(n, texts) \in KindOf(n)
         /\ \A texts : ValueIn(texts, n) \subseteq KindOf(n)
<1>1. n \in Bools \/ n = "base" \/ n \in Ints
  BY DEF Applied, Names
<1>2. Defaults[n] = CASE n = "max_parts"      -> "100"  [] n = "min_parts"   -> "0"
                      [] n = "parts_to_throw" -> "3000" [] n = "window_size" -> "1000"
                      [] n = "base"           -> "5"    [] n = "lower_exponent" -> "5"
                      [] n \in Bools          -> "1"    [] OTHER -> "0"
  BY DEF Defaults
<1>3. \A texts : /\ ValueIn(texts, n) = {} \/ ValueIn(texts, n) = Value(n, texts[n])
                 /\ Before(n, texts) \in {Defaults[n], "0"}
                 /\ n # "lower_max_parts" => Before(n, texts) = Defaults[n]
  BY DEF ValueIn, Before
<1>4. CASE n \in Bools
  <2>1. n # "base" /\ n \notin Ints /\ KindOf(n) = {"0", "1"}
    BY <1>4 DEF KindOf, Bools, Ints
  <2>2. /\ n # "max_parts" /\ n # "min_parts" /\ n # "parts_to_throw" /\ n # "window_size"
        /\ n # "lower_exponent"
    BY <1>4 DEF Bools
  <2>3. Defaults[n] = "1"
    BY <1>2, <1>4, <2>1, <2>2
  <2>4. \A t : Value(n, t) \subseteq {"0", "1"}
    BY <1>4, Values
  <2>5. QED
    BY <1>3, <2>1, <2>3, <2>4
<1>5. CASE n = "base"
  <2>1. n \notin Bools /\ KindOf(n) = {"5", "7", "2.5"} /\ n # "lower_max_parts"
    BY <1>5 DEF KindOf, Bools
  <2>2. Defaults[n] = "5"
    BY <1>2, <1>5, <2>1
  <2>3. \A t : Value(n, t) \subseteq {"7", "2.5"}
    BY <1>5, Values
  <2>4. QED
    BY <1>3, <2>1, <2>2, <2>3
<1>6. CASE n \in Ints
  <2>1. /\ n \notin Bools /\ n # "base" /\ n # "lower_max_parts"
        /\ KindOf(n) = {"0", "5", "7", "100", "1000", "3000"}
    BY <1>6 DEF KindOf, Bools, Ints
  <2>2. Defaults[n] \in {"0", "5", "100", "1000", "3000"}
    <3>1. CASE n = "max_parts"
      BY <1>2, <2>1, <3>1
    <3>2. CASE n = "min_parts"
      BY <1>2, <2>1, <3>2
    <3>3. CASE n = "parts_to_throw"
      BY <1>2, <2>1, <3>3
    <3>4. CASE n = "window_size"
      BY <1>2, <2>1, <3>4
    <3>5. CASE n = "lower_exponent"
      BY <1>2, <2>1, <3>5
    <3>6. CASE n \notin {"max_parts", "min_parts", "parts_to_throw", "window_size", "lower_exponent"}
      BY <1>2, <2>1, <3>6
    <3>7. QED
      BY <3>1, <3>2, <3>3, <3>4, <3>5, <3>6
  <2>3. \A t : Value(n, t) \subseteq {"0", "7"}
    BY <1>6, Values
  <2>4. QED
    BY <1>3, <2>1, <2>2, <2>3
<1>7. QED
  BY <1>1, <1>4, <1>5, <1>6

LEMMA SettingsTypes == ASSUME SettingsInv, pc # "ended" PROVE TypeOK
<1>1. ParseTypeOK
  BY ParseTypes DEF SettingsInv
<1>2. resp.warning \in BOOLEAN /\ DOMAIN resp.texts \subseteq Names
  <2>1. DOMAIN Merged \subseteq Names /\ DOMAIN <<>> = {}
    BY DEF Merged
  <2>2. \/ resp = [texts |-> Merged, warning |-> FALSE]
        \/ resp = [texts |-> <<>>, warning |-> TRUE]
        \/ resp = [texts |-> <<>>, warning |-> FALSE]
    BY DEF SettingsInv, Stages
  <2>5. ASSUME NEW texts, NEW w \in BOOLEAN, resp = [texts |-> texts, warning |-> w]
        PROVE  resp.warning \in BOOLEAN /\ resp.texts = texts
    BY <2>5
  <2>3. resp.warning \in BOOLEAN /\ (resp.texts = Merged \/ resp.texts = <<>>)
    BY <2>2, <2>5
  <2>4. QED
    BY <2>1, <2>3
<1>3. ASSUME NEW n \in Applied PROVE settings[n] \in KindOf(n)
  <2>1. CASE settings = Defaults
    BY <2>1, KindsAre
  <2>2. CASE settings = AppliedTo(resp.texts)
    <3>1. settings[n] = IF ValueIn(resp.texts, n) = {} \/ Ignored(n, resp.texts)
                        THEN Before(n, resp.texts)
                        ELSE CHOOSE v \in ValueIn(resp.texts, n) : TRUE
      BY <2>2 DEF AppliedTo
    <3>2. \/ settings[n] = Before(n, resp.texts)
          \/ settings[n] \in ValueIn(resp.texts, n)
      BY <3>1
    <3>3. QED
      BY <3>2, KindsAre
  <2>3. QED
    BY <2>1, <2>2 DEF SettingsInv, Stages
<1>4. maxBytes \in {"7", "big", "150G"}
  <2>1. ASSUME NEW texts PROVE LimitIn(texts) \in {"7", "big", "150G"}
    <3> DEFINE limit == ValueIn(texts, "max_bytes") \ {"0"}
    <3>1. limit \subseteq {"7", "big"}
      BY Values DEF ValueIn
    <3>2. LimitIn(texts) = IF limit = {} THEN "150G" ELSE CHOOSE v \in limit : TRUE
      BY DEF LimitIn
    <3> HIDE DEF limit
    <3>3. QED
      BY <3>1, <3>2
  <2>2. QED
    BY <2>1 DEF SettingsInv, Stages
<1>5. QED
  <2>1. pc # "ended" => pc \in {"query", "apply", "limit", "done"}
    BY DEF SettingsInv, Stages
  <2>2. QED
    BY <1>1, <1>2, <1>3, <1>4, <2>1 DEF TypeOK, KindOf

\* What holds in every state of the settings.
LEMMA SettingsHold == StoreSpec => []SettingsInv
<1>1. StoreInit => SettingsInv
  BY InitSettings, EndedSettings DEF StoreInit
<1>2. SettingsInv /\ [StoreNext]_<<vars, requestVars, logVars>> => SettingsInv'
  <2> SUFFICES ASSUME SettingsInv, [StoreNext]_<<vars, requestVars, logVars>> PROVE SettingsInv'
    OBVIOUS
  <2>1. [Next]_vars
    BY DEF StoreNext
  <2>2. QED
    BY <2>1, StepSettings
<1>3. QED
  BY <1>1, <1>2, PTL DEF StoreSpec

\* ParseSettingsClause reads the settings of a clause one by one, each with the value it was
\* printed with, and at the end all of them and no other, for any definition and any clause.
THEOREM SettingsReadBack == StoreSpec => []ReadsBack
<1>1. SettingsInv => ReadsBack
  BY ParseReads DEF SettingsInv
<1>2. QED
  BY <1>1, SettingsHold, PTL

\* The candidates are computed with the settings that the clause and the server give, where
\* Go can read them, or the reply warns, for any settings of the two.
THEOREM SettingsApplied == StoreSpec => []EffectiveOrWarned
BY SettingsTell, SettingsHold, PTL

-----------------------------------------------------------------------------
(***************************************************************************)
(* The kinds of values.                                                    *)
(***************************************************************************)
RequestKinds ==
  /\ cluster \in BOOLEAN /\ failed \in BOOLEAN
  /\ step \in {"start", "ping", "tables", "table", "columns", "indices", "hosts", "done"}
  /\ known \subseteq Columns /\ columns \in Seq(Columns)
  /\ reply.status \in {0, 200, 400, 502} /\ reply.host \in Hosts \cup {Request!NoHost}

LEMMA InitRequestKinds == Request!Init \/ RequestEnded => RequestKinds
<1> SUFFICES ASSUME Request!Init \/ RequestEnded PROVE RequestKinds
  OBVIOUS
<1>1. /\ cluster \in BOOLEAN /\ failed = FALSE /\ step \in {"start", "done"}
      /\ known = {} /\ columns = <<>>
      /\ reply = [status |-> 0, host |-> Request!NoHost, columns |-> <<>>]
  BY DEF Request!Init, RequestEnded
<1>2. reply.status \in {0, 200, 400, 502} /\ reply.host \in Hosts \cup {Request!NoHost}
  BY <1>1
<1>3. known \subseteq Columns /\ columns \in Seq(Columns)
  BY <1>1
<1>4. step \in {"start", "ping", "tables", "table", "columns", "indices", "hosts", "done"}
  BY <1>1
<1>5. QED
  BY <1>1, <1>2, <1>3, <1>4, Zenon DEF RequestKinds

LEMMA ChosenIsHost ==
  ASSUME RequestInv PROVE Request!Chosen \in Hosts \cup {Request!NoHost}
<1>1. request.host \in Hosts \cup {Request!NoHost} /\ replicas \subseteq Hosts
  BY DEF RequestInv, Request!Requests
<1>2. CASE request.host = Request!NoHost /\ replicas # {}
  <2>1. Hosts \subseteq Nat
    BY RequestAssumption
  <2>2. PICK h \in replicas : \A g \in replicas : h <= g
    BY <1>1, <1>2, <2>1, LeastNumber
  <2>3. Request!Chosen \in replicas
    BY <1>2, <2>2, Zenon DEF Request!Chosen
  <2>4. QED
    BY <1>1, <2>3
<1>3. CASE ~(request.host = Request!NoHost /\ replicas # {})
  <2>1. Request!Chosen = request.host
    BY <1>3, Zenon DEF Request!Chosen
  <2>2. QED
    BY <1>1, <2>1
<1>4. QED
  BY <1>2, <1>3

\* What is read of a table are columns.
LEMMA ReadColumnsKinds ==
  ASSUME RequestKinds, ListInv, Request!ReadColumns PROVE RequestKinds'
<1>1. /\ step' = "indices" /\ UNCHANGED <<cluster, failed, reply>>
      /\ known' = Request!ToSet(table.columns) /\ columns' = Keys(table.columns)
  BY DEF Request!ReadColumns, Request!Goto, Request!world, Request!asked, Keys
<1>2. table.columns \in Seq(Columns) /\ Request!ToSet(table.columns) \subseteq Columns
  <2>1. CASE table \in Request!Tables
    BY <2>1, TableShape
  <2>2. CASE table = Request!NoTable
    BY <2>2 DEF Request!NoTable, Request!ToSet
  <2>3. QED
    BY <2>1, <2>2 DEF ListInv
<1>3. Keys(table.columns) \in Seq(Columns)
  BY <1>2, KeysSelected DEF Selected
<1>4. QED
  BY <1>1, <1>2, <1>3 DEF RequestKinds

LEMMA ReadIndicesKinds ==
  ASSUME RequestKinds, RequestInv, ListInv, Request!ReadIndices PROVE RequestKinds'
<1>1. /\ step = "indices" /\ request.path = "table" /\ UNCHANGED <<cluster, failed, known>>
      /\ columns' \in {columns, Indexed(columns, table.indices)}
      /\ \/ step' = "hosts" /\ UNCHANGED reply
         \/ Request!Reply(200, Request!NoHost, columns')
  BY DEF Request!ReadIndices, Request!Goto, Request!world, Request!asked, Indexed, RequestInv
<1>2. columns \in Seq(known)
  BY <1>1 DEF ListInv
<1>3. \E T : table.indices \in Seq(T)
  <2>1. CASE table \in Request!Tables
    BY <2>1, TableShape
  <2>2. CASE table = Request!NoTable
    <3>1. table.indices \in Seq(Columns)
      BY <2>2 DEF Request!NoTable
    <3>2. QED
      BY <3>1
  <2>3. QED
    BY <2>1, <2>2 DEF ListInv
<1>4. Extended(Indexed(columns, table.indices), columns, table.indices, Len(table.indices))
  BY <1>2, <1>3, IndicesExtend
<1>5. columns' \in Seq(known) /\ known \subseteq Columns
  BY <1>1, <1>2, <1>4 DEF Extended, RequestKinds
<1>6. columns' \in Seq(Columns)
  BY <1>5
<1>7. QED
  BY <1>1, <1>6 DEF RequestKinds, Request!Reply

LEMMA StepRequestKinds ==
  ASSUME RequestKinds, RequestInv, ListInv, Request!Next PROVE RequestKinds'
<1> USE DEF Request!Goto, Request!Reply, Request!world, Request!asked
<1>1. CASE Request!Change
  BY <1>1 DEF Request!Change, RequestKinds
<1>2. CASE Request!Start
  <2>1. UNCHANGED <<cluster, known, columns, failed>>
    BY <1>2 DEF Request!Start
  <2>2. \/ Request!Reply(400, Request!NoHost, <<>>)
        \/ Request!Reply(200, Request!NoHost, <<>>)
        \/ step' = Request!FirstQuestion /\ UNCHANGED reply
    BY <1>2, Zenon DEF Request!Start
  <2>3. Request!FirstQuestion \in {"ping", "hosts", "tables", "table"}
    <3>1. request.path \in {"healthz", "config", "tables", "table"}
      BY DEF RequestInv, Request!Requests
    <3>2. QED
      BY <3>1 DEF Request!FirstQuestion
  <2>4. QED
    BY <2>1, <2>2, <2>3 DEF RequestKinds
<1>3. CASE Request!Fail
  BY <1>3 DEF Request!Fail, Request!StatusOfFailure, RequestKinds
<1>4. CASE Request!Answered
  BY <1>4 DEF Request!Answered, RequestKinds
<1>5. CASE Request!ReadTable
  BY <1>5 DEF Request!ReadTable, RequestKinds
<1>6. CASE Request!ReadColumns
  BY <1>6, ReadColumnsKinds
<1>7. CASE Request!ReadIndices
  BY <1>7, ReadIndicesKinds
<1>8. CASE Request!ReadHosts
  <2>1. UNCHANGED <<cluster, known, columns, failed>>
    BY <1>8 DEF Request!ReadHosts
  <2>2. \/ Request!Reply(200, Request!NoHost, <<>>)
        \/ Request!Reply(200, Request!Chosen, columns)
        \/ Request!Reply(400, Request!NoHost, <<>>)
    BY <1>8, Zenon DEF Request!ReadHosts
  <2>3. QED
    BY <2>1, <2>2, ChosenIsHost DEF RequestKinds
<1>9. QED
  BY <1>1, <1>2, <1>3, <1>4, <1>5, <1>6, <1>7, <1>8 DEF Request!Next, Request!Handler

\* A part has one row at most.
OneRow(rows) == \A e, f \in rows : e.part = f.part => e = f

LogKinds ==
  /\ logStep \in {"probe", "wait", "done"} /\ back \subseteq {"parts", "log", "cut"}
  /\ parts \subseteq PartNames
  /\ partLog \subseteq Log!Creations /\ OneRow(partLog)

LEMMA InitLogKinds == Log!Init \/ LogEnded => LogKinds
BY DEF Log!Init, LogEnded, LogKinds, OneRow

LEMMA RowsAreCreations ==
  ASSUME LogTypes, NEW names \in SUBSET PartNames, NEW rows \in Log!Rows(names)
  PROVE  rows \subseteq Log!Creations /\ OneRow(rows)
<1>1. \A e \in rows : \E p \in names : e \in Log!Latest(p)
  BY DEF Log!Rows
<1>2. ASSUME NEW e \in rows
      PROVE  \E p \in names : e \in Log!Found(p) /\ e \in log /\ e.part = p /\ e.kind # "RemovePart"
  BY <1>1 DEF Log!Latest, Log!Found, Log!Creates
<1>3. rows \subseteq Log!Creations
  <2> SUFFICES ASSUME NEW e \in rows PROVE e \in Log!Creations
    OBVIOUS
  <2>1. e \in Log!Event /\ e.kind # "RemovePart"
    BY <1>2 DEF LogTypes
  <2>2. QED
    BY <2>1 DEF Log!Creations, Log!Event
<1>4. ASSUME NEW e \in rows, NEW f \in rows, e.part = f.part PROVE e = f
  <2>1. PICK p \in names : e \in Log!Found(p) /\ e.part = p
    BY <1>2
  <2>2. PICK g \in rows : {r \in rows : r.part = p} = {g}
    BY <2>1, Zenon DEF Log!Rows
  <2>3. e \in {r \in rows : r.part = p} /\ f \in {r \in rows : r.part = p}
    BY <1>4, <2>1
  <2>4. QED
    BY <2>2, <2>3
<1>5. QED
  BY <1>3, <1>4 DEF OneRow

LEMMA StepLogKinds == ASSUME LogKinds, LogInv, Log!Next PROVE LogKinds'
<1>1. CASE Log!ClickHouse
  BY <1>1 DEF Log!ClickHouse, Log!request, LogKinds, OneRow
<1>2. CASE Log!Probe
  BY <1>2 DEF Log!Probe, LogKinds, OneRow
<1>3. CASE Log!ReadParts
  BY <1>3 DEF Log!ReadParts, Log!ActiveOn, LogKinds, OneRow
<1>4. CASE Log!ReadLog
  <2>1. PICK names \in SUBSET PartNames : partLog' \in Log!Rows(names)
    BY <1>4 DEF Log!ReadLog
  <2>2. partLog' \subseteq Log!Creations /\ OneRow(partLog')
    BY <2>1, RowsAreCreations DEF LogInv
  <2>3. UNCHANGED <<logStep, parts>> /\ back' \subseteq {"parts", "log", "cut"}
    BY <1>4 DEF Log!ReadLog, LogKinds
  <2>4. QED
    BY <2>2, <2>3 DEF LogKinds, OneRow, Log!Creations, Log!Event
<1>5. CASE Log!Join
  BY <1>5 DEF Log!Join, LogKinds, OneRow
<1>6. QED
  BY <1>1, <1>2, <1>3, <1>4, <1>5 DEF Log!Next

\* The settings, the request and the events of parts are of their kinds.
THEOREM StoreTypes == StoreSpec => []StoreTypeOK
<1> DEFINE Inv == RequestInv /\ ListInv /\ RequestKinds /\ LogInv /\ LogKinds
<1>1. StoreInit => Inv
  BY InitRequest, EndedRequest, InitList, EndedList, InitRequestKinds,
     InitLog, EndedLog, InitLogKinds DEF StoreInit
<1>2. Inv /\ [StoreNext]_<<vars, requestVars, logVars>> => Inv'
  <2> SUFFICES ASSUME Inv, [StoreNext]_<<vars, requestVars, logVars>> PROVE Inv'
    OBVIOUS
  <2>1. RequestInv' /\ ListInv' /\ LogInv'
    BY StaysRequest, StaysPartLog
  <2>2. RequestKinds'
    <3>1. CASE Request!Next
      BY <3>1, StepRequestKinds
    <3>2. CASE UNCHANGED requestVars
      BY <3>2 DEF requestVars, RequestKinds
    <3>3. QED
      BY <3>1, <3>2 DEF StoreNext
  <2>3. LogKinds'
    <3>1. CASE Log!Next
      BY <3>1, StepLogKinds
    <3>2. CASE UNCHANGED logVars
      BY <3>2 DEF logVars, LogKinds, OneRow
    <3>3. QED
      BY <3>1, <3>2 DEF StoreNext
  <2>4. QED
    BY <2>1, <2>2, <2>3
<1>3. ASSUME Inv, SettingsInv PROVE StoreTypeOK
  <2>1. pc # "ended" => TypeOK
    BY <1>3, SettingsTypes
  <2>2. Request!TypeOK
    BY <1>3 DEF RequestInv, ListInv, RequestKinds, Request!TypeOK, Request!ToSet
  <2>3. Log!TypeOK
    BY <1>3 DEF LogInv, LogTypes, Joined, LogKinds, OneRow, Log!TypeOK
  <2>4. QED
    BY <2>1, <2>2, <2>3 DEF StoreTypeOK
<1>4. QED
  BY <1>1, <1>2, <1>3, SettingsHold, PTL DEF StoreSpec
=============================================================================
