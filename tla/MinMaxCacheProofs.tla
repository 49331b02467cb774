---------------------------- MODULE MinMaxCacheProofs ----------------------------
(***************************************************************************)
(* Proofs about MinMaxCache, for any number of requests and partitions,    *)
(* any limit and any times.                                                *)
(***************************************************************************)
EXTENDS MinMaxCache, FiniteSetTheorems, TLAPS

-----------------------------------------------------------------------------
(***************************************************************************)
(* The size of the cache.                                                  *)
(***************************************************************************)
Bounded == IsFiniteSet(DOMAIN cache) /\ CacheBounded

\* The cache starts empty.
LEMMA InitBounded == Init => Bounded
<1>1. DOMAIN Empty = {}
  BY DEF Empty
<1>2. QED
  BY <1>1, FS_EmptySet, TimeAssumption DEF Init, Bounded, CacheBounded

\* An entry is added to a cache that has room for it, or to an empty one.
LEMMA StoreBounded == ASSUME Bounded, NEW r \in Requests, Store(r) PROVE Bounded'
<1>1. /\ IsFiniteSet(DOMAIN Kept)
      /\ Cardinality(DOMAIN Kept) \in Nat /\ Cardinality(DOMAIN Kept) <= Limit
  <2>1. CASE Cardinality(DOMAIN cache) > Limit
    <3>1. DOMAIN Kept = {}
      BY <2>1 DEF Kept, Empty
    <3>2. QED
      BY <3>1, FS_EmptySet, TimeAssumption
  <2>2. CASE ~(Cardinality(DOMAIN cache) > Limit)
    <3>1. Kept = cache /\ Cardinality(DOMAIN cache) \in Nat
      BY <2>2, FS_CardinalityType DEF Kept, Bounded
    <3>2. QED
      BY <2>2, <3>1, TimeAssumption DEF Bounded
  <2>3. QED
    BY <2>1, <2>2
<1> DEFINE p == req[r].partition
<1>2. DOMAIN cache' = DOMAIN Kept \cup {p}
  BY DEF Store, Put
<1>3. /\ IsFiniteSet(DOMAIN Kept \cup {p})
      /\ Cardinality(DOMAIN Kept \cup {p}) <= Cardinality(DOMAIN Kept) + 1
  <2>1. IsFiniteSet(DOMAIN Kept \cup {p})
    BY <1>1, FS_AddElement
  <2>2. Cardinality(DOMAIN Kept \cup {p}) =
          IF p \in DOMAIN Kept THEN Cardinality(DOMAIN Kept) ELSE Cardinality(DOMAIN Kept) + 1
    BY <1>1, FS_AddElement
  <2>3. QED
    BY <1>1, <2>1, <2>2
<1>4. Cardinality(DOMAIN Kept \cup {p}) \in Nat
  BY <1>3, FS_CardinalityType
<1>5. QED
  BY <1>1, <1>2, <1>3, <1>4, TimeAssumption DEF Bounded, CacheBounded

\* No other step touches the cache.
LEMMA StepBounded == Bounded /\ [Next]_vars => Bounded'
<1> SUFFICES ASSUME Bounded, [Next]_vars PROVE Bounded'
  OBVIOUS
<1>1. ASSUME NEW r \in Requests, Store(r) PROVE Bounded'
  BY <1>1, StoreBounded
<1>2. ASSUME UNCHANGED cache PROVE Bounded'
  BY <1>2 DEF Bounded, CacheBounded
<1>3. CASE UNCHANGED vars
  BY <1>2, <1>3 DEF vars
<1>4. CASE Tick \/ Alter
  BY <1>2, <1>4 DEF Tick, Alter
<1>5. ASSUME NEW r \in Requests, Ask(r) \/ Handle(r) PROVE Bounded'
  <2>1. CASE Ask(r) \/ ReadTable(r) \/ Hit(r) \/ Miss(r) \/ Read(r) \/ Arrive(r) \/ Fail(r)
    BY <1>2, <2>1 DEF Ask, ReadTable, Hit, Miss, Read, Arrive, Fail
  <2>2. QED
    BY <1>1, <1>5, <2>1 DEF Handle
<1>6. QED
  BY <1>3, <1>4, <1>5 DEF Next

\* The cache has at most one entry above its limit, however many requests store.
THEOREM NeverOverfull == Spec => []CacheBounded
<1>1. Spec => []Bounded
  BY InitBounded, StepBounded, PTL DEF Spec
<1>2. Bounded => CacheBounded
  BY DEF Bounded
<1>3. QED
  BY <1>1, <1>2, PTL

-----------------------------------------------------------------------------
(***************************************************************************)
(* The age of what is served.  A reply says nothing of what another        *)
(* request stored; the invariant follows an answer from the query that     *)
(* computed it to the entry it becomes.                                    *)
(***************************************************************************)
EntryOK(p, e) ==
  /\ e.rows.of = p
  /\ e.at \in Nat /\ e.at <= now
  /\ e.rows.asof \in Nat /\ e.at <= e.rows.asof + Timeout

RequestOK(r) ==
  /\ req[r].looked \in Nat
  /\ pc[r] \in {"query", "answered"} => req[r].looked <= now /\ now <= req[r].looked + Timeout
  /\ pc[r] \in {"answered", "store"} => req[r].rows.of = req[r].partition
                                        /\ req[r].rows.asof \in Nat
  /\ pc[r] = "answered" => req[r].looked <= req[r].rows.asof
  /\ pc[r] = "store" => req[r].at = now /\ now <= req[r].rows.asof + Timeout

AllColumns == PlainColumns \cup UNION IndexColumns
Names      == Partitions \cup {"none"}
SomeRows   == [of : Names, columns : SUBSET AllColumns, asof : Nat]
Stages     == {"idle", "table", "lookup", "query", "answered", "store", "replied", "failed"}

Shape ==
  /\ now \in Nat /\ index \in IndexColumns
  /\ pc \in [Requests -> Stages]
  /\ req \in [Requests -> [partition : Names, columns : SUBSET AllColumns, looked : Nat,
                           at : Nat, rows : SomeRows]]
  /\ \A p \in DOMAIN cache : cache[p].rows \in SomeRows

Fresh ==
  /\ Shape
  /\ \A p \in DOMAIN cache : EntryOK(p, cache[p])
  /\ \A r \in Requests : RequestOK(r)

\* No request has anything at the start.
LEMMA InitFresh == Init => Fresh
  BY DEF Init, Fresh, Shape, Stages, EntryOK, RequestOK, Blank, NoRows, RowsOf, Empty,
         SomeRows, Names, AllColumns

\* A step of one request leaves the others as they are.
LEMMA OneRequest ==
  ASSUME Fresh, NEW r \in Requests, Shape', RequestOK(r)', now' = now,
         \A p \in DOMAIN cache' : EntryOK(p, cache'[p]),
         \A q \in Requests \ {r} : pc'[q] = pc[q] /\ req'[q] = req[q]
  PROVE  Fresh'
<1>1. ASSUME NEW q \in Requests \ {r} PROVE RequestOK(q)'
  BY <1>1 DEF Fresh, RequestOK
<1>2. \A q \in Requests : RequestOK(q)'
  BY <1>1
<1>3. \A p \in DOMAIN cache' : EntryOK(p, cache[p])'
  BY DEF EntryOK
<1>4. QED
  BY <1>2, <1>3 DEF Fresh

\* What a request stores is as fresh as it may be, and so is what it leaves.
LEMMA StoreFresh == ASSUME Fresh, NEW r \in Requests, Store(r) PROVE Fresh'
<1> DEFINE e == [at |-> req[r].at, rows |-> req[r].rows]
           p == req[r].partition
<1>1. EntryOK(p, e) /\ e.rows \in SomeRows
  BY DEF Fresh, Shape, RequestOK, EntryOK, Store
<1>2. \A k \in DOMAIN Kept : EntryOK(k, Kept[k]) /\ Kept[k].rows \in SomeRows
  BY DEF Kept, Empty, Fresh, Shape
<1>3. cache' = Put(Kept, p, e) /\ now' = now
  BY DEF Store
<1>4. \A k \in DOMAIN cache' : EntryOK(k, cache'[k]) /\ cache'[k].rows \in SomeRows
  <2> HIDE DEF e, p
  <2>1. ASSUME NEW k \in DOMAIN cache'
        PROVE  \/ k = p /\ cache'[k] = e
               \/ k \in DOMAIN Kept /\ cache'[k] = Kept[k]
    BY <1>3, <2>1 DEF Put
  <2>2. QED
    BY <1>1, <1>2, <2>1
<1>5. Shape'
  BY <1>4 DEF Store, Fresh, Shape, Stages
<1>6. RequestOK(r)'
  BY DEF Store, Fresh, Shape, RequestOK
<1>7. QED
  BY <1>4, <1>5, <1>6, OneRequest DEF Store, Fresh, Shape

\* No step makes anything staler than it may be.
LEMMA StepFresh == Fresh /\ [Next]_vars => Fresh'
<1> SUFFICES ASSUME Fresh, [Next]_vars PROVE Fresh'
  OBVIOUS
<1> USE TimeAssumption
<1>1. CASE Tick
  BY <1>1 DEF Tick, Fresh, Shape, Stages, EntryOK, RequestOK
<1>2. CASE Alter
  BY <1>2 DEF Alter, Fresh, Shape, EntryOK, RequestOK
<1>3. ASSUME NEW r \in Requests, Ask(r) PROVE Fresh'
  BY <1>3, OneRequest DEF Ask, Fresh, Shape, Stages, EntryOK, RequestOK, Blank, NoRows, RowsOf,
     SomeRows, Names, AllColumns
<1>4. ASSUME NEW r \in Requests, ReadTable(r) PROVE Fresh'
  BY <1>4, OneRequest DEF ReadTable, Fresh, Shape, Stages, EntryOK, RequestOK, AllColumns
<1>5. ASSUME NEW r \in Requests, Hit(r) PROVE Fresh'
  BY <1>5, OneRequest DEF Hit, Live, Fresh, Shape, Stages, EntryOK, RequestOK
<1>6. ASSUME NEW r \in Requests, Miss(r) PROVE Fresh'
  BY <1>6, OneRequest DEF Miss, Fresh, Shape, Stages, EntryOK, RequestOK
<1>7. ASSUME NEW r \in Requests, Read(r) PROVE Fresh'
  BY <1>7, OneRequest DEF Read, RowsOf, SomeRows, Fresh, Shape, Stages, EntryOK, RequestOK
<1>8. ASSUME NEW r \in Requests, Arrive(r) PROVE Fresh'
  BY <1>8, OneRequest DEF Arrive, Fresh, Shape, Stages, EntryOK, RequestOK
<1>9. ASSUME NEW r \in Requests, Store(r) PROVE Fresh'
  BY <1>9, StoreFresh
<1>10. ASSUME NEW r \in Requests, Fail(r) PROVE Fresh'
  BY <1>10, OneRequest DEF Fail, Fresh, Shape, Stages, EntryOK, RequestOK
<1>11. CASE UNCHANGED vars
  BY <1>11 DEF vars, Fresh, Shape, EntryOK, RequestOK
<1>12. QED
  BY <1>1, <1>2, <1>3, <1>4, <1>5, <1>6, <1>7, <1>8, <1>9, <1>10, <1>11 DEF Next, Handle

\* Replies are sent by Hit and by Store alone, and both have fresh rows to send.
LEMMA ReplyFresh ==
  Fresh /\ [Next]_vars =>
    [\A r \in Requests : Replies(r) =>
        /\ req'[r].rows.of = req[r].partition
        /\ now - req'[r].rows.asof <= TTL + Timeout]_vars
<1> SUFFICES ASSUME Fresh, Next, NEW r \in Requests, Replies(r)
             PROVE  /\ req'[r].rows.of = req[r].partition
                    /\ now - req'[r].rows.asof <= TTL + Timeout
  OBVIOUS
<1>1. Hit(r) \/ Store(r)
  BY DEF Next, Handle, Tick, Alter, Ask, ReadTable, Hit, Miss, Read, Arrive, Store, Fail,
         Replies, Fresh, Shape
<1>2. CASE Hit(r)
  BY <1>2, TimeAssumption DEF Hit, Live, Fresh, Shape, EntryOK
<1>3. CASE Store(r)
  BY <1>3, TimeAssumption DEF Store, Fresh, Shape, RequestOK
<1>4. QED
  BY <1>1, <1>2, <1>3

LEMMA FreshInvariant == Spec => []Fresh
BY InitFresh, StepFresh, PTL DEF Spec

\* However requests for one partition overlap, a reply has the rows of the partition it
\* was asked for, at most TTL + Timeout old.
THEOREM AlwaysServedFresh == Spec => ServedFresh
BY FreshInvariant, ReplyFresh, PTL DEF Spec, ServedFresh

-----------------------------------------------------------------------------
(***************************************************************************)
(* The kinds of values, and the columns of what is served.  Until an index *)
(* changes, or a query for them fails, every request has the same columns, *)
(* and so has all that is in the cache.                                    *)
(***************************************************************************)
HasColumns(r) == pc[r] \in {"lookup", "query", "answered", "store", "replied"}
HasRows(r)    == pc[r] \in {"answered", "store", "replied"}

Known(r) ==
  /\ pc[r] \in Stages
  /\ pc[r] # "idle" => req[r].partition \in Partitions
  /\ HasColumns(r) => req[r].columns \in Columns
  /\ HasRows(r) => req[r].rows \in Rows
  /\ pc[r] = "store" => req[r].at \in 0 .. MaxTime

Kinds ==
  /\ now \in 0 .. MaxTime /\ index \in IndexColumns
  /\ DOMAIN cache \subseteq Partitions /\ \A p \in DOMAIN cache : cache[p] \in Entries
  /\ \A r \in Requests : Known(r)

Present == PlainColumns \cup index

Steady ==
  steady =>
    /\ \A p \in DOMAIN cache : cache[p].rows.columns = Present
    /\ \A r \in Requests : /\ HasColumns(r) => req[r].columns = Present
                           /\ HasRows(r) => req[r].rows.columns = Present

LEMMA InitKinds == Init => Kinds /\ Steady
BY TimeAssumption DEF Init, Kinds, Steady, Known, HasColumns, HasRows, Stages, Empty

\* A step of one request leaves the others, the clock and the indices as they are.
LEMMA OneRequestKinds ==
  ASSUME Kinds, Steady, NEW r \in Requests, now' = now, index' = index, steady' => steady,
         \A q \in Requests \ {r} : pc'[q] = pc[q] /\ req'[q] = req[q],
         Known(r)',
         steady' => /\ HasColumns(r)' => req'[r].columns = Present
                    /\ HasRows(r)' => req'[r].rows.columns = Present,
         \/ cache' = cache
         \/ /\ DOMAIN cache' \subseteq Partitions
            /\ \A p \in DOMAIN cache' : /\ cache'[p] \in Entries
                                        /\ steady => cache'[p].rows.columns = Present
  PROVE  Kinds' /\ Steady'
<1>1. \A q \in Requests \ {r} : Known(q)'
  BY DEF Kinds, Known, HasColumns, HasRows
<1>2. Kinds'
  BY <1>1 DEF Kinds
<1>3. steady' => \A q \in Requests \ {r} : /\ HasColumns(q)' => req'[q].columns = Present
                                          /\ HasRows(q)' => req'[q].rows.columns = Present
  BY DEF Steady, HasColumns, HasRows
<1>4. Present' = Present
  BY DEF Present
<1>5. steady' => \A p \in DOMAIN cache' : cache'[p].rows.columns = Present
  BY DEF Steady
<1>6. steady' => \A q \in Requests : /\ HasColumns(q)' => req'[q].columns = Present
                                    /\ HasRows(q)' => req'[q].rows.columns = Present
  BY <1>3
<1>7. Steady'
  BY <1>4, <1>5, <1>6 DEF Steady, HasColumns, HasRows
<1>8. QED
  BY <1>2, <1>7

LEMMA StoreKinds == ASSUME Shape, Kinds, Steady, NEW r \in Requests, Store(r) PROVE Kinds' /\ Steady'
<1> DEFINE e == [at |-> req[r].at, rows |-> req[r].rows]
           p == req[r].partition
<1>1. p \in Partitions /\ e \in Entries /\ (steady => e.rows.columns = Present)
  BY DEF Store, Kinds, Known, HasRows, Steady, Entries
<1>2. DOMAIN Kept \subseteq Partitions
      /\ \A k \in DOMAIN Kept : Kept[k] \in Entries /\ (steady => Kept[k].rows.columns = Present)
  BY DEF Kept, Empty, Kinds, Steady
<1>3. cache' = Put(Kept, p, e)
  BY DEF Store
<1>4. /\ DOMAIN cache' \subseteq Partitions
      /\ \A k \in DOMAIN cache' : cache'[k] \in Entries /\ (steady => cache'[k].rows.columns = Present)
  <2> HIDE DEF e, p
  <2>1. DOMAIN cache' = DOMAIN Kept \cup {p}
    BY <1>3 DEF Put
  <2>2. ASSUME NEW k \in DOMAIN cache'
        PROVE  \/ k = p /\ cache'[k] = e
               \/ k \in DOMAIN Kept /\ cache'[k] = Kept[k]
    BY <1>3, <2>1, <2>2 DEF Put
  <2>3. QED
    BY <1>1, <1>2, <2>1, <2>2
<1>5. /\ pc[r] = "store" /\ pc' = [pc EXCEPT ![r] = "replied"] /\ UNCHANGED <<now, index, req, steady>>
  BY DEF Store
<1>6. pc'[r] = "replied"
  BY <1>5 DEF Shape
<1>7. Known(r)'
  BY <1>5, <1>6 DEF Kinds, Known, HasColumns, HasRows, Stages
<1>8. steady' => /\ HasColumns(r)' => req'[r].columns = Present
                 /\ HasRows(r)' => req'[r].rows.columns = Present
  BY <1>5 DEF Steady, HasColumns, HasRows
<1>9. \A q \in Requests \ {r} : pc'[q] = pc[q] /\ req'[q] = req[q]
  BY <1>5 DEF Shape
<1>10. QED
  BY <1>4, <1>5, <1>7, <1>8, <1>9, OneRequestKinds

LEMMA StepKinds == ASSUME Shape, Kinds, Steady, [Next]_vars PROVE Kinds' /\ Steady'
<1> USE TimeAssumption DEF Stages, HasColumns, HasRows
<1>1. CASE Tick
  BY <1>1 DEF Tick, Kinds, Known, Steady, Present
<1>2. CASE Alter
  BY <1>2 DEF Alter, Kinds, Known, Steady
<1>3. ASSUME NEW r \in Requests, Ask(r) PROVE Kinds' /\ Steady'
  BY <1>3, OneRequestKinds DEF Ask, Shape, Known, Blank
<1>4. ASSUME NEW r \in Requests, ReadTable(r) PROVE Kinds' /\ Steady'
  <2>1. PICK found \in {index, {}} :
          /\ req' = [req EXCEPT ![r].columns = PlainColumns \cup found]
          /\ steady' = (steady /\ found = index)
    BY <1>4 DEF ReadTable
  <2>2. /\ pc[r] = "table" /\ pc' = [pc EXCEPT ![r] = "lookup"] /\ UNCHANGED <<now, index, cache>>
    BY <1>4 DEF ReadTable
  <2>3. pc'[r] = "lookup" /\ req'[r].columns = PlainColumns \cup found
        /\ req'[r].partition = req[r].partition
        /\ \A q \in Requests \ {r} : pc'[q] = pc[q] /\ req'[q] = req[q]
    BY <2>1, <2>2 DEF Shape
  <2>4. Known(r)'
    BY <2>2, <2>3 DEF Kinds, Known, Columns
  <2>5. steady' => steady /\ req'[r].columns = Present
    BY <2>1, <2>3 DEF Present
  <2>6. QED
    BY <2>2, <2>3, <2>4, <2>5, OneRequestKinds
<1>5. ASSUME NEW r \in Requests, Hit(r) PROVE Kinds' /\ Steady'
  BY <1>5, OneRequestKinds DEF Hit, Live, Shape, Kinds, Known, Steady, Entries
<1>6. ASSUME NEW r \in Requests, Miss(r) PROVE Kinds' /\ Steady'
  BY <1>6, OneRequestKinds DEF Miss, Shape, Kinds, Known, Steady
<1>7. ASSUME NEW r \in Requests, Read(r) PROVE Kinds' /\ Steady'
  BY <1>7, OneRequestKinds DEF Read, RowsOf, Rows, Shape, Kinds, Known, Steady
<1>8. ASSUME NEW r \in Requests, Arrive(r) PROVE Kinds' /\ Steady'
  BY <1>8, OneRequestKinds DEF Arrive, Shape, Kinds, Known, Steady
<1>9. ASSUME NEW r \in Requests, Store(r) PROVE Kinds' /\ Steady'
  BY <1>9, StoreKinds
<1>10. ASSUME NEW r \in Requests, Fail(r) PROVE Kinds' /\ Steady'
  BY <1>10, OneRequestKinds DEF Fail, Shape, Kinds, Known, Steady
<1>11. CASE UNCHANGED vars
  BY <1>11 DEF vars, Kinds, Known, Steady, Present
<1>12. QED
  BY <1>1, <1>2, <1>3, <1>4, <1>5, <1>6, <1>7, <1>8, <1>9, <1>10, <1>11 DEF Next, Handle

LEMMA KindsInvariant == Spec => [](Kinds /\ Steady)
<1>1. Fresh /\ Kinds /\ Steady /\ [Next]_vars => (Kinds /\ Steady)'
  BY StepKinds DEF Fresh
<1>2. QED
  BY <1>1, InitKinds, FreshInvariant, PTL DEF Spec

\* The kinds of values: what is cached and what is served are rows of a partition that was
\* asked for, with columns the table has or had.
THEOREM TypeCorrect == Spec => []TypeOK
<1>1. Kinds => TypeOK
  BY DEF Kinds, Known, HasRows, Stages, TypeOK
<1>2. QED
  BY <1>1, KindsInvariant, PTL

\* As long as the indices stay what they are and every query for them works, a reply names
\* the columns its rows have values for, whoever computed them.
THEOREM ColumnsMatch == Spec => []ColumnsMatchWhileSteady
<1>1. Steady => ColumnsMatchWhileSteady
  BY DEF Steady, HasColumns, HasRows, ColumnsMatchWhileSteady, ColumnsMatchRows
<1>2. QED
  BY <1>1, KindsInvariant, PTL
=============================================================================
