----------------------------- MODULE MinMaxCache -----------------------------
(***************************************************************************)
(* internal/api/handlers.go, minMax: GET /api/minmax and the cache behind  *)
(* it.  Any number of requests run at once; the mutex covers the lookup    *)
(* and the store, and nothing in between.                                  *)
(***************************************************************************)
EXTENDS Integers, FiniteSets

CONSTANTS
  Requests,      \* connections; each carries one request after another
  Partitions,    \* what may be asked for: host, database, table and partition_id
  PlainColumns,  \* the columns of the partition key
  IndexColumns,  \* what the minmax skipping indices can cover, over time
  TTL,           \* minmaxTTL
  Timeout,       \* the query's context.WithTimeout
  Limit,         \* 1000
  MaxTime        \* the clock stops here

ASSUME ColumnsAssumption == \A i \in IndexColumns : i \cap PlainColumns = {}
ASSUME TimeAssumption ==
  TTL \in Nat /\ Timeout \in Nat /\ Limit \in Nat /\ MaxTime \in Nat

VARIABLES
  now,
  index,   \* the columns that have a minmax index at present
  cache,   \* s.minmax: the entries it has, by partition
  pc,      \* where each request is
  req,     \* its partition, info.MinMaxColumns, the time it looked, its entry
  steady   \* history: the indices have not changed, nor has a query for them failed

vars == <<now, index, cache, pc, req, steady>>

\* Rows are known by what they answer: whose they are, which columns, and when
\* ClickHouse computed them.
\* Mistake: only the columns of the indices are selected.
RowsOfIndices(p, columns, time) == [of |-> p, columns |-> columns \ PlainColumns, asof |-> time]
RowsOf(p, columns, time) == [of |-> p, columns |-> columns, asof |-> time]
NoRows == RowsOf("none", {}, 0)
Blank  == [partition |-> "none", columns |-> {}, looked |-> 0, at |-> 0, rows |-> NoRows]

Empty        == [p \in {} |-> NoRows]
Put(f, k, v) == [x \in DOMAIN f \cup {k} |-> IF x = k THEN v ELSE f[x]]

\* Time passes, but no context outlives its timeout, and a request that has its answer
\* stores and sends it at once.
Tick ==
  /\ now < MaxTime
  /\ \A r \in Requests : /\ pc[r] # "store"
                         /\ pc[r] \in {"query", "answered"} => now < req[r].looked + Timeout
  /\ now' = now + 1
  /\ UNCHANGED <<index, cache, pc, req, steady>>

\* ALTER TABLE ... ADD or DROP INDEX.
Alter ==
  /\ \E i \in IndexColumns \ {index} : index' = i
  /\ steady' = FALSE
  /\ UNCHANGED <<now, cache, pc, req>>

-----------------------------------------------------------------------------
Ask(r) ==
  /\ pc[r] \in {"idle", "replied", "failed"}
  /\ \E p \in Partitions : req' = [req EXCEPT ![r] = [Blank EXCEPT !.partition = p]]
  /\ pc' = [pc EXCEPT ![r] = "table"]
  /\ UNCHANGED <<now, index, cache, steady>>

\* table: the partition key's columns, and those of the minmax indices unless that
\* query fails, which nobody is told.
ReadTable(r) ==
  /\ pc[r] = "table"
  /\ \E found \in {index, {}} :
       /\ req' = [req EXCEPT ![r].columns = PlainColumns \cup found]
       /\ steady' = (steady /\ found = index)
  /\ pc' = [pc EXCEPT ![r] = "lookup"]
  /\ UNCHANGED <<now, index, cache>>

\* Mistake: an entry never expires.
LiveForever(p) == p \in DOMAIN cache
Live(p)        == p \in DOMAIN cache /\ now - cache[p].at <= TTL

Hit(r) ==
  /\ pc[r] = "lookup" /\ Live(req[r].partition)
  /\ req' = [req EXCEPT ![r].rows = cache[req[r].partition].rows]
  /\ pc' = [pc EXCEPT ![r] = "replied"]
  /\ UNCHANGED <<now, index, cache, steady>>

Miss(r) ==
  /\ pc[r] = "lookup" /\ ~Live(req[r].partition)
  /\ req' = [req EXCEPT ![r].looked = now]
  /\ pc' = [pc EXCEPT ![r] = "query"]
  /\ UNCHANGED <<now, index, cache, steady>>

\* Store.MinMax: ClickHouse computes the rows; without columns there are none.
Read(r) ==
  /\ pc[r] = "query"
  /\ req' = [req EXCEPT ![r].rows = RowsOf(req[r].partition, req[r].columns, now)]
  /\ pc' = [pc EXCEPT ![r] = "answered"]
  /\ UNCHANGED <<now, index, cache, steady>>

\* Mistake: the entry is dated by its end.
ArriveWithEnd(r) ==
  /\ pc[r] = "answered"
  /\ req' = [req EXCEPT ![r].at = now + TTL]
  /\ pc' = [pc EXCEPT ![r] = "store"]
  /\ UNCHANGED <<now, index, cache, steady>>

\* The rows arrive; only now is the entry dated.
Arrive(r) ==
  /\ pc[r] = "answered"
  /\ req' = [req EXCEPT ![r].at = now]
  /\ pc' = [pc EXCEPT ![r] = "store"]
  /\ UNCHANGED <<now, index, cache, steady>>

\* Mistake: the cache is never cleared.
KeptAll   == cache
Kept      == IF Cardinality(DOMAIN cache) > Limit THEN Empty ELSE cache

Store(r) ==
  /\ pc[r] = "store"
  /\ cache' = Put(Kept, req[r].partition, [at |-> req[r].at, rows |-> req[r].rows])
  /\ pc' = [pc EXCEPT ![r] = "replied"]
  /\ UNCHANGED <<now, index, req, steady>>

\* A query fails, or the context of the request is over.
Fail(r) ==
  /\ pc[r] \in {"table", "query", "answered"}
  /\ pc' = [pc EXCEPT ![r] = "failed"]
  /\ UNCHANGED <<now, index, cache, req, steady>>

-----------------------------------------------------------------------------
Init ==
  /\ now = 0 /\ index \in IndexColumns
  /\ cache = Empty /\ steady = TRUE
  /\ pc = [r \in Requests |-> "idle"]
  /\ req = [r \in Requests |-> Blank]

Handle(r) == ReadTable(r) \/ Hit(r) \/ Miss(r) \/ Read(r) \/ Arrive(r) \/ Store(r) \/ Fail(r)

Next == Tick \/ Alter \/ (\E r \in Requests : Ask(r) \/ Handle(r))

Spec == Init /\ [][Next]_vars

-----------------------------------------------------------------------------
Columns == {PlainColumns \cup found : found \in IndexColumns \cup {{}}}
Rows    == [of : Partitions, columns : Columns, asof : 0 .. MaxTime]
Entries == [at : 0 .. MaxTime, rows : Rows]

\* The kinds of values; a request on its way knows its partition, and one with an
\* answer has rows.
TypeOK ==
  /\ now \in 0 .. MaxTime /\ index \in IndexColumns
  /\ DOMAIN cache \subseteq Partitions /\ \A p \in DOMAIN cache : cache[p] \in Entries
  /\ \A r \in Requests :
       /\ pc[r] \in {"idle", "table", "lookup", "query", "answered", "store", "replied", "failed"}
       /\ pc[r] # "idle" => req[r].partition \in Partitions
       /\ pc[r] \in {"answered", "store", "replied"} => req[r].rows \in Rows

\* However many partitions are asked for, and at once, the cache never holds more than
\* one entry above its limit, which is where it is cleared.
CacheBounded == Cardinality(DOMAIN cache) <= Limit + 1

Replies(r) == pc[r] # "replied" /\ pc'[r] = "replied"

\* A reply has the rows of the partition it was asked for, and ClickHouse computed them
\* no longer ago than an entry lives and the query before it may take.  A slow query
\* may overwrite the entry of a later one, and dates it later than its rows.
ServedFresh ==
  [][ \A r \in Requests : Replies(r) =>
        /\ req'[r].rows.of = req[r].partition
        /\ now - req'[r].rows.asof <= TTL + Timeout ]_vars

\* "the minmax values of its partition-key columns and minmax skipping-index columns"
\* (README.md:13): the columns a reply names are the ones its rows have values for.
ColumnsMatchRows ==
  \A r \in Requests : pc[r] = "replied" => req[r].rows.columns = req[r].columns

\* They are, as long as the indices stay what they are and every query for them works.
ColumnsMatchWhileSteady == steady => ColumnsMatchRows
=============================================================================
