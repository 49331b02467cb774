------------------------------- MODULE Endpoints -------------------------------
(***************************************************************************)
(* The requests that put their questions to ClickHouse one after another:  *)
(* health, config and tables, and the check of table and host that parts   *)
(* and minmax begin with (handlers.go, table; queries.go, Table, Hosts).   *)
(* Between two questions the table may be altered, dropped or made anew,   *)
(* and a replica may come or go.                                           *)
(***************************************************************************)
EXTENDS Naturals, Sequences, SequencesExt

CONSTANTS
  Columns,     \* names of columns
  Expression,  \* the expression of an index that is more than a column's name
  Hosts,       \* numbers from 1, in the order of ORDER BY host
  MaxIndices,  \* minmax indices a table has at most
  MaxChanges   \* changes in ClickHouse during the request

VARIABLES
  \* ClickHouse
  table,     \* the table that was asked for, as it is now, or NoTable
  replicas,  \* the hosts of the cluster
  past,      \* what ClickHouse held during the request
  \* the request
  request, cluster, pc,
  known,     \* the names system.columns gave
  columns,   \* info.MinMaxColumns
  failed,    \* whether a question failed that the request cannot do without
  reply

world == <<table, replicas, past>>
asked == <<request, cluster>>
vars  == <<world, asked, pc, known, columns, failed, reply>>

NoHost  == 0
NoTable == [columns |-> <<>>, key |-> {}, indices |-> <<>>]

Tables ==
  UNION {{[columns |-> order, key |-> key, indices |-> indices] :
            key \in SUBSET cols, order \in SetToSeqs(cols),
            indices \in BoundedSeq(cols \cup {Expression}, MaxIndices)} :
          cols \in SUBSET Columns \ {{}}}

Change ==
  /\ Cardinality(past) <= MaxChanges /\ pc \notin {"start", "done"}
  /\ \/ table' \in (Tables \cup {NoTable}) \ {table} /\ UNCHANGED replicas
     \/ replicas' \in SUBSET Hosts \ {replicas} /\ UNCHANGED table
  /\ past' = past \cup {[table |-> table', replicas |-> replicas']}
  /\ UNCHANGED <<asked, pc, known, columns, failed, reply>>

-----------------------------------------------------------------------------
(***************************************************************************)
(* The handlers.                                                           *)
(***************************************************************************)
\* writeJSON
Reply(status, host, cols) ==
  /\ pc' = "done"
  /\ reply' = [status |-> status, host |-> host, columns |-> cols]

Goto(question) == pc' = question /\ UNCHANGED reply

FirstQuestion ==
  CASE request.path = "healthz" -> "ping"
    [] request.path = "config"  -> "hosts"
    [] OTHER                    -> request.path

Start ==
  /\ pc = "start"
  /\ CASE request.path = "table" /\ ~request.named -> Reply(400, NoHost, <<>>)
       [] request.path = "config" /\ ~cluster      -> Reply(200, NoHost, <<>>)
       [] OTHER                                    -> Goto(FirstQuestion)
  /\ UNCHANGED <<world, asked, known, columns, failed>>

\* writeError: whatever a query's error says, the gateway failed.
StatusOfFailure == 502

\* A question fails; what it had read is dropped.
Fail ==
  /\ pc \in {"ping", "tables", "table", "columns", "hosts"}
  /\ Reply(StatusOfFailure, NoHost, <<>>)
  /\ failed' = TRUE
  /\ UNCHANGED <<world, asked, known, columns>>

Answered ==
  /\ pc \in {"ping", "tables"}
  /\ Reply(200, NoHost, <<>>)
  /\ UNCHANGED <<world, asked, known, columns, failed>>

ReadTable ==
  /\ pc = "table"
  /\ IF table = NoTable THEN Reply(400, NoHost, <<>>) ELSE Goto("columns")
  /\ UNCHANGED <<world, asked, known, columns, failed>>

AddKey(list, name) == IF name \in table.key THEN Append(list, name) ELSE list

ReadColumns ==
  /\ pc = "columns"
  /\ known' = ToSet(table.columns)
  /\ columns' = FoldLeft(AddKey, <<>>, table.columns)
  /\ Goto("indices")
  /\ UNCHANGED <<world, asked, failed>>

\* Mistake: a column is added twice.
AddTwice(list, name) == IF name \in known THEN Append(list, name) ELSE list

AddIndexed(list, name) ==
  IF name \in known /\ ~Contains(list, name) THEN Append(list, name) ELSE list

\* The last question of Table; only this one may fail unnoticed.
ReadIndices ==
  /\ pc = "indices"
  /\ columns' \in {columns, FoldLeft(AddIndexed, columns, table.indices)}
  /\ IF cluster THEN Goto("hosts") ELSE Reply(200, NoHost, columns')
  /\ UNCHANGED <<world, asked, known, failed>>

\* The host asked for, or else the first.
Chosen ==
  IF request.host = NoHost /\ replicas # {}
  THEN CHOOSE h \in replicas : \A g \in replicas : h <= g
  ELSE request.host

\* Mistake: the host of the request is not checked.
AcceptAny == TRUE
Accept    == Chosen \in replicas

ReadHosts ==
  /\ pc = "hosts"
  /\ CASE request.path = "config"            -> Reply(200, NoHost, <<>>)
       [] request.path # "config" /\ Accept  -> Reply(200, Chosen, columns)
       [] OTHER                              -> Reply(400, NoHost, <<>>)
  /\ UNCHANGED <<world, asked, known, columns, failed>>

-----------------------------------------------------------------------------
Requests ==
  [path : {"healthz", "config", "tables"}, named : {FALSE}, host : {NoHost}]
    \cup [path : {"table"}, named : BOOLEAN, host : Hosts \cup {NoHost}]

Init ==
  /\ table \in Tables \cup {NoTable} /\ replicas \in SUBSET Hosts
  /\ past = {[table |-> table, replicas |-> replicas]}
  /\ request \in Requests /\ cluster \in BOOLEAN
  /\ pc = "start" /\ known = {} /\ columns = <<>> /\ failed = FALSE
  /\ reply = [status |-> 0, host |-> NoHost, columns |-> <<>>]

Handler == Start \/ Fail \/ Answered \/ ReadTable \/ ReadColumns \/ ReadIndices \/ ReadHosts

Next == Change \/ Handler

Spec == Init /\ [][Next]_vars

-----------------------------------------------------------------------------
\* The kinds of values.
TypeOK ==
  /\ table \in Tables \cup {NoTable} /\ replicas \subseteq Hosts
  /\ request \in Requests /\ cluster \in BOOLEAN /\ failed \in BOOLEAN
  /\ pc \in {"start", "ping", "tables", "table", "columns", "indices", "hosts", "done"}
  /\ known \subseteq Columns /\ ToSet(columns) \subseteq Columns
  /\ reply.status \in {0, 200, 400, 502} /\ reply.host \in Hosts \cup {NoHost}

Found == pc = "done" /\ request.path = "table" /\ reply.status = 200

\* The columns of the partition key first, in the table's order.
KeyFirst(list) ==
  LET n == Cardinality(table.key)
      Place(c) == CHOOSE i \in DOMAIN table.columns : table.columns[i] = c
  IN /\ ToSet(SubSeq(list, 1, n)) = table.key
     /\ \A i, j \in 1 .. n : i < j => Place(list[i]) < Place(list[j])

\* After them names, each once.
ThenOnce(list, names) ==
  LET n == Cardinality(table.key)
  IN ToSet(SubSeq(list, n + 1, Len(list))) = names /\ Len(list) = n + Cardinality(names)

Describes(list) ==
  /\ KeyFirst(list)
  /\ \E names \in {{}, (ToSet(table.indices) \cap Columns) \ table.key} : ThenOnce(list, names)

\* While the table stays as it is, the columns of the answer are those of the partition
\* key, in the table's order, and, unless the indices could not be read, the plainly
\* indexed ones after them, each column once.
DescribesTable == Found /\ (\A w \in past : w.table = table) => Describes(reply.columns)

\* Whatever happens to the table between the questions, there was a moment of the request
\* at which it had all the columns of the answer, so that a query that names them is one
\* the table could have answered.
ColumnsOfOneMoment ==
  Found => \E w \in past : ToSet(reply.columns) \subseteq ToSet(w.table.columns)

\* With a cluster the parts are read from one host, the one asked for if one was, and it
\* was a replica during the request; without a cluster no host is named.
OneHost ==
  Found =>
    IF cluster
    THEN /\ \E w \in past : reply.host \in w.replicas
         /\ request.host \in {NoHost, reply.host}
    ELSE reply.host = NoHost

\* A bad gateway means that ClickHouse could not be asked, and a bad request that the
\* request was at fault: it named no table, or at some moment no such table or host was
\* there.
StatusTells ==
  pc = "done" =>
    /\ reply.status = 502 <=> failed
    /\ reply.status = 400 =>
         \/ ~request.named
         \/ \E w \in past : w.table = NoTable \/ (cluster /\ request.host \notin w.replicas)
=============================================================================
