--------------------------------- MODULE Service ---------------------------------
(***************************************************************************)
(* The process of the service (Lifecycle) with its requests.  The handler  *)
(* of one of them, q, puts a question to ClickHouse (ClickHouseClient) and *)
(* answers when Query has returned; what the others do is left open.  When *)
(* the process ends, Query ends in the middle.                             *)
(***************************************************************************)
EXTENDS Naturals, Sequences, FiniteSets

CONSTANTS Requests, q, MaxRows, Ahead

ASSUME ServiceAssumption == q \in Requests /\ MaxRows \in Nat /\ Ahead \in Nat

VARIABLES
  url, maxTime, port, main, maxExecution, signal, closed, status, request,  \* of Lifecycle
  rows, sent, wire, stream, pc, out, result                                 \* of ClickHouseClient

process == <<url, maxTime, port, main, maxExecution, signal, closed, status, request>>
query   == <<rows, sent, wire, stream, pc, out, result>>
vars    == <<process, query>>

Process == INSTANCE Lifecycle WITH pc <- main
Query   == INSTANCE ClickHouseClient

-----------------------------------------------------------------------------
InProcess(step) == step /\ UNCHANGED query

\* The goroutine of the handler runs as long as its request does.
InHandler(step) == request[q] = "running" /\ step /\ UNCHANGED process

Main     == InProcess(Process!Main)
Shutdown == InProcess(Process!Shutdown)
Reads    == InHandler(Query!ScanLine \/ Query!ScanEnd)
Expires  == InHandler(Query!Expire)
Replies  == pc = "done" /\ InProcess(Process!Finish(q))

Init == Process!Init /\ Query!Init

Next ==
  \/ Main \/ Shutdown \/ InProcess(Process!Signal) \/ InProcess(Process!Lose)
  \/ \E r \in Requests : InProcess(Process!Accept(r))
  \/ \E r \in Requests \ {q} : InProcess(Process!Finish(r))
  \/ InHandler(Query!ClickHouse) \/ InHandler(Query!Refused) \/ InHandler(Query!Accepted)
  \/ Reads \/ Expires \/ Replies

Spec == Init /\ [][Next]_vars

\* The goroutines run and read what is there, and the timeout of a query runs; ClickHouse
\* owes nothing, the other requests may go on for ever, and no signal need come.
Fairness ==
  WF_vars(Main) /\ WF_vars(Shutdown) /\ WF_vars(Reads) /\ WF_vars(Expires) /\ WF_vars(Replies)

FairSpec == Spec /\ Fairness

-----------------------------------------------------------------------------
\* The kinds of values; and no question is asked before its request has come.
TypeOK ==
  /\ Process!TypeOK /\ Query!TypeOK
  /\ request[q] = "none" => pc = "send"

\* The exit status tells how the process ended, and what was cut off.
ExitTells == Process!ExitTells

\* The caller of Query gets all rows, or an error with the first of them.
KeepsContract == Query!KeepsContract

\* Whoever is owed a step has one: main, unless it waits for requests; the goroutine, once
\* there is a signal; and a handler, whatever ClickHouse has sent it or not.
NobodyStuck ==
  /\ main # "exited" /\ (main = "serve" => closed \/ port = "lost") => ENABLED <<Main>>_vars
  /\ main # "exited" /\ signal = "sent" => ENABLED <<Shutdown>>_vars
  /\ request[q] = "running" =>
       CASE pc = "done"                        -> ENABLED <<Replies>>_vars
         [] pc # "done" /\ stream = "broken"   -> ENABLED <<Reads>>_vars
         [] pc # "done" /\ stream # "broken"   -> ENABLED <<Expires>>_vars

\* A signal ends the process, whatever its requests are waiting for.
SignalStops == signal = "sent" ~> main = "exited"

\* A request ends, answered or cut off, though ClickHouse may never answer.
RequestsEnd == request[q] = "running" ~> request[q] # "running"
=============================================================================
