-------------------------------- MODULE Lifecycle --------------------------------
(***************************************************************************)
(* cmd/partsviz/main.go: one process of the service from its environment   *)
(* to its exit, with the requests it serves and the goroutine that waits   *)
(* for a signal.  main returns when ListenAndServe does, which is as soon  *)
(* as Shutdown is called, or exits when it fails, which may be after much  *)
(* was served; either way the process ends with it, and requests that      *)
(* still run are cut off.                                                  *)
(***************************************************************************)
EXTENDS FiniteSets

CONSTANT Requests

VARIABLES
  url, maxTime,   \* CLICKHOUSE_URL: good or not; CLICKHOUSE_MAX_EXECUTION_TIME
  port,           \* the address of LISTEN_ADDR: "free", "taken", or "lost" while it serves
  pc,             \* main: "config", "notify", "listen", "bind", "serve", "return", "failed",
                  \* "exited"
  maxExecution,   \* client.MaxExecutionTime
  signal,         \* "none", "sent", "taken" by the goroutine, or "deadly"
  closed,         \* whether Shutdown has closed the server
  status,         \* the exit status
  request         \* what became of each request

config == <<url, maxTime>>
environment == <<config, port>>
vars == <<environment, pc, maxExecution, signal, closed, status, request>>

Running == {r \in Requests : request[r] = "running"}

Exit(code) ==
  /\ pc' = "exited" /\ status' = code
  /\ request' = [r \in Requests |-> IF r \in Running THEN "cut" ELSE request[r]]

-----------------------------------------------------------------------------
(***************************************************************************)
(* main.                                                                   *)
(***************************************************************************)
\* Mistake: the error of Atoi is forgotten.
AnyTime(t)  == TRUE
GoodTime(t) == t # "junk"

\* ch.New
GoodURL == url = "good"

Configured == GoodURL /\ GoodTime(maxTime)

Configure ==
  /\ pc = "config"
  /\ IF Configured
     THEN pc' = "notify" /\ maxExecution' = maxTime /\ UNCHANGED <<status, request>>
     ELSE Exit("1") /\ UNCHANGED maxExecution
  /\ UNCHANGED <<environment, signal, closed>>

\* signal.NotifyContext, and the goroutine started.
Notify ==
  /\ pc = "notify" /\ pc' = "listen"
  /\ UNCHANGED <<environment, maxExecution, signal, closed, status, request>>

\* ListenAndServe finds the server closed, or tries to take the address.
Listen ==
  /\ pc = "listen" /\ pc' = IF closed THEN "return" ELSE "bind"
  /\ UNCHANGED <<environment, maxExecution, signal, closed, status, request>>

Bind ==
  /\ pc = "bind" /\ pc' = IF port = "taken" THEN "failed" ELSE "serve"
  /\ UNCHANGED <<environment, maxExecution, signal, closed, status, request>>

\* Mistake: main waits for the requests that run.
ServerDrained == closed /\ Running = {}
ServerClosed  == closed

ServeReturns ==
  /\ pc = "serve" /\ ServerClosed /\ pc' = "return"
  /\ UNCHANGED <<environment, maxExecution, signal, closed, status, request>>

\* Accept fails, and not because the server was closed; a failure that passes is waited out.
ServeFails ==
  /\ pc = "serve" /\ port = "lost" /\ ~closed /\ pc' = "failed"
  /\ UNCHANGED <<environment, maxExecution, signal, closed, status, request>>

\* An error of ListenAndServe, whatever has happened since it was found.
Fail ==
  /\ pc = "failed" /\ Exit("1")
  /\ UNCHANGED <<environment, maxExecution, signal, closed>>

\* Mistake: ErrServerClosed counts as an error.
StatusOfError == "1"
StatusOfMain  == "0"

Return ==
  /\ pc = "return"
  /\ Exit(StatusOfMain)
  /\ UNCHANGED <<environment, maxExecution, signal, closed>>

-----------------------------------------------------------------------------
(***************************************************************************)
(* The goroutine, the requests, and whoever stops the process.             *)
(***************************************************************************)
\* SIGINT or SIGTERM; before NotifyContext it ends the process.  More of them change
\* nothing.
Signal ==
  /\ signal = "none" /\ pc # "exited"
  /\ IF pc \in {"config", "notify"}
     THEN signal' = "deadly" /\ Exit("killed")
     ELSE signal' = "sent" /\ UNCHANGED <<pc, status, request>>
  /\ UNCHANGED <<environment, maxExecution, closed>>

\* Shutdown; its own wait of at most 10 seconds nobody waits for.
Shutdown ==
  /\ signal = "sent" /\ pc # "exited"
  /\ signal' = "taken" /\ closed' = TRUE
  /\ UNCHANGED <<environment, pc, maxExecution, status, request>>

\* The listener fails for good.
Lose ==
  /\ pc = "serve" /\ port = "free" /\ ~closed /\ port' = "lost"
  /\ UNCHANGED <<config, pc, maxExecution, signal, closed, status, request>>

Accept(r) ==
  /\ pc = "serve" /\ port = "free" /\ ~closed /\ request[r] = "none"
  /\ request' = [request EXCEPT ![r] = "running"]
  /\ UNCHANGED <<environment, pc, maxExecution, signal, closed, status>>

Finish(r) ==
  /\ r \in Running
  /\ request' = [request EXCEPT ![r] = "answered"]
  /\ UNCHANGED <<environment, pc, maxExecution, signal, closed, status>>

-----------------------------------------------------------------------------
Init ==
  /\ url \in {"good", "bad"} /\ maxTime \in {"", "number", "junk"} /\ port \in {"free", "taken"}
  /\ pc = "config" /\ maxExecution = "" /\ signal = "none" /\ closed = FALSE
  /\ status = "" /\ request = [r \in Requests |-> "none"]

Main ==
  \/ Configure \/ Notify \/ Listen \/ Bind
  \/ ServeReturns \/ ServeFails \/ Return \/ Fail

Next == Main \/ Signal \/ Shutdown \/ Lose \/ \E r \in Requests : Accept(r) \/ Finish(r)

-----------------------------------------------------------------------------
\* The kinds of values.
TypeOK ==
  /\ pc \in {"config", "notify", "listen", "bind", "serve", "return", "failed", "exited"}
  /\ port \in {"free", "taken", "lost"}
  /\ maxExecution \in {"", "number"} /\ closed \in BOOLEAN
  /\ signal \in {"none", "sent", "taken", "deadly"}
  /\ status \in IF pc = "exited" THEN {"0", "1", "killed"} ELSE {""}
  /\ request \in [Requests -> {"none", "running", "answered", "cut"}]

Unserved == \A r \in Requests : request[r] = "none"

\* The status tells a supervisor how the process ended: 0 that it was asked to; 1 that it
\* lost its listener, or could not begin and has served nothing, and this even if it was
\* asked to end meanwhile; and killed that it has served nothing either.  No request is cut
\* off but by the end of a process that was asked to stop or has lost its listener.
ExitTells ==
  /\ status = "0" => signal = "taken"
  /\ status = "1" => port = "lost" \/ ((~Configured \/ port = "taken") /\ Unserved)
  /\ status = "killed" => Unserved
  /\ \A r \in Requests : request[r] = "cut" => signal = "taken" \/ port = "lost"
=============================================================================
