-------------------------------- MODULE MCServing --------------------------------
(***************************************************************************)
(* The process with the request for one question, and a request for parts  *)
(* with its six, in one run of two models: in a behaviour only one of them *)
(* moves.  They are Service and PartsRequest.                              *)
(***************************************************************************)
EXTENDS Service

ServiceEnded ==
  /\ url = "good" /\ maxTime = "" /\ port = "free" /\ main = "exited" /\ maxExecution = ""
  /\ signal = "deadly" /\ closed = FALSE /\ status = "killed"
  /\ request = [r \in Requests |-> "none"]
  /\ rows = <<>> /\ sent = 0 /\ wire = <<>> /\ stream = "none"
  /\ pc = "send" /\ out = <<>> /\ result = Query!Nothing

-----------------------------------------------------------------------------
CONSTANTS Blocks, Moves, MaxLimit
VARIABLES engine, active, merges, queue, step, asked, resp, firstErr, reply,
          running, assigned, quiet, moves

partsVars == <<engine, active, merges, queue, step, asked, resp, firstErr, reply,
               running, assigned, quiet, moves>>

Parts == INSTANCE PartsRequest WITH pc <- step, query <- asked

ASSUME BlocksAssumption == Blocks \in Nat

PartsEnded ==
  /\ engine = "MergeTree" /\ active = {} /\ merges = {} /\ queue = {} /\ moves = Moves
  /\ step = "done" /\ asked = [a \in Parts!Required \cup Parts!Optional |-> "off"]
  /\ resp = Parts!Empty /\ firstErr = "none" /\ reply = [Parts!NoReply EXCEPT !.status = 400]
  /\ running = {} /\ assigned = {} /\ quiet = TRUE

-----------------------------------------------------------------------------
ServingInit ==
  \/ Init /\ PartsEnded
  \/ ServiceEnded /\ Parts!Init

ServingNext ==
  \/ Next /\ UNCHANGED partsVars
  \/ Parts!Next /\ UNCHANGED vars

\* That of both.
ServingSpec ==
  /\ ServingInit /\ [][ServingNext]_<<vars, partsVars>>
  /\ Fairness
  /\ WF_partsVars(Parts!Handler)
  /\ \A a \in Parts!Required \cup Parts!Optional : WF_partsVars(Parts!Goroutine(a))

-----------------------------------------------------------------------------
\* The kinds of values of both.
ServingTypeOK == TypeOK /\ Parts!TypeOK

\* A page is made when all is back, tells what failed, and offers parts of a merge only with
\* the warning that says why; see PartsRequest.
PageTells == Parts!PageTellsFailures /\ Parts!BusyOfferedOnlyWithWarning

\* A candidate can still be merged if nothing failed or was merged; see PartsRequest.
CandidatesStand == Parts!CandidatesStand

\* The same of a request for parts: its handler, unless it waits for its goroutines, and
\* each of them.
NobodyStuckInParts ==
  /\ step # "done" /\ (step = "wait" => Parts!AllBack) => ENABLED <<Parts!Handler>>_partsVars
  /\ \A a \in Parts!Required \cup Parts!Optional :
       asked[a] = "sent" => ENABLED <<Parts!Goroutine(a)>>_partsVars

\* Nobody waits for what never comes, and so every request ends, whatever ClickHouse does;
\* see Service and PartsRequest.
RequestsAnswered == [](NobodyStuck /\ NobodyStuckInParts /\ RequestsEnd) /\ Parts!Answers
=============================================================================
