----------------------------- MODULE PartsRequest -----------------------------
(***************************************************************************)
(* internal/api/handlers.go, buildParts: GET /api/parts.  The handler asks *)
(* ClickHouse six questions at once and makes one page of the answers,     *)
(* while ClickHouse goes on inserting and merging.  Requests share no      *)
(* state, so one request beside a moving table is the whole system.        *)
(*                                                                         *)
(* A part is the interval <<first, last>> of its block numbers, as in its  *)
(* name.  A merge is the set of the parts it replaces.                     *)
(***************************************************************************)
EXTENDS PartRuns, FiniteSets, SequencesExt

CONSTANTS
  Blocks,    \* the last block number that is inserted
  Moves,     \* how often the table may change during the request
  MaxLimit   \* the candidates asked for

VARIABLES
  \* ClickHouse
  engine,    \* "MergeTree" or "Replicated"
  active,    \* the active parts
  merges,    \* system.merges: running
  queue,     \* system.replication_queue: assigned
  \* the handler
  pc,
  query,     \* what became of each question
  resp,      \* the response so far: parts, merges, queued, warnings
  firstErr,
  reply,
  \* history: merges that were there, running or queued, during the whole request, and
  \* whether none was assigned, started or finished since it began
  running, assigned, quiet,
  moves      \* changes so far

world == <<engine, active, merges, queue, moves>>
past  == <<running, assigned, quiet>>
vars  == <<world, pc, query, resp, firstErr, reply, past>>

Required == {"now", "parts"}
Optional == {"merges", "replication_queue", "part_log", "merge_tree_settings"}

-----------------------------------------------------------------------------
(***************************************************************************)
(* The table.  Only its parts, merges and queue are seen by the service.   *)
(***************************************************************************)
InOrder(parts) ==
  CHOOSE s \in [1 .. Cardinality(parts) -> parts] :
    \A j, k \in DOMAIN s : j < k => s[j][1] < s[k][1]
Listed(parts)  == LET s == InOrder(parts)
                  IN [k \in DOMAIN s |-> [name |-> s[k], pid |-> "all"]]
Held           == UNION (merges \cup queue)
Merged(m)      == <<InOrder(m)[1][1], InOrder(m)[Cardinality(m)][2]>>

\* The merges ClickHouse may assign: adjacent parts that no merge holds.
Assignable ==
  LET list == Listed(active)
  IN {{list[k].name : k \in ab[1] .. ab[2]} : ab \in Runs(list, Held)}

Insert ==
  /\ LET last == CHOOSE b \in 0 .. Blocks : /\ \A p \in active : p[2] <= b
                                            /\ b = 0 \/ \E p \in active : p[2] = b
     IN last < Blocks /\ active' = active \cup {<<last + 1, last + 1>>}
  /\ UNCHANGED <<merges, queue, past>>

AssignMerge ==
  /\ \E m \in Assignable :
       IF engine = "Replicated" THEN queue' = queue \cup {m} /\ UNCHANGED merges
                                ELSE merges' = merges \cup {m} /\ UNCHANGED queue
  /\ quiet' = FALSE
  /\ UNCHANGED <<active, running, assigned>>

StartQueued ==
  /\ \E m \in queue \ merges : merges' = merges \cup {m}
  /\ quiet' = FALSE
  /\ UNCHANGED <<active, queue, running, assigned>>

FinishMerge ==
  /\ \E m \in merges :
       /\ merges' = merges \ {m} /\ queue' = queue \ {m}
       /\ active' = (active \ m) \cup {Merged(m)}
       /\ running' = running \ {m} /\ assigned' = assigned \ {m}
  /\ quiet' = FALSE

Background ==
  /\ pc \in {"probe", "wait"} /\ moves < Moves
  /\ Insert \/ AssignMerge \/ StartQueued \/ FinishMerge
  /\ moves' = moves + 1
  /\ UNCHANGED <<engine, pc, query, resp, firstErr, reply>>

-----------------------------------------------------------------------------
(***************************************************************************)
(* The handler.                                                            *)
(***************************************************************************)
Empty == [parts |-> {}, merges |-> {}, queued |-> {}, warnings |-> {}]
Error(status) == [status |-> status, page |-> Empty, candidates |-> <<>>]
NoReply       == Error(0)

\* table, and the candidates parameter: a wrong request or a failed query ends here.
Refuse ==
  /\ pc = "table"
  /\ \E status \in {400, 502} : reply' = Error(status)
  /\ pc' = "done"
  /\ UNCHANGED <<world, query, resp, firstErr, past>>

\* Mistake: the queue is read for no table.
FirstWithoutQueue == {"now", "parts", "merges"}
FirstAsked ==
  {"now", "parts", "merges"} \cup (IF engine = "Replicated" THEN {"replication_queue"} ELSE {})

\* run starts the first goroutines; the queue is read for replicated tables only.
Launch ==
  /\ pc = "table"
  /\ query' = [q \in DOMAIN query |-> IF q \in FirstAsked THEN "sent" ELSE "off"]
  /\ pc' = "probe"
  /\ running' = merges /\ assigned' = queue /\ quiet' = TRUE
  /\ UNCHANGED <<world, resp, firstErr, reply>>

\* HasPartLog is asked in between; a failure is taken for a no.
Probe ==
  /\ pc = "probe"
  /\ \E has \in BOOLEAN :
       query' = [query EXCEPT !["part_log"] = IF has THEN "sent" ELSE "off",
                              !["merge_tree_settings"] = "sent"]
  /\ pc' = "wait"
  /\ UNCHANGED <<world, resp, firstErr, reply, past>>

\* The rows ClickHouse has for a question are put in the response.
Answered(q, rows) ==
  CASE q = "parts"             -> [resp EXCEPT !.parts = rows]
    [] q = "merges"            -> [resp EXCEPT !.merges = rows]
    [] q = "replication_queue" -> [resp EXCEPT !.queued = rows]
    [] OTHER                   -> resp

Rows(q) ==
  CASE q = "parts"             -> active
    [] q = "merges"            -> merges
    [] q = "replication_queue" -> queue
    [] OTHER                   -> {}

Answer(q) ==
  /\ query[q] = "sent"
  /\ query' = [query EXCEPT ![q] = "ok"]
  /\ resp' = Answered(q, Rows(q))
  /\ UNCHANGED <<world, pc, firstErr, reply, past>>

\* The query fails, or its result is cut off: Query then returns the rows it has read
\* with the error, and the goroutine keeps them (those of a required query go with the
\* response).
Fail(q) ==
  /\ query[q] = "sent"
  /\ query' = [query EXCEPT ![q] = "failed"]
  /\ IF q \in Required THEN UNCHANGED resp
     ELSE \E rows \in SUBSET Rows(q) :
            resp' = [Answered(q, rows) EXCEPT !.warnings = @ \cup {q}]
  /\ firstErr' = IF q \in Required /\ firstErr = "none" THEN q ELSE firstErr
  /\ UNCHANGED <<world, pc, reply, past>>

\* wg.Wait is over.  An error of a required query is the reply; otherwise the page,
\* with candidates for the parts it lists (what the log adds to them is left out).
\* Mistake: the optional queries are not waited for.
RequiredBack == \A q \in Required : query[q] # "sent"
AllBack      == \A q \in DOMAIN query : query[q] # "sent"

ReplyError ==
  /\ pc = "wait" /\ AllBack /\ firstErr # "none"
  /\ reply' = Error(502)
  /\ pc' = "done"
  /\ UNCHANGED <<world, query, resp, firstErr, past>>

PairsOf(list) == (1 .. Len(list)) \X (1 .. Len(list))

ReplyPage ==
  /\ pc = "wait" /\ AllBack /\ firstErr = "none"
  /\ LET list == Listed(resp.parts)
         busy == UNION (resp.merges \cup resp.queued)
     IN \E n \in 0 .. MaxLimit : \E seq \in [1..n -> PairsOf(list)] :
          /\ AreCandidates(list, busy, MaxLimit, seq)
          /\ reply' = [status |-> 200,
                       page |-> resp,
                       candidates |-> [k \in 1..n |-> {list[j].name : j \in seq[k][1] .. seq[k][2]}]]
  /\ pc' = "done"
  /\ UNCHANGED <<world, query, resp, firstErr, past>>

-----------------------------------------------------------------------------
Init ==
  /\ engine \in {"MergeTree", "Replicated"}
  /\ active = {<<b, b>> : b \in 1 .. Blocks - 1}
  /\ \E m \in {{}} \cup {{m} : m \in {{<<b, b>> : b \in a .. a + 1} : a \in 1 .. Blocks - 2}} :
       /\ queue \in IF engine = "Replicated" THEN {m} ELSE {{}}
       /\ merges \in IF engine = "Replicated" THEN {m, {}} ELSE {m}
  /\ moves = 0
  /\ pc = "table"
  /\ query = [q \in Required \cup Optional |-> "off"]
  /\ resp = Empty /\ firstErr = "none" /\ reply = NoReply
  /\ running = {} /\ assigned = {} /\ quiet = TRUE

Return     == ReplyError \/ ReplyPage
Handler    == Refuse \/ Launch \/ Probe \/ Return
Goroutine(q) == Answer(q) \/ Fail(q)

Next == Background \/ Handler \/ (\E q \in DOMAIN query : Goroutine(q))

Spec == Init /\ [][Next]_vars

\* The handler runs, and every query ends: the HTTP client gives up after 60 seconds
\* (client.go:45).  Nothing is assumed of the table.
FairSpec ==
  /\ Spec
  /\ WF_vars(Handler)
  /\ \A q \in Required \cup Optional : WF_vars(Goroutine(q))

-----------------------------------------------------------------------------
Intervals == {iv \in (1 .. Blocks) \X (1 .. Blocks) : iv[1] <= iv[2]}

\* The kinds of values; ClickHouse merges active parts only.
TypeOK ==
  /\ active \subseteq Intervals
  /\ merges \cup queue \subseteq SUBSET active
  /\ pc \in {"table", "probe", "wait", "done"}
  /\ query \in [Required \cup Optional -> {"off", "sent", "ok", "failed"}]
  /\ firstErr \in Required \cup {"none"}
  /\ reply.status \in {0, 200, 400, 502} /\ reply.page.parts \subseteq Intervals
  /\ running \subseteq merges /\ assigned \subseteq queue

Offered == UNION Range(reply.candidates)

\* A page is only made when every query is back, and only if both required ones
\* succeeded; it has a warning for each optional one that did not, and for no other.
PageTellsFailures ==
  /\ reply.status = 200 =>
       /\ \A q \in Required : query[q] = "ok"
       /\ reply.page.warnings = {q \in Optional : query[q] = "failed"}
  /\ reply.status # 0 => \A q \in DOMAIN query : query[q] # "sent"

\* A candidate with a part of a merge that was there during the whole request, running
\* or queued, comes with the warning that says why it was not seen.
BusyOfferedOnlyWithWarning ==
  reply.status = 200 =>
    /\ "merges" \notin reply.page.warnings => Offered \cap UNION running = {}
    /\ "replication_queue" \notin reply.page.warnings => Offered \cap UNION assigned = {}

\* When no merge began or ended during the request, and nothing failed, ClickHouse
\* could assign every candidate the moment the reply is made.
CandidatesStand ==
  [][ reply.status = 0 /\ reply'.status = 200 /\ quiet /\ reply'.page.warnings = {} =>
        \A k \in DOMAIN reply'.candidates : reply'.candidates[k] \in Assignable ]_vars

\* Every request is answered.
Answers == <>(reply.status # 0)
=============================================================================
