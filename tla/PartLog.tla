--------------------------------- MODULE PartLog ---------------------------------
(***************************************************************************)
(* When and how the parts of a page were created: HasPartLog and PartLog   *)
(* (queries.go), asked beside Parts, and the join of their answers in      *)
(* buildParts (handlers.go).                                               *)
(*                                                                         *)
(* The log is read from all replicas of a cluster, but the subquery that   *)
(* finds the oldest day is answered by the one the service is connected    *)
(* to; without a cluster there is no other.  Time is counted in days.      *)
(***************************************************************************)
EXTENDS Naturals

CONSTANTS
  PartNames, Hosts,
  Here,      \* one of them, the host the service is connected to
  Days,      \* the last day is today
  MaxSteps   \* steps of ClickHouse while the request is served

VARIABLES
  \* ClickHouse
  active,     \* for each host its active parts, with the day each was written; 0 if not there
  log,        \* system.part_log of all hosts
  unwritten,  \* events not yet flushed to it
  changes,
  \* the request
  host, pc, hasLog,
  back,     \* the answers that have come: "parts", "log", or "cut" for a part of the latter
  parts,    \* resp.Parts
  partLog,  \* the rows of PartLog
  created,  \* for each part of the page the event it was created by, if one was found
  \* history: the parts that have been there all the time, and the log as it was when the
  \* request began
  stayed, old

world   == <<active, log, unwritten, changes>>
request == <<host, pc, hasLog, back, parts, partLog, created>>
vars    == <<world, request, stayed, old>>

\* "NewPart" stands for the four kinds of events that create a part.
Event == [host : Hosts, part : PartNames, kind : {"NewPart", "RemovePart"}, day : 1 .. Days]
Creations == {e \in Event : e.kind = "NewPart"}

-----------------------------------------------------------------------------
(***************************************************************************)
(* ClickHouse.                                                             *)
(***************************************************************************)
Logged(h, p, kind) ==
  unwritten' = unwritten \cup {[host |-> h, part |-> p, kind |-> kind, day |-> Days]}

\* A part is written, merged, or fetched from another replica, once a day at most.
Write(h, p) ==
  /\ active[h][p] = 0
  /\ \A e \in log \cup unwritten : ~(e.host = h /\ e.part = p /\ e.day = Days)
  /\ active' = [active EXCEPT ![h][p] = Days] /\ Logged(h, p, "NewPart")
  /\ UNCHANGED <<log, stayed>>

Remove(h, p) ==
  /\ active[h][p] # 0
  /\ active' = [active EXCEPT ![h][p] = 0] /\ Logged(h, p, "RemovePart")
  /\ stayed' = IF h = host THEN stayed \ {p} ELSE stayed
  /\ UNCHANGED log

Flush ==
  /\ unwritten # {} /\ log' = log \cup unwritten /\ unwritten' = {}
  /\ UNCHANGED <<active, stayed>>

ClickHouse ==
  /\ pc # "done" /\ changes < MaxSteps /\ changes' = changes + 1
  /\ (\E h \in Hosts, p \in PartNames : Write(h, p) \/ Remove(h, p)) \/ Flush
  /\ UNCHANGED <<request, old>>

-----------------------------------------------------------------------------
(***************************************************************************)
(* The request.  Parts is asked while HasPartLog is.                       *)
(***************************************************************************)
ActiveOn(h) == {p \in PartNames : active[h][p] # 0}

\* HasPartLog; a failure is taken for a no.
Probe ==
  /\ pc = "probe" /\ pc' = "wait"
  /\ hasLog' \in BOOLEAN
  /\ UNCHANGED <<world, host, back, parts, partLog, created, stayed, old>>

ReadParts ==
  /\ "parts" \notin back /\ back' = back \cup {"parts"}
  /\ parts' = ActiveOn(host)
  /\ UNCHANGED <<world, host, pc, hasLog, partLog, created, stayed, old>>

\* Mistakes: the host is not compared; removals are taken too.
AnyHost(e) == TRUE
AnyKind(e) == TRUE
OfHost(e)  == e.host = host
Creates(e) == e.kind # "RemovePart"

\* toDate(min(modification_time)) - 1; where nothing is active the date wraps round.
Dates    == {active[Here][p] : p \in ActiveOn(Here)}
FirstDay == IF Dates = {} THEN Days + 1 ELSE (CHOOSE d \in Dates : \A e \in Dates : d <= e) - 1

Found(p) ==
  {e \in log : /\ e.part = p /\ OfHost(e) /\ Creates(e)
               /\ e.day >= FirstDay /\ p \in ActiveOn(e.host)}

\* GROUP BY part_name with argMax.
Latest(p) == {e \in Found(p) : \A f \in Found(p) : f.day <= e.day}

Rows(names) ==
  {rows \in SUBSET UNION {Latest(p) : p \in names} :
     \A p \in names : Found(p) # {} => \E e \in rows : {f \in rows : f.part = p} = {e}}

ReadLog ==
  /\ pc = "wait" /\ hasLog /\ back \cap {"log", "cut"} = {}
  /\ \/ back' = back \cup {"log"} /\ partLog' \in Rows(PartNames)
     \/ back' = back \cup {"cut"} /\ \E some \in SUBSET PartNames : partLog' \in Rows(some)
  /\ UNCHANGED <<world, host, pc, hasLog, parts, created, stayed, old>>

Join ==
  /\ pc = "wait" /\ "parts" \in back /\ (hasLog => back # {"parts"}) /\ pc' = "done"
  /\ created' = {e \in partLog : e.part \in parts}
  /\ UNCHANGED <<world, host, hasLog, back, parts, partLog, stayed, old>>

-----------------------------------------------------------------------------
\* What may have happened to a part on a host: it was never there; it was written on a day
\* and is there, or was removed; it was written again later.
Past(h, p) ==
  LET E(kind, d) == [host |-> h, part |-> p, kind |-> kind, day |-> d]
  IN  {[day |-> 0, events |-> {}]}
      \cup {[day |-> d, events |-> {E("NewPart", d)}] : d \in 1 .. Days}
      \cup {[day |-> 0, events |-> {E("NewPart", d), E("RemovePart", d)}] : d \in 1 .. Days}
      \cup {[day |-> x[2], events |-> {E("NewPart", x[1]), E("RemovePart", x[1]), E("NewPart", x[2])}]
              : x \in {y \in (1 .. Days) \X (1 .. Days) : y[1] < y[2]}}

\* The events of today may not have been flushed.
After(past) ==
  /\ active = [h \in Hosts |-> [p \in PartNames |-> past[<<h, p>>].day]]
  /\ LET all == UNION {past[x].events : x \in Hosts \X PartNames}
     IN  /\ log \in {all, {e \in all : e.day < Days}}
         /\ unwritten = all \ log

Init ==
  /\ \E past \in [Hosts \X PartNames -> UNION {Past(h, p) : h \in Hosts, p \in PartNames}] :
       (\A h \in Hosts, p \in PartNames : past[<<h, p>>] \in Past(h, p)) /\ After(past)
  /\ changes = 0
  /\ host \in Hosts /\ pc = "probe" /\ hasLog = FALSE
  /\ back = {} /\ parts = {} /\ partLog = {} /\ created = {}
  /\ stayed = ActiveOn(host) /\ old = log

Next == ClickHouse \/ Probe \/ ReadParts \/ ReadLog \/ Join

Spec == Init /\ [][Next]_vars

-----------------------------------------------------------------------------
\* The kinds of values; what is joined is a creation, one for each part at most.
TypeOK ==
  /\ active \in [Hosts -> [PartNames -> 0 .. Days]]
  /\ log \cup unwritten \cup old \subseteq Event
  /\ pc \in {"probe", "wait", "done"} /\ back \subseteq {"parts", "log", "cut"}
  /\ parts \subseteq PartNames /\ created \subseteq partLog /\ partLog \subseteq Creations
  /\ \A e, f \in created : e.part = f.part => e = f

\* What a part is said to be created by happened to it on the host the page is about, and
\* nothing that had happened to it there since was in the log when the request began.
CreatedByItsOwn ==
  \A e \in created :
    /\ e.host = host
    /\ \A f \in old : f.part = e.part /\ f.host = host /\ f.kind # "RemovePart" => f.day <= e.day

\* A part that was there all the time, and whose event was in the log, comes with it, if
\* the log can be read.
EachHasItsEvent ==
  pc = "done" /\ "log" \in back =>
    \A p \in stayed : (\E e \in old : e.part = p /\ e.host = host /\ e.day = active[host][p])
                        => \E e \in created : e.part = p /\ e.day = active[host][p]

\* So it is when the page is of the host the service is connected to.
EachHasItsEventHere == host = Here => EachHasItsEvent

\* "PartLog returns the event that created each active part.  The event_date bound keeps
\* the scan to days that can hold an active part" (queries.go:222), on every host, as long
\* as there is a part to take the bound from.
EventOfEachActivePart == ActiveOn(Here) # {} => EachHasItsEvent
=============================================================================
