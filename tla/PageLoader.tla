------------------------------ MODULE PageLoader ------------------------------
(***************************************************************************)
(* web/app.js, init, reload and schedule: how the page keeps what it shows *)
(* up to date with what the user picked.  JavaScript runs one handler at a *)
(* time; a load is the await between two of them, and the user, the timer  *)
(* and the visibility of the page may come in between.                     *)
(***************************************************************************)
EXTENDS Sequences

CONSTANTS
  Tables,    \* the tables of api/tables: db and name, as sequences of characters
  Hosts      \* the replicas; "" alone without a cluster

Nothing == [table |-> [db |-> <<>>, name |-> <<>>], host |-> "none"]
Picks   == [table : Tables, host : Hosts]

VARIABLES
  phase,    \* init: "starting", then "ready" or, for good, "failed"
  picked,   \* the values of the two selectors
  refresh,  \* the refresh checkbox
  hidden,   \* document.hidden
  loading,  \* state.loading
  timer,    \* whether state.timer is set
  asked,    \* what the load under way was asked for
  data,     \* whose parts state.data holds
  note      \* whether the page says that a load failed

\* Mistake: only the databases are compared.
Database(t) == t.db

\* splitTable(...).join('.')
Label(t) == t.db \o <<".">> \o t.name

vars == <<phase, picked, refresh, hidden, loading, timer, asked, data, note>>

\* schedule: the timer is set only when the page refreshes by itself.
Schedule(on) == timer' = on

\* Mistakes: the address is not renewed; it is written once; a load that cannot start
\* leaves no timer behind.
ReloadUnasked(pick, away) ==
  IF loading \/ away THEN Schedule(refresh) /\ UNCHANGED <<loading, asked>>
  ELSE timer' = FALSE /\ loading' = TRUE /\ UNCHANGED asked
ReloadFirst(pick, away) ==
  IF loading \/ away THEN Schedule(refresh) /\ UNCHANGED <<loading, asked>>
  ELSE timer' = FALSE /\ loading' = TRUE /\ asked' = IF asked = Nothing THEN pick ELSE asked
ReloadOrStop(pick, away) ==
  IF loading \/ away THEN timer' = FALSE /\ UNCHANGED <<loading, asked>>
  ELSE timer' = FALSE /\ loading' = TRUE /\ asked' = pick

\* reload, up to its await: one load at a time, and none while nobody looks.
Reload(pick, away) ==
  IF loading \/ away
  THEN Schedule(refresh) /\ UNCHANGED <<loading, asked>>
  ELSE timer' = FALSE /\ loading' = TRUE /\ asked' = pick

-----------------------------------------------------------------------------
Start ==
  /\ phase = "starting"
  /\ phase' = "ready"
  /\ \E p \in Picks : picked' = p /\ Reload(p, hidden)
  /\ UNCHANGED <<refresh, hidden, data, note>>

\* api/config or api/tables fails, or there is no table.
StartFails ==
  /\ phase = "starting"
  /\ phase' = "failed"
  /\ UNCHANGED <<picked, refresh, hidden, loading, timer, asked, data, note>>

PickTable ==
  /\ phase = "ready"
  /\ \E p \in Picks : /\ p.table # picked.table /\ p.host = picked.host
                     /\ picked' = p /\ Reload(p, hidden)
  /\ data' = Nothing
  /\ UNCHANGED <<phase, refresh, hidden, note>>

PickHost ==
  /\ phase = "ready"
  /\ \E p \in Picks : /\ p.table = picked.table /\ p.host # picked.host
                     /\ picked' = p /\ Reload(p, hidden)
  /\ UNCHANGED <<phase, refresh, hidden, data, note>>

\* The checkbox; the interval's listener schedules in the same way.
SwitchRefresh ==
  /\ phase = "ready"
  /\ refresh' = ~refresh
  /\ Schedule(~refresh)
  /\ UNCHANGED <<phase, picked, hidden, loading, asked, data, note>>

\* Before the page is ready nobody listens to the visibility.
Hide ==
  /\ ~hidden /\ hidden' = TRUE
  /\ UNCHANGED <<phase, picked, refresh, loading, timer, asked, data, note>>

Show ==
  /\ hidden /\ hidden' = FALSE
  /\ IF phase = "ready" THEN Reload(picked, FALSE) ELSE UNCHANGED <<loading, timer, asked>>
  /\ UNCHANGED <<phase, picked, refresh, data, note>>

\* The other controls and a resize draw the page anew, if there is something to draw.
Redraw ==
  /\ phase = "ready" /\ data # Nothing
  /\ note' = FALSE
  /\ UNCHANGED <<phase, picked, refresh, hidden, loading, timer, asked, data>>

Timer ==
  /\ timer
  /\ Reload(picked, hidden)
  /\ UNCHANGED <<phase, picked, refresh, hidden, data, note>>

\* The rest of reload.  The response is dropped when another table is picked by now;
\* drawing the page replaces its notes.
Loaded ==
  /\ loading
  /\ IF Label(picked.table) = Label(asked.table)
     THEN data' = asked /\ note' = FALSE
     ELSE UNCHANGED <<data, note>>
  /\ loading' = FALSE
  /\ Schedule(refresh)
  /\ UNCHANGED <<phase, picked, refresh, hidden, asked>>

LoadFailed ==
  /\ loading
  /\ note' = TRUE
  /\ loading' = FALSE
  /\ Schedule(refresh)
  /\ UNCHANGED <<phase, picked, refresh, hidden, asked, data>>

-----------------------------------------------------------------------------
Init ==
  /\ phase = "starting"
  /\ picked = Nothing /\ asked = Nothing /\ data = Nothing
  /\ refresh \in BOOLEAN /\ hidden \in BOOLEAN
  /\ loading = FALSE /\ timer = FALSE /\ note = FALSE

User    == PickTable \/ PickHost \/ SwitchRefresh \/ Redraw \/ Hide \/ Show
Started == Start \/ StartFails
Settled == Loaded \/ LoadFailed

Next == Started \/ User \/ Timer \/ Settled

Spec == Init /\ [][Next]_vars

\* A fetch ends, because the service bounds each of its queries (client.go:45), and a
\* timer that is set fires unless it is cleared.
FairSpec == Spec /\ WF_vars(Started) /\ WF_vars(Settled) /\ WF_vars(Timer)

-----------------------------------------------------------------------------
\* The kinds of values; a load is only under way on a page that is ready, for a table
\* and host that were picked.
TypeOK ==
  /\ phase \in {"starting", "ready", "failed"}
  /\ {refresh, hidden, loading, timer, note} \subseteq BOOLEAN
  /\ {picked, asked, data} \subseteq Picks \cup {Nothing}
  /\ phase = "ready" => picked \in Picks
  /\ loading => phase = "ready" /\ asked \in Picks

\* "Drop the response if the user picked another table while it loaded" (app.js:199):
\* the parts the page holds are never those of a table other than the one picked.
HoldsPickedTable == data # Nothing => data.table = picked.table

\* What the rest of the page relies on: data of one table is never followed by data of
\* another without a moment of no data, at the pick, between them.
Data == INSTANCE PageData WITH table <- picked.table
KeepsPageData == Data!Spec

\* A page that refreshes never stops: it is loading or it will, whatever loads failed,
\* were dropped or found the page hidden, and however the checkbox was switched.  One
\* that does not starts nothing behind the user's back.
RefreshGoesOn ==
  /\ phase = "ready" /\ refresh => loading \/ timer
  /\ ~refresh => ~timer

\* Once the user stays with a pick, a visible page that refreshes ends up with it, if
\* loads succeed again and again.
CatchesUp ==
  \A p \in Picks :
    <>[](picked = p /\ refresh /\ ~hidden) /\ []<><<Loaded>>_vars => <>[](data = p)

\* "Parts are per replica, so the page shows one host at a time" (README.md:50): the one
\* in the host selector, at least when the page rests and reports no failure.
RestsWithPickedHost ==
  ~loading /\ ~timer /\ ~hidden /\ ~note /\ data # Nothing => data.host = picked.host
=============================================================================
