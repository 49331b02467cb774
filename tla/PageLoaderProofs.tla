---------------------------- MODULE PageLoaderProofs ----------------------------
(***************************************************************************)
(* Proofs about PageLoader, for any tables and hosts.                      *)
(***************************************************************************)
EXTENDS PageLoader, TLAPS

\* What TypeOK leaves open: before the page is ready nothing is loaded or planned.
Idle == phase # "ready" => ~loading /\ ~timer /\ data = Nothing

Inv == TypeOK /\ Idle /\ RefreshGoesOn

\* The page starts with nothing loaded or planned.
LEMMA InitInv == Init => Inv
  BY DEF Init, Inv, TypeOK, Idle, RefreshGoesOn

\* The code of reload before its await leaves a load under way, or a timer if the page
\* refreshes.
LEMMA ReloadInv ==
  ASSUME Inv, NEW pick \in Picks, NEW away \in BOOLEAN, Reload(pick, away)
  PROVE  /\ loading' \in BOOLEAN /\ timer' \in BOOLEAN
         /\ asked' \in Picks \cup {Nothing} /\ (loading' => asked' \in Picks)
         /\ refresh => loading' \/ timer'
         /\ ~refresh => ~timer'
  BY DEF Inv, TypeOK, Reload, Schedule

\* No handler of the page breaks the invariant.
LEMMA StepInv == Inv /\ [Next]_vars => Inv'
<1> SUFFICES ASSUME Inv, [Next]_vars PROVE Inv'
  OBVIOUS
<1>1. CASE Start
  <2>1. PICK p \in Picks : picked' = p /\ Reload(p, hidden)
    BY <1>1 DEF Start
  <2>2. hidden \in BOOLEAN
    BY DEF Inv, TypeOK
  <2>3. QED
    BY <1>1, <2>1, <2>2, ReloadInv DEF Start, Inv, TypeOK, Idle, RefreshGoesOn
<1>2. CASE StartFails
  BY <1>2 DEF StartFails, Inv, TypeOK, Idle, RefreshGoesOn
<1>3. CASE PickTable
  <2>1. PICK p \in Picks : picked' = p /\ Reload(p, hidden)
    BY <1>3 DEF PickTable
  <2>2. hidden \in BOOLEAN
    BY DEF Inv, TypeOK
  <2>3. QED
    BY <1>3, <2>1, <2>2, ReloadInv DEF PickTable, Inv, TypeOK, Idle, RefreshGoesOn
<1>4. CASE PickHost
  <2>1. PICK p \in Picks : picked' = p /\ Reload(p, hidden)
    BY <1>4 DEF PickHost
  <2>2. hidden \in BOOLEAN
    BY DEF Inv, TypeOK
  <2>3. QED
    BY <1>4, <2>1, <2>2, ReloadInv DEF PickHost, Inv, TypeOK, Idle, RefreshGoesOn
<1>5. CASE SwitchRefresh
  BY <1>5 DEF SwitchRefresh, Schedule, Inv, TypeOK, Idle, RefreshGoesOn
<1>6. CASE Redraw
  BY <1>6 DEF Redraw, Inv, TypeOK, Idle, RefreshGoesOn
<1>7. CASE Hide
  BY <1>7 DEF Hide, Inv, TypeOK, Idle, RefreshGoesOn
<1>8. CASE Show
  <2>1. CASE phase = "ready"
    <3>1. picked \in Picks /\ Reload(picked, FALSE)
      BY <1>8, <2>1 DEF Show, Inv, TypeOK
    <3>2. QED
      BY <1>8, <2>1, <3>1, ReloadInv DEF Show, Inv, TypeOK, Idle, RefreshGoesOn
  <2>2. CASE phase # "ready"
    BY <1>8, <2>2 DEF Show, Inv, TypeOK, Idle, RefreshGoesOn
  <2>3. QED
    BY <2>1, <2>2
<1>9. CASE Timer
  <2>1. phase = "ready" /\ picked \in Picks /\ hidden \in BOOLEAN
    BY <1>9 DEF Timer, Inv, TypeOK, Idle
  <2>2. QED
    BY <1>9, <2>1, ReloadInv DEF Timer, Inv, TypeOK, Idle, RefreshGoesOn
<1>10. CASE Loaded
  BY <1>10 DEF Loaded, Schedule, Inv, TypeOK, Idle, RefreshGoesOn
<1>11. CASE LoadFailed
  BY <1>11 DEF LoadFailed, Schedule, Inv, TypeOK, Idle, RefreshGoesOn
<1>12. CASE UNCHANGED vars
  BY <1>12 DEF vars, Inv, TypeOK, Idle, RefreshGoesOn
<1>13. QED
  BY <1>1, <1>2, <1>3, <1>4, <1>5, <1>6, <1>7, <1>8, <1>9, <1>10, <1>11, <1>12
     DEF Next, Started, User, Settled

LEMMA LoaderInvariant == Spec => []Inv
BY InitInv, StepInv, PTL DEF Spec

\* Whatever the user does, loads fail or the page is hidden, a page that refreshes has
\* a load under way or a timer set, and one that does not has no timer.
THEOREM KeepsGoing == Spec => []RefreshGoesOn
<1>1. Inv => RefreshGoesOn
  BY DEF Inv
<1>2. QED
  BY <1>1, LoaderInvariant, PTL

\* The kinds of values: a load is only under way on a page that is ready, for a table and
\* host that were picked, however the listeners and the timer start it.
THEOREM TypeCorrect == Spec => []TypeOK
<1>1. Inv => TypeOK
  BY DEF Inv
<1>2. QED
  BY <1>1, LoaderInvariant, PTL

-----------------------------------------------------------------------------
(***************************************************************************)
(* The check at the end of a load compares joined names.  It is enough if  *)
(* no two tables have the same one: DottedTables shows that it has to be.  *)
(***************************************************************************)
LabelsUnique == \A s, t \in Tables : Label(s) = Label(t) => s = t

\* The page starts without data.
LEMMA InitHolds == Init => HoldsPickedTable
  BY DEF Init, HoldsPickedTable

\* A table's parts go when another is picked, and come only for the one picked.
LEMMA StepHolds ==
  LabelsUnique /\ Inv /\ HoldsPickedTable /\ [Next]_vars => HoldsPickedTable'
<1> SUFFICES ASSUME LabelsUnique, Inv, HoldsPickedTable, [Next]_vars PROVE HoldsPickedTable'
  OBVIOUS
<1>1. CASE Start
  BY <1>1 DEF Start, Inv, Idle, HoldsPickedTable
<1>2. CASE PickTable
  BY <1>2 DEF PickTable, HoldsPickedTable
<1>3. CASE PickHost
  BY <1>3 DEF PickHost, HoldsPickedTable
<1>4. CASE Loaded
  <2>1. picked.table \in Tables /\ asked.table \in Tables
    BY <1>4 DEF Loaded, Inv, TypeOK, Picks
  <2>2. Label(picked.table) = Label(asked.table) => picked.table = asked.table
    BY <2>1 DEF LabelsUnique
  <2>3. QED
    BY <1>4, <2>2 DEF Loaded, HoldsPickedTable
<1>5. CASE StartFails \/ SwitchRefresh \/ Redraw \/ Hide \/ Show \/ Timer \/ LoadFailed
  BY <1>5 DEF StartFails, SwitchRefresh, Redraw, Hide, Show, Timer, LoadFailed, HoldsPickedTable
<1>6. CASE UNCHANGED vars
  BY <1>6 DEF vars, HoldsPickedTable
<1>7. QED
  BY <1>1, <1>2, <1>3, <1>4, <1>5, <1>6 DEF Next, Started, User, Settled

\* Where joined names are unique, the page never holds the parts of a table other than
\* the one picked, however loads and picks interleave.
THEOREM NeverAnotherTable ==
  ASSUME LabelsUnique
  PROVE  Spec => []HoldsPickedTable
<1>1. Inv /\ HoldsPickedTable /\ [Next]_vars => (Inv /\ HoldsPickedTable)'
  BY LabelsUnique, StepInv, StepHolds
<1>2. Init => Inv /\ HoldsPickedTable
  BY InitInv, InitHolds
<1>3. QED
  BY <1>1, <1>2, PTL DEF Spec

\* The rest of the page sees a pick, which leaves no data, or data of the table picked.
LEMMA StepData ==
  ASSUME LabelsUnique, Inv, [Next]_vars
  PROVE  [Data!Next]_<<picked.table, data>>
<1>1. ASSUME NEW p \in Picks, picked' = p, p.table # picked.table, data' = Nothing
      PROVE  Data!Next
  BY <1>1 DEF Data!Next, Data!PickTable, Picks
<1>2. CASE Start
  <2>1. PICK p \in Picks : picked' = p
    BY <1>2 DEF Start
  <2>2. data' = data /\ data = Nothing
    BY <1>2 DEF Start, Inv, Idle
  <2>3. CASE p.table = picked.table
    BY <2>1, <2>2, <2>3
  <2>4. QED
    BY <1>1, <2>1, <2>2, <2>3
<1>3. CASE PickTable
  BY <1>1, <1>3 DEF PickTable
<1>4. CASE PickHost
  BY <1>4 DEF PickHost
<1>5. CASE Loaded
  <2>1. CASE Label(picked.table) = Label(asked.table)
    <3>1. asked \in Picks /\ picked \in Picks
      BY <1>5 DEF Loaded, Inv, TypeOK
    <3>2. picked.table = asked.table /\ asked.host \in Hosts
      BY <2>1, <3>1 DEF LabelsUnique, Picks
    <3>3. asked = [table |-> picked.table, host |-> asked.host]
      BY <3>1, <3>2 DEF Picks
    <3>4. data' = asked /\ picked' = picked
      BY <1>5, <2>1 DEF Loaded
    <3>5. Data!Load(asked.host)
      BY <3>3, <3>4 DEF Data!Load
    <3>6. QED
      BY <3>2, <3>5 DEF Data!Next
  <2>2. CASE Label(picked.table) # Label(asked.table)
    BY <1>5, <2>2 DEF Loaded
  <2>3. QED
    BY <2>1, <2>2
<1>6. CASE StartFails \/ SwitchRefresh \/ Redraw \/ Hide \/ Show \/ Timer \/ LoadFailed
  BY <1>6 DEF StartFails, SwitchRefresh, Redraw, Hide, Show, Timer, LoadFailed
<1>7. CASE UNCHANGED vars
  BY <1>7 DEF vars
<1>8. QED
  BY <1>2, <1>3, <1>4, <1>5, <1>6, <1>7 DEF Next, Started, User, Settled

\* Where joined names are unique, the loader implements what the rest of the page assumes
\* of the data: it is gone when another table is picked, and then of the table picked.
THEOREM ImplementsPageData ==
  ASSUME LabelsUnique
  PROVE  Spec => KeepsPageData
<1>1. Init => Data!Init
  BY DEF Init, Data!Init
<1>2. Inv /\ [Next]_vars => [Data!Next]_<<picked.table, data>>
  BY LabelsUnique, StepData
<1>3. QED
  BY <1>1, <1>2, LoaderInvariant, PTL DEF Spec, KeepsPageData, Data!Spec

-----------------------------------------------------------------------------
(***************************************************************************)
(* What must happen.  While one table and host stay picked on a page that  *)
(* is shown and refreshes, a load asks for that pick or is dropped for a new *)
(* one that does; so what is loaded is of it, and stays.                   *)
(***************************************************************************)
\* The pick stays; a load under way asked for it; and its data are there.
Stays(p)   == picked = p /\ refresh /\ ~hidden
Current(p) == loading => asked = p
Shown(p)   == Current(p) /\ data = p

\* A load that is begun while p stays picked asks for p.
LEMMA StaysCurrent ==
  ASSUME NEW p \in Picks, Inv, Stays(p), Stays(p)', Current(p), [Next]_vars
  PROVE  Current(p)'
<1>1. ASSUME NEW pick, NEW away, pick = p, Reload(pick, away) PROVE Current(p)'
  BY <1>1 DEF Reload, Current
<1>2. CASE Start
  BY <1>1, <1>2 DEF Start, Stays
<1>3. CASE PickTable \/ PickHost \/ SwitchRefresh \/ Hide
  BY <1>3 DEF PickTable, PickHost, SwitchRefresh, Hide, Stays
<1>4. CASE Show
  BY <1>1, <1>4 DEF Show, Stays, Current
<1>5. CASE Timer
  BY <1>1, <1>5 DEF Timer, Stays
<1>6. CASE StartFails \/ Redraw \/ Loaded \/ LoadFailed
  BY <1>6 DEF StartFails, Redraw, Loaded, LoadFailed, Current
<1>7. CASE UNCHANGED vars
  BY <1>7 DEF vars, Current
<1>8. QED
  BY <1>2, <1>3, <1>4, <1>5, <1>6, <1>7 DEF Next, Started, User, Settled

\* Data of p stay as long as p does.
LEMMA StaysShown ==
  ASSUME NEW p \in Picks, Inv, Stays(p), Stays(p)', Shown(p), [Next]_vars
  PROVE  Shown(p)'
<1>1. Current(p)'
  BY StaysCurrent DEF Shown
<1>2. data' = p
  <2>1. CASE Start \/ StartFails \/ PickTable \/ PickHost \/ SwitchRefresh \/ Hide
    BY <2>1 DEF Start, StartFails, PickTable, PickHost, SwitchRefresh, Hide, Stays, Shown
  <2>2. CASE Show \/ Redraw \/ Timer \/ LoadFailed
    BY <2>2 DEF Show, Redraw, Timer, LoadFailed, Shown
  <2>3. CASE Loaded
    BY <2>3 DEF Loaded, Shown, Current
  <2>4. CASE UNCHANGED vars
    BY <2>4 DEF vars, Shown
  <2>5. QED
    BY <2>1, <2>2, <2>3, <2>4 DEF Next, Started, User, Settled
<1>3. QED
  BY <1>1, <1>2 DEF Shown

\* A page left alone with refresh on comes to show what is picked and goes on showing it,
\* if loads go on succeeding, whatever happened before.
THEOREM DoesCatchUp == Spec => CatchesUp
<1> SUFFICES ASSUME NEW p \in Picks
             PROVE  Spec => ((<>[](picked = p /\ refresh /\ ~hidden) /\ []<><<Loaded>>_vars)
                              => <>[](data = p))
  BY DEF CatchesUp
<1>1. Inv /\ Stays(p) /\ Stays(p)' /\ Current(p) /\ [Next]_vars => Current(p)'
  BY StaysCurrent
<1>2. Inv /\ Stays(p) /\ Stays(p)' /\ Shown(p) /\ [Next]_vars => Shown(p)'
  BY StaysShown
<1>3. <<Loaded>>_vars => Current(p)'
  BY DEF Loaded, Current
<1>4. Stays(p) /\ Current(p) /\ <<Loaded>>_vars => Shown(p)'
  BY DEF Stays, Loaded, Current, Shown
<1>5. Shown(p) => data = p
  BY DEF Shown
<1>6. Stays(p) <=> picked = p /\ refresh /\ ~hidden
  BY DEF Stays
<1>7. QED
  BY <1>1, <1>2, <1>3, <1>4, <1>5, <1>6, LoaderInvariant, PTL DEF Spec
=============================================================================
