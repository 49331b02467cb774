-------------------------------- MODULE PageData --------------------------------
(***************************************************************************)
(* What the rest of the page may assume of state.data, whatever loads and  *)
(* timers do (web/app.js): it is gone the moment another table is picked,  *)
(* and then it is of the table that is picked, of any of its hosts.        *)
(***************************************************************************)
CONSTANTS Tables, Hosts, Nothing

VARIABLES
  table,  \* the table that is picked
  data    \* whose parts state.data holds, or Nothing

Init == data = Nothing

PickTable(t) == t # table /\ table' = t /\ data' = Nothing

Load(h) == data' = [table |-> table, host |-> h] /\ UNCHANGED table

Next == (\E t \in Tables : PickTable(t)) \/ (\E h \in Hosts : Load(h))

Spec == Init /\ [][Next]_<<table, data>>
=============================================================================
