-------------------------------- MODULE PageHover --------------------------------
(***************************************************************************)
(* web/app.js, the tooltip: what the pointer is over, what the tooltip     *)
(* says of it, and the cache of promises the minmax values come from.  A   *)
(* handler runs to its end, and the callbacks of promises that are settled *)
(* run before the next one; only a fetch takes time.  So a step here is a  *)
(* handler with those callbacks.                                           *)
(*                                                                         *)
(* A table has one partition here, and minmax columns: partitions share    *)
(* nothing, and without columns nothing is fetched.                        *)
(***************************************************************************)
EXTENDS Naturals, Sequences

CONSTANTS
  Tables, Hosts, Nothing,
  Names,       \* the names of parts; any table may have any of them
  MaxFetches   \* how many times minmax is asked for

ASSUME PageHoverAssumption ==
  /\ MaxFetches \in Nat
  /\ Nothing \notin [table : Tables, host : Hosts]
  /\ Names \cap {"away", "blank", "bracket", "none"} = {}

VARIABLES
  table, data,  \* see PageData
  drawn,        \* state.hover: the parts of the chart, its bracket, and whose they are
  pointer,      \* what is under state.lastPointer; "away" is null
  tip,          \* the tooltip, and hoverKey; history: whether the key came without the rest
  entries,      \* all entries that ever were in state.minmax
  cache         \* state.minmax: the entry of each source, or 0

vars == <<table, data, drawn, pointer, tip, entries, cache>>

D == INSTANCE PageData

Sources == [table : Tables, host : Hosts]
Bracket == "bracket"
NoText  == [says |-> "nothing", fetch |-> 0, part |-> "none"]
Loading == [NoText EXCEPT !.says = "loading"]
Hidden  == [key |-> "none", of |-> Nothing, object |-> "none", text |-> NoText, torn |-> FALSE]

\* A part's key is its name, and that of a bracket its number, which is the same for all
\* brackets that are drawn after as many objects.
Key(object) == object

-----------------------------------------------------------------------------
(***************************************************************************)
(* The cache, and what #mm says.                                           *)
(***************************************************************************)
\* What the callbacks of loadMinmax write for a part when the fetch is settled.
Text(i, e, part) ==
  [says |-> IF e.status = "failed" THEN "error"
            ELSE IF part \in e.knows THEN "values" ELSE "not found",
   fetch |-> i, part |-> part]

\* Mistake: a part the result does not know is not noted.
NeverUnknown(e, part) == FALSE
Unknown(e, part)      == e.status = "ok" /\ part \notin e.knows

Entry(part) ==
  [of |-> data', status |-> "pending", knows |-> {}, stale |-> FALSE,
   waits |-> {part}, checks |-> {}]

Usable(i) == i # 0 /\ ~entries[i].stale

\* markMinmaxStale, and the callback that writes the part.
Asked(e, part) ==
  IF e.status = "pending" THEN [e EXCEPT !.waits = @ \cup {part}, !.checks = @ \cup {part}]
  ELSE [e EXCEPT !.stale = Unknown(e, part)]

\* loadMinmax and minmaxFor: the mark is set in a callback, after the entry was chosen.
LoadMinmax(part) ==
  LET i == cache[data']
  IN IF Usable(i)
     THEN entries' = [entries EXCEPT ![i] = Asked(@, part)] /\ UNCHANGED cache
     ELSE /\ Len(entries) < MaxFetches
          /\ entries' = Append(entries, Entry(part))
          /\ cache' = [cache EXCEPT ![data'] = Len(entries) + 1]

\* What the tooltip of an object says at the end of that.
FirstText(object) ==
  LET i == cache[data']
  IN IF object = Bracket THEN NoText
     ELSE IF Usable(i) /\ entries[i].status = "ok" THEN Text(i, entries[i], object)
     ELSE Loading

\* showHover, over an object or none.  While data is null tooltipHTML throws, after
\* hoverKey was set.
ShowHover(object) ==
  CASE object = "blank" -> tip' = Hidden /\ UNCHANGED <<entries, cache>>
    [] object # "blank" /\ tip # Hidden /\ tip.key = Key(object) ->
         UNCHANGED <<tip, entries, cache>>
    [] object # "blank" /\ (tip = Hidden \/ tip.key # Key(object)) /\ data' = Nothing ->
         /\ tip' = IF tip = Hidden THEN tip ELSE [tip EXCEPT !.key = Key(object), !.torn = TRUE]
         /\ UNCHANGED <<entries, cache>>
    [] OTHER ->
         /\ tip' = [key |-> Key(object), of |-> data', object |-> object,
                    text |-> FirstText(object), torn |-> FALSE]
         /\ IF object = Bracket THEN UNCHANGED <<entries, cache>> ELSE LoadMinmax(object)

-----------------------------------------------------------------------------
(***************************************************************************)
(* The handlers.                                                           *)
(***************************************************************************)
Objects(chart) ==
  {"blank"} \cup chart.parts \cup (IF chart.bracket THEN {Bracket} ELSE {})

\* pointermove, or a scroll under the pointer.
Move ==
  /\ UNCHANGED <<table, data, drawn>>
  /\ pointer' \in Objects(drawn)
  /\ ShowHover(pointer')

\* Mistake: the tooltip is left as it is.
KeepTip == UNCHANGED tip
HideTip == tip' = Hidden

Leave ==
  /\ pointer' = "away"
  /\ HideTip
  /\ UNCHANGED <<table, data, drawn, entries, cache>>

PickTable ==
  /\ \E t \in Tables : D!PickTable(t)
  /\ cache' = [s \in Sources |-> 0]
  /\ UNCHANGED <<drawn, pointer, tip, entries>>

PickHost ==
  /\ cache' = [s \in Sources |-> 0]
  /\ UNCHANGED <<table, data, drawn, pointer, tip, entries>>

\* render, after a load or for another filter.  Something else may come to be under the
\* pointer, and the hover is shown again unless there is nothing to draw.
Render ==
  /\ \E h \in Hosts : D!Load(h)
  /\ \E parts \in SUBSET Names, bracket \in BOOLEAN :
       /\ bracket => parts = Names
       /\ drawn' = [of |-> data', parts |-> parts, bracket |-> bracket]
  /\ IF pointer = "away" THEN UNCHANGED <<pointer, tip, entries, cache>>
     ELSE IF drawn'.parts = {} THEN pointer' = "blank" /\ UNCHANGED <<tip, entries, cache>>
     ELSE pointer' \in Objects(drawn') /\ ShowHover(pointer')

\* Mistakes: a failed promise stays in the cache; its callback writes nothing.
Keep(e)   == cache
Forget(e) == [cache EXCEPT ![e.of] = 0]
OnlyValues(e) == e.status = "ok"
Told(e)       == TRUE

\* A fetch is settled: its entry leaves the cache when it failed, is marked when it was
\* asked for a part it does not know, and every part that waits for it is written, if the
\* pointer is over one of that name.
Settle(i) ==
  /\ entries[i].status = "pending"
  /\ \E status \in {"ok", "failed"}, knows \in SUBSET Names :
       LET old == entries[i]
           e   == [old EXCEPT !.status = status, !.knows = knows, !.waits = {}, !.checks = {},
                              !.stale = status = "ok" /\ ~(old.checks \subseteq knows)]
       IN /\ status = "failed" => knows = {}
          /\ entries' = [entries EXCEPT ![i] = e]
          /\ cache' = IF status = "failed" THEN Forget(e) ELSE cache
          /\ tip' = IF tip.key \in old.waits /\ tip.object \in Names /\ Told(e)
                    THEN [tip EXCEPT !.text = Text(i, e, tip.key)] ELSE tip
  /\ UNCHANGED <<table, data, drawn, pointer>>

-----------------------------------------------------------------------------
Init ==
  /\ table \in Tables /\ D!Init
  /\ drawn = [of |-> Nothing, parts |-> {}, bracket |-> FALSE]
  /\ pointer = "away" /\ tip = Hidden
  /\ entries = <<>> /\ cache = [s \in Sources |-> 0]

Next ==
  \/ Move \/ Leave \/ PickTable \/ PickHost \/ Render
  \/ \E i \in DOMAIN entries : Settle(i)

Spec == Init /\ [][Next]_vars

-----------------------------------------------------------------------------
Texts == {NoText, Loading}
           \cup [says : {"error", "values", "not found"}, fetch : 1 .. MaxFetches, part : Names]

\* The kinds of values; the chart is that of the data unless there is none, and a tooltip
\* is only seen while the pointer is over the chart.
TypeOK ==
  /\ data \in Sources \cup {Nothing} /\ data # Nothing => drawn.of = data
  /\ pointer \in {"away"} \cup Objects(drawn)
  /\ tip.text \in Texts /\ tip.of \in Sources \cup {Nothing}
  /\ tip # Hidden => pointer # "away"
  /\ \A s \in Sources : cache[s] \in 0 .. Len(entries)

\* A fetch that failed is never found in the cache, though the failure that empties a
\* place there may be that of an older fetch: the next hover asks again.
FailedIsForgotten ==
  \A s \in Sources : cache[s] # 0 => entries[cache[s]].status # "failed"

\* A result that does not know the part under the pointer is used once at most after it
\* has come: if it is in the cache it is marked, so that the next hover asks again.
MissedOnce ==
  [][ (Move \/ Render) /\ tip'.text.says = "not found" /\ tip'.text # tip.text =>
        entries'[tip'.text.fetch].stale ]_vars

Waiting == tip # Hidden /\ tip.text.says = "loading"

\* A tooltip that says "Loading" has a fetch that is under way and will write it, whatever
\* was picked, drawn, answered or lost since, except where its key was changed without it.
LoadingIsAwaited ==
  Waiting /\ ~tip.torn =>
    \E i \in DOMAIN entries : entries[i].status = "pending" /\ tip.key \in entries[i].waits

\* "When you hover on a part, you see its size, rows, ... and the minmax values"
\* (README.md:13): the values in the tooltip of a part are that part's.
ValuesOfShownPart ==
  tip.text.says = "values" =>
    tip.text.part = tip.object /\ entries[tip.text.fetch].of = tip.of
=============================================================================
