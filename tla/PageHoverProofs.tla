---------------------------- MODULE PageHoverProofs ----------------------------
(***************************************************************************)
(* Proofs about the tooltip and the cache of promises behind it            *)
(* (PageHover), for any tables, hosts and parts and any number of fetches. *)
(***************************************************************************)
EXTENDS PageHover, TLAPS

Entries == [of : Sources, status : {"pending", "ok", "failed"}, knows : SUBSET Names,
            stale : BOOLEAN, waits : SUBSET Names, checks : SUBSET Names]

Shown == Names \cup {Bracket}
Tips  == [key : Shown \cup {"none"}, of : Sources \cup {Nothing},
          object : Shown \cup {"none"}, text : Texts, torn : BOOLEAN]

Charts == [of : Sources \cup {Nothing}, parts : SUBSET Names, bracket : BOOLEAN]

\* The kinds of values.
Types ==
  /\ table \in Tables /\ data \in Sources \cup {Nothing} /\ drawn \in Charts
  /\ pointer \in {"away", "blank"} \cup Shown
  /\ tip \in Tips
  /\ entries \in Seq(Entries) /\ Len(entries) <= MaxFetches
  /\ cache \in [Sources -> 0 .. Len(entries)]

\* The chart is that of the data, and the pointer is over what was drawn.
Over ==
  /\ data # Nothing => drawn.of = data
  /\ pointer \in {"away"} \cup Objects(drawn)
  /\ tip # Hidden => pointer # "away"

\* An entry is found at its own source only, and not after it has failed.
Found ==
  \A s \in Sources : cache[s] # 0 =>
    entries[cache[s]].of = s /\ entries[cache[s]].status # "failed"

\* The key of a tooltip is what it shows, but where it was changed without the rest.
Whole == ~tip.torn => tip.key = tip.object

HoverInv == Types /\ Over /\ Found /\ Whole /\ LoadingIsAwaited

-----------------------------------------------------------------------------
LEMMA Strings ==
  /\ Bracket \notin Names /\ Bracket # "blank" /\ Bracket # "none"
  /\ "away" \notin Names /\ "blank" \notin Names /\ "none" \notin Names
  /\ Nothing \notin Sources
BY PageHoverAssumption DEF Bracket, Sources

LEMMA HiddenIs ==
  /\ Hidden \in Tips /\ Hidden.key = "none" /\ Hidden.object = "none"
  /\ NoText \in Texts /\ Loading \in Texts /\ NoText.says = "nothing" /\ Loading.says = "loading"
  /\ Hidden.torn = FALSE /\ Hidden.text = NoText
BY DEF Hidden, Tips, NoText, Texts, Shown, Loading

LEMMA InitHover == Init => HoverInv
<1> SUFFICES ASSUME Init PROVE HoverInv
  OBVIOUS
<1>1. Types
  BY HiddenIs, PageHoverAssumption DEF Init, Types, D!Init, Charts
<1>2. Over /\ Found /\ Whole /\ LoadingIsAwaited
  BY HiddenIs DEF Init, D!Init, Over, Found, Whole, LoadingIsAwaited, Waiting
<1>3. QED
  BY <1>1, <1>2 DEF HoverInv

\* What is under the pointer.
LEMMA ObjectsAre ==
  ASSUME NEW chart \in Charts, NEW o \in Objects(chart)
  PROVE  o = "blank" \/ o \in Shown
BY DEF Objects, Shown, Charts

\* What showHover does, when the data are there and a part is under the pointer.
LEMMA ShowHoverDoes ==
  ASSUME NEW o, ShowHover(o)
  PROVE  \/ tip' \in {Hidden, tip} /\ UNCHANGED <<entries, cache>>
         \/ /\ o # "blank" /\ tip # Hidden /\ tip' = [tip EXCEPT !.key = o, !.torn = TRUE]
            /\ UNCHANGED <<entries, cache>>
         \/ /\ o # "blank" /\ data' # Nothing
            /\ tip' = [key |-> o, of |-> data', object |-> o, text |-> FirstText(o), torn |-> FALSE]
            /\ IF o = Bracket THEN UNCHANGED <<entries, cache>> ELSE LoadMinmax(o)
<1> DEFINE same == tip # Hidden /\ tip.key = Key(o)
<1>1. CASE o = "blank"
  BY <1>1 DEF ShowHover
<1>2. CASE o # "blank" /\ same
  BY <1>2 DEF ShowHover
<1>3. CASE o # "blank" /\ ~same /\ data' = Nothing
  BY <1>3 DEF ShowHover, Key
<1>4. CASE o # "blank" /\ ~same /\ data' # Nothing
  BY <1>4 DEF ShowHover, Key
<1>5. QED
  BY <1>1, <1>2, <1>3, <1>4

\* What loadMinmax does for a part: the entry it uses is asked to write the part or to be
\* asked again, or a new one is.
LEMMA LoadMinmaxDoes ==
  ASSUME Types, Found, NEW part \in Names, data' \in Sources, LoadMinmax(part)
  PROVE  /\ entries' \in Seq(Entries) /\ Len(entries') <= MaxFetches
         /\ cache' \in [Sources -> 0 .. Len(entries')]
         /\ Found'
         /\ \/ /\ FirstText(part) = Loading
               /\ \E j \in DOMAIN entries' :
                    entries'[j].status = "pending" /\ part \in entries'[j].waits
            \/ \E t \in Texts :
                 /\ FirstText(part) = t /\ t.says # "loading"
                 /\ t.says = "not found" => entries'[t.fetch].stale
<1> DEFINE i == cache[data']
<1>1. /\ entries \in Seq(Entries) /\ Len(entries) \in Nat /\ Len(entries) <= MaxFetches
      /\ cache \in [Sources -> 0 .. Len(entries)] /\ i \in 0 .. Len(entries)
      /\ DOMAIN entries = 1 .. Len(entries) /\ MaxFetches \in Nat /\ part # Bracket
      /\ \A j \in 1 .. Len(entries) : entries[j] \in Entries
  BY PageHoverAssumption, Strings DEF Types
<1>2. CASE Usable(i)
  <2> DEFINE e == entries[i]
             new == Asked(e, part)
  <2>1. i \in 1 .. Len(entries) /\ e \in Entries /\ e.of = data' /\ e.status # "failed" /\ ~e.stale
    BY <1>1, <1>2 DEF Usable, Found
  <2>2. entries' = [entries EXCEPT ![i] = new] /\ UNCHANGED cache
    BY <1>2 DEF LoadMinmax
  <2>3. /\ new \in Entries /\ new.of = e.of /\ new.status = e.status
        /\ e.status = "pending" => part \in new.waits
        /\ e.status # "pending" => new.stale = Unknown(e, part)
    BY <2>1 DEF Asked, Entries, Unknown
  <2> HIDE DEF new
  <2>4. /\ entries' \in Seq(Entries) /\ Len(entries') = Len(entries) /\ entries'[i] = new
        /\ DOMAIN entries' = 1 .. Len(entries)
        /\ \A j \in 1 .. Len(entries) : j # i => entries'[j] = entries[j]
    BY <1>1, <2>1, <2>2, <2>3
  <2>5. Found'
    <3>1. SUFFICES ASSUME NEW s \in Sources, cache[s] # 0
                   PROVE  entries'[cache[s]].of = s /\ entries'[cache[s]].status # "failed"
      BY <2>2 DEF Found
    <3>2. entries[cache[s]].of = s /\ entries[cache[s]].status # "failed"
          /\ cache[s] \in 1 .. Len(entries)
      BY <1>1, <3>1 DEF Found
    <3>3. CASE cache[s] = i
      BY <2>3, <2>4, <3>2, <3>3
    <3>4. CASE cache[s] # i
      BY <2>4, <3>2, <3>4
    <3>5. QED
      BY <3>3, <3>4
  <2>6. FirstText(part) = IF e.status = "ok" THEN Text(i, e, part) ELSE Loading
    BY <1>1, <1>2 DEF FirstText
  <2>7. CASE e.status = "ok"
    <3>1. i \in 1 .. MaxFetches /\ FirstText(part) = Text(i, e, part)
      BY <1>1, <2>1, <2>6, <2>7
    <3>2. part \notin e.knows => new.stale
      BY <2>3, <2>7 DEF Unknown
    <3>3. PICK t : t = Text(i, e, part)
      OBVIOUS
    <3> HIDE DEF i, e
    <3>4. t \in Texts /\ t.fetch = i /\ t.says # "loading"
          /\ (t.says = "not found" => part \notin e.knows)
      <4>1. i \in 1 .. MaxFetches
        BY <3>1
      <4>2. t \in [says : {"error", "values", "not found"}, fetch : 1 .. MaxFetches, part : Names]
        BY <3>3, <4>1 DEF Text
      <4>3. t.fetch = i /\ t.says # "loading"
        BY <3>3 DEF Text
      <4>4. t.says = "not found" => part \notin e.knows
        BY <2>7, <3>3 DEF Text
      <4>5. QED
        BY <4>2, <4>3, <4>4 DEF Texts
    <3> USE DEF i, e
    <3>5. t.says = "not found" => entries'[t.fetch].stale
      BY <2>4, <3>2, <3>4
    <3>6. QED
      BY <1>1, <2>1, <2>2, <2>4, <2>5, <3>1, <3>3, <3>4, <3>5
  <2>8. CASE e.status # "ok"
    <3>1. e.status = "pending" /\ FirstText(part) = Loading
      BY <2>1, <2>6, <2>8 DEF Entries
    <3>2. QED
      BY <1>1, <2>1, <2>2, <2>3, <2>4, <2>5, <3>1
  <2>9. QED
    BY <2>7, <2>8
<1>3. CASE ~Usable(i)
  <2> DEFINE e == Entry(part)
             n == Len(entries) + 1
  <2>1. Len(entries) < MaxFetches /\ entries' = Append(entries, e)
        /\ cache' = [cache EXCEPT ![data'] = n]
    BY <1>3 DEF LoadMinmax
  <2>2. e \in Entries /\ e.of = data' /\ e.status = "pending" /\ e.waits = {part}
    BY DEF Entry, Entries
  <2> HIDE DEF e
  <2>3. /\ entries' \in Seq(Entries) /\ Len(entries') = n /\ entries'[n] = e
        /\ DOMAIN entries' = 1 .. n /\ n \in 1 .. n
        /\ \A j \in 1 .. Len(entries) : entries'[j] = entries[j]
    BY <1>1, <2>1, <2>2
  <2>4. cache' \in [Sources -> 0 .. Len(entries')]
    BY <1>1, <2>1, <2>3
  <2>5. Found'
    <3>1. SUFFICES ASSUME NEW s \in Sources, cache'[s] # 0
                   PROVE  entries'[cache'[s]].of = s /\ entries'[cache'[s]].status # "failed"
      BY DEF Found
    <3>2. CASE s = data'
      BY <1>1, <2>1, <2>2, <2>3, <3>2
    <3>3. CASE s # data'
      <4>1. cache'[s] = cache[s] /\ cache[s] \in 1 .. Len(entries)
        BY <1>1, <2>1, <3>1, <3>3
      <4>2. QED
        BY <2>3, <4>1 DEF Found
    <3>4. QED
      BY <3>2, <3>3
  <2>6. FirstText(part) = Loading
    BY <1>1, <1>3 DEF FirstText
  <2>7. n \in DOMAIN entries' /\ entries'[n].status = "pending" /\ part \in entries'[n].waits
    BY <2>2, <2>3
  <2>8. Len(entries') <= MaxFetches
    BY <1>1, <2>1, <2>3
  <2>9. QED
    BY <2>3, <2>4, <2>5, <2>6, <2>7, <2>8
<1>4. QED
  BY <1>2, <1>3

\* Whatever showHover is called over, the tooltip and the cache stay as they should be, and
\* a part that was not found is not looked for again in the same entry.
LEMMA ShowHoverKeeps ==
  ASSUME Types, Found, Whole, LoadingIsAwaited, NEW o, o = "blank" \/ o \in Shown,
         data' \in Sources \cup {Nothing}, ShowHover(o)
  PROVE  /\ tip' \in Tips /\ entries' \in Seq(Entries) /\ Len(entries') <= MaxFetches
         /\ cache' \in [Sources -> 0 .. Len(entries')]
         /\ Found' /\ Whole' /\ LoadingIsAwaited'
         /\ tip'.text.says = "not found" /\ tip'.text # tip.text => entries'[tip'.text.fetch].stale
<1> USE DEF Types
<1>1. CASE tip' \in {Hidden, tip} /\ UNCHANGED <<entries, cache>>
  <2>1. tip' \in Tips /\ Found' /\ Whole'
    BY <1>1, HiddenIs DEF Found, Whole
  <2>2. LoadingIsAwaited' /\ (tip'.text.says = "not found" => tip'.text = tip.text)
    BY <1>1, HiddenIs DEF LoadingIsAwaited, Waiting
  <2>3. QED
    BY <1>1, <2>1, <2>2
<1>2. CASE /\ o # "blank" /\ tip # Hidden /\ tip' = [tip EXCEPT !.key = o, !.torn = TRUE]
           /\ UNCHANGED <<entries, cache>>
  <2>1. tip' \in Tips /\ tip'.torn /\ tip'.text = tip.text /\ o \in Shown
    BY <1>2 DEF Tips
  <2>2. Found' /\ Whole' /\ LoadingIsAwaited'
    BY <1>2, <2>1 DEF Found, Whole, LoadingIsAwaited
  <2>3. QED
    BY <1>2, <2>1, <2>2
<1>3. CASE /\ o # "blank" /\ data' # Nothing
           /\ tip' = [key |-> o, of |-> data', object |-> o, text |-> FirstText(o), torn |-> FALSE]
           /\ IF o = Bracket THEN UNCHANGED <<entries, cache>> ELSE LoadMinmax(o)
  <2>1. o \in Shown /\ data' \in Sources /\ tip'.key = o /\ tip'.text = FirstText(o) /\ Whole'
    BY <1>3 DEF Whole
  <2>2. FirstText(o) \in Texts => tip' \in Tips
    BY <1>3, <2>1 DEF Tips
  <2>3. CASE o = Bracket
    <3>1. FirstText(o) = NoText
      BY <2>3 DEF FirstText
    <3>2. Found'
      BY <1>3, <2>3 DEF Found
    <3>3. QED
      BY <1>3, <2>1, <2>2, <2>3, <3>1, <3>2, HiddenIs DEF LoadingIsAwaited, Waiting
  <2>4. CASE o # Bracket
    <3>1. o \in Names /\ LoadMinmax(o)
      BY <1>3, <2>1, <2>4 DEF Shown
    <3>2. /\ entries' \in Seq(Entries) /\ Len(entries') <= MaxFetches
          /\ cache' \in [Sources -> 0 .. Len(entries')] /\ Found'
      BY <2>1, <3>1, LoadMinmaxDoes
    <3>3. CASE /\ FirstText(o) = Loading
               /\ \E j \in DOMAIN entries' : entries'[j].status = "pending" /\ o \in entries'[j].waits
      BY <2>1, <2>2, <3>2, <3>3, HiddenIs DEF LoadingIsAwaited
    <3>4. ASSUME NEW t \in Texts, FirstText(o) = t, t.says # "loading",
                 t.says = "not found" => entries'[t.fetch].stale
          PROVE  /\ tip' \in Tips /\ LoadingIsAwaited'
                 /\ tip'.text.says = "not found" => entries'[tip'.text.fetch].stale
      BY <2>1, <2>2, <3>4 DEF LoadingIsAwaited, Waiting
    <3>5. QED
      BY <2>1, <3>1, <3>2, <3>3, <3>4, LoadMinmaxDoes
  <2>5. QED
    BY <2>3, <2>4
<1>4. QED
  BY <1>1, <1>2, <1>3, ShowHoverDoes

\* After a handler the pointer is over what is drawn.
LEMMA MoveHover == ASSUME HoverInv, Move PROVE HoverInv'
<1>1. /\ UNCHANGED <<table, data, drawn>> /\ pointer' \in Objects(drawn) /\ ShowHover(pointer')
      /\ Types /\ Over /\ Found /\ Whole /\ LoadingIsAwaited
  BY DEF Move, HoverInv
<1>2. pointer' \in {"blank"} \cup Shown /\ pointer' # "away"
  <2>1. drawn \in Charts
    BY <1>1 DEF Types
  <2>2. QED
    BY <1>1, <2>1, ObjectsAre, Strings DEF Shown, Bracket
<1>3. data' \in Sources \cup {Nothing}
  BY <1>1 DEF Types
<1>4. /\ tip' \in Tips /\ entries' \in Seq(Entries) /\ Len(entries') <= MaxFetches
      /\ cache' \in [Sources -> 0 .. Len(entries')]
      /\ Found' /\ Whole' /\ LoadingIsAwaited'
  BY <1>1, <1>2, <1>3, ShowHoverKeeps
<1>5. Types' /\ Over'
  BY <1>1, <1>2, <1>4 DEF Types, Over
<1>6. QED
  BY <1>4, <1>5 DEF HoverInv

LEMMA LeaveHover == ASSUME HoverInv, Leave PROVE HoverInv'
<1>1. pointer' = "away" /\ tip' = Hidden /\ UNCHANGED <<table, data, drawn, entries, cache>>
  BY DEF Leave, HideTip
<1>2. QED
  BY <1>1, HiddenIs
     DEF HoverInv, Types, Over, Found, Whole, LoadingIsAwaited, Waiting

\* Another table or host is picked: the cache is emptied.
LEMMA PickHover == ASSUME HoverInv, PickTable \/ PickHost PROVE HoverInv'
<1>1. /\ UNCHANGED <<drawn, pointer, tip, entries>> /\ cache' = [s \in Sources |-> 0]
      /\ table' \in Tables /\ data' \in {data, Nothing}
  BY DEF PickTable, PickHost, D!PickTable, HoverInv, Types
<1>2. Types'
  BY <1>1 DEF HoverInv, Types
<1>3. Over' /\ Found' /\ Whole' /\ LoadingIsAwaited'
  BY <1>1 DEF HoverInv, Over, Found, Whole, LoadingIsAwaited, Waiting
<1>4. QED
  BY <1>2, <1>3 DEF HoverInv

LEMMA RenderHover == ASSUME HoverInv, Render PROVE HoverInv'
<1>1. Types /\ Over /\ Found /\ Whole /\ LoadingIsAwaited
  BY DEF HoverInv
<1>2. data' \in Sources /\ data' # Nothing /\ UNCHANGED table
  BY <1>1, Strings DEF Render, D!Load, Sources, Types
<1>3. drawn' \in Charts /\ drawn'.of = data'
  BY <1>2 DEF Render, Charts
<1>4. CASE /\ UNCHANGED <<tip, entries, cache>>
           /\ \/ pointer = "away" /\ pointer' = "away"
              \/ pointer # "away" /\ pointer' = "blank"
  <2>1. pointer' \in {"away"} \cup Objects(drawn') /\ (pointer' = "away" => pointer = "away")
    BY <1>4, Strings DEF Objects
  <2>2. Types'
    BY <1>1, <1>2, <1>3, <1>4 DEF Types
  <2>3. Over' /\ Found' /\ Whole' /\ LoadingIsAwaited'
    BY <1>1, <1>3, <1>4, <2>1 DEF Over, Found, Whole, LoadingIsAwaited, Waiting
  <2>4. QED
    BY <2>2, <2>3 DEF HoverInv
<1>5. CASE pointer' \in Objects(drawn') /\ ShowHover(pointer')
  <2>1. pointer' \in {"blank"} \cup Shown /\ pointer' # "away"
    BY <1>3, <1>5, ObjectsAre, Strings DEF Shown, Bracket
  <2>2. /\ tip' \in Tips /\ entries' \in Seq(Entries) /\ Len(entries') <= MaxFetches
        /\ cache' \in [Sources -> 0 .. Len(entries')]
        /\ Found' /\ Whole' /\ LoadingIsAwaited'
    BY <1>1, <1>2, <1>5, <2>1, ShowHoverKeeps
  <2>3. Types' /\ Over'
    BY <1>1, <1>2, <1>3, <1>5, <2>1, <2>2 DEF Types, Over
  <2>4. QED
    BY <2>2, <2>3 DEF HoverInv
<1>6. \/ UNCHANGED <<pointer, tip, entries, cache>> /\ pointer = "away"
      \/ UNCHANGED <<tip, entries, cache>> /\ pointer # "away" /\ pointer' = "blank"
      \/ pointer' \in Objects(drawn') /\ ShowHover(pointer')
  BY DEF Render
<1>7. \/ (pointer = "away" /\ pointer' = "away") \/ (pointer # "away" /\ pointer' = "blank")
      \/ pointer' \in Objects(drawn') /\ ShowHover(pointer')
  BY <1>6, Zenon
<1>8. QED
  BY <1>4, <1>5, <1>6, <1>7, Zenon

\* A fetch is settled.  The entry leaves the cache if it failed, and whoever waited for it
\* is told.
LEMMA SettleHover == ASSUME HoverInv, NEW i \in DOMAIN entries, Settle(i) PROVE HoverInv'
<1> DEFINE old == entries[i]
<1>0. PICK status \in {"ok", "failed"}, knows \in SUBSET Names : \E e :
        /\ e = [old EXCEPT !.status = status, !.knows = knows, !.waits = {}, !.checks = {},
                           !.stale = status = "ok" /\ ~(old.checks \subseteq knows)]
        /\ entries' = [entries EXCEPT ![i] = e]
        /\ cache' = IF status = "failed" THEN Forget(e) ELSE cache
        /\ tip' = IF tip.key \in old.waits /\ tip.object \in Names /\ Told(e)
                  THEN [tip EXCEPT !.text = Text(i, e, tip.key)] ELSE tip
  BY DEF Settle
<1>1. PICK e :
        /\ e = [old EXCEPT !.status = status, !.knows = knows, !.waits = {}, !.checks = {},
                           !.stale = status = "ok" /\ ~(old.checks \subseteq knows)]
        /\ entries' = [entries EXCEPT ![i] = e]
        /\ cache' = IF status = "failed" THEN Forget(e) ELSE cache
        /\ tip' = IF tip.key \in old.waits /\ tip.object \in Names /\ Told(e)
                  THEN [tip EXCEPT !.text = Text(i, e, tip.key)] ELSE tip
  BY <1>0
<1>2. old.status = "pending" /\ UNCHANGED <<table, data, drawn, pointer>>
  BY DEF Settle
<1>3. /\ Types /\ Over /\ Found /\ Whole /\ LoadingIsAwaited
      /\ entries \in Seq(Entries) /\ i \in 1 .. Len(entries) /\ old \in Entries
      /\ Len(entries) \in Nat /\ DOMAIN entries = 1 .. Len(entries) /\ i \in 1 .. MaxFetches
      /\ MaxFetches \in Nat
  BY PageHoverAssumption DEF HoverInv, Types
<1>4. e \in Entries /\ e.of = old.of /\ e.status = status /\ e.waits = {}
  BY <1>1, <1>3 DEF Entries
<1>5. /\ entries' \in Seq(Entries) /\ Len(entries') = Len(entries) /\ entries'[i] = e
      /\ DOMAIN entries' = 1 .. Len(entries)
      /\ \A j \in 1 .. Len(entries) : j # i => entries'[j] = entries[j]
  BY <1>1, <1>3, <1>4
<1>6. /\ cache' \in [Sources -> 0 .. Len(entries')]
      /\ \A s \in Sources : cache'[s] # 0 =>
           cache'[s] = cache[s] /\ (status = "failed" => s # old.of)
  <2>1. cache \in [Sources -> 0 .. Len(entries)]
    BY <1>3 DEF Types
  <2>2. CASE status = "failed"
    <3>1. cache' = [cache EXCEPT ![old.of] = 0]
      BY <1>1, <1>4, <2>2 DEF Forget
    <3> HIDE DEF old
    <3>2. cache' \in [Sources -> 0 .. Len(entries)]
      <4>1. 0 \in 0 .. Len(entries)
        BY <1>3
      <4>2. QED
        BY <2>1, <3>1, <4>1
    <3>3. ASSUME NEW s \in Sources, cache'[s] # 0 PROVE cache'[s] = cache[s] /\ s # old.of
      BY <2>1, <3>1, <3>3
    <3>4. QED
      BY <1>5, <3>2, <3>3
  <2>3. CASE status # "failed"
    BY <1>1, <1>5, <2>1, <2>3
  <2>4. QED
    BY <2>2, <2>3, Zenon
<1>7. Found'
  <2>1. SUFFICES ASSUME NEW s \in Sources, cache'[s] # 0
                 PROVE  entries'[cache'[s]].of = s /\ entries'[cache'[s]].status # "failed"
    BY DEF Found
  <2>2. /\ cache'[s] = cache[s] /\ cache[s] \in 1 .. Len(entries)
        /\ entries[cache[s]].of = s /\ entries[cache[s]].status # "failed"
    BY <1>3, <1>6, <2>1 DEF Found, Types
  <2>3. CASE cache[s] = i
    BY <1>4, <1>5, <1>6, <2>1, <2>2, <2>3
  <2>4. CASE cache[s] # i
    BY <1>5, <2>2, <2>4
  <2>5. QED
    BY <2>3, <2>4
<1> HIDE DEF old
<1>8. CASE tip.key \in old.waits /\ tip.object \in Names
  <2>1. PICK t : t = Text(i, e, tip.key)
    OBVIOUS
  <2>2. tip.key \in Names
    BY <1>3, <1>8 DEF Entries
  <2>3. t \in [says : {"error", "values", "not found"}, fetch : 1 .. MaxFetches, part : Names]
    BY <1>3, <2>1, <2>2 DEF Text
  <2>4. t \in Texts /\ t.says # "loading"
    BY <2>3 DEF Texts
  <2>5. tip' = [tip EXCEPT !.text = t]
    BY <1>1, <1>8, <2>1 DEF Told
  <2>6. /\ tip' \in Tips /\ tip'.text = t /\ tip'.key = tip.key /\ tip'.object = tip.object
        /\ tip'.torn = tip.torn
    BY <1>3, <2>4, <2>5 DEF Tips, Types
  <2>7. tip # Hidden
    BY <1>8, HiddenIs, Strings
  <2>8. Types'
    BY <1>2, <1>3, <1>5, <1>6, <2>6 DEF Types
  <2>9. Over' /\ Whole' /\ LoadingIsAwaited'
    BY <1>2, <1>3, <2>4, <2>6, <2>7 DEF Over, Whole, LoadingIsAwaited, Waiting
  <2>10. QED
    BY <1>7, <2>8, <2>9 DEF HoverInv
<1>9. CASE ~(tip.key \in old.waits /\ tip.object \in Names)
  <2>1. tip' = tip
    BY <1>1, <1>9
  <2>2. Types' /\ Over' /\ Whole'
    BY <1>2, <1>3, <1>5, <1>6, <2>1 DEF Types, Over, Whole
  <2>3. LoadingIsAwaited'
    <3>1. SUFFICES ASSUME tip # Hidden, tip.text.says = "loading", ~tip.torn
                   PROVE  \E j \in DOMAIN entries' :
                            entries'[j].status = "pending" /\ tip.key \in entries'[j].waits
      BY <2>1 DEF LoadingIsAwaited, Waiting
    <3>2. PICK j \in DOMAIN entries : entries[j].status = "pending" /\ tip.key \in entries[j].waits
      BY <1>3, <3>1 DEF LoadingIsAwaited, Waiting
    <3>3. entries[j] \in Entries /\ tip.object = tip.key
      BY <1>3, <3>1 DEF Whole
    <3>4. tip.key \in Names
      BY <3>2, <3>3 DEF Entries
    <3>5. j # i
      BY <1>9, <3>2, <3>3, <3>4 DEF old
    <3>6. QED
      BY <1>3, <1>5, <3>2, <3>5
  <2>4. QED
    BY <1>7, <2>2, <2>3 DEF HoverInv
<1>10. QED
  BY <1>8, <1>9

LEMMA StepHover == HoverInv /\ [Next]_vars => HoverInv'
<1> SUFFICES ASSUME HoverInv, [Next]_vars PROVE HoverInv'
  OBVIOUS
<1>1. CASE UNCHANGED vars
  BY <1>1 DEF vars, HoverInv, Types, Over, Found, Whole, LoadingIsAwaited, Waiting
<1>2. QED
  BY <1>1, MoveHover, LeaveHover, PickHover, RenderHover, SettleHover DEF Next

LEMMA HoverInvariant == Spec => []HoverInv
BY InitHover, StepHover, PTL DEF Spec

\* The kinds of values; the chart is that of the data unless there is none, and a tooltip
\* is only seen while the pointer is over the chart.
THEOREM HoverTypes == Spec => []TypeOK
<1>1. HoverInv => TypeOK
  BY DEF HoverInv, Types, Over, TypeOK, Tips
<1>2. QED
  BY <1>1, HoverInvariant, PTL

\* A fetch that failed is not in the cache, whichever fetch was there when it failed.
THEOREM FailedForgotten == Spec => []FailedIsForgotten
<1>1. HoverInv => FailedIsForgotten
  BY DEF HoverInv, Found, FailedIsForgotten
<1>2. QED
  BY <1>1, HoverInvariant, PTL

\* "Loading" is written over by a fetch that is under way, unless the key of the tooltip
\* was changed without it.
THEOREM LoadingAwaited == Spec => []LoadingIsAwaited
<1>1. HoverInv => LoadingIsAwaited
  BY DEF HoverInv
<1>2. QED
  BY <1>1, HoverInvariant, PTL

\* A hover over a part its entry does not know leaves the entry marked: the next one asks.
THEOREM MissedIsMarked == Spec => MissedOnce
<1> DEFINE Marked == tip'.text.says = "not found" /\ tip'.text # tip.text =>
                       entries'[tip'.text.fetch].stale
<1>1. ASSUME HoverInv, Move PROVE Marked
  <2>1. pointer' \in {"blank"} \cup Shown /\ data' \in Sources \cup {Nothing}
    BY <1>1, MoveHover, ObjectsAre DEF Move, HoverInv, Types
  <2>2. QED
    BY <1>1, <2>1, ShowHoverKeeps DEF Move, HoverInv
<1>2. ASSUME HoverInv, Render PROVE Marked
  <2>1. HoverInv'
    BY <1>2, RenderHover
  <2>2. data' \in Sources \cup {Nothing}
    BY <2>1 DEF HoverInv, Types
  <2>3. CASE UNCHANGED tip
    BY <2>3
  <2>4. CASE pointer' \in Objects(drawn') /\ ShowHover(pointer')
    <3>1. pointer' = "blank" \/ pointer' \in Shown
      BY <2>1, <2>4, ObjectsAre DEF HoverInv, Types
    <3>2. QED
      BY <1>2, <2>2, <2>4, <3>1, ShowHoverKeeps DEF HoverInv
  <2>5. QED
    BY <1>2, <2>3, <2>4 DEF Render
<1>3. HoverInv /\ [Next]_vars =>
        [(Move \/ Render) /\ tip'.text.says = "not found" /\ tip'.text # tip.text =>
           entries'[tip'.text.fetch].stale]_vars
  BY <1>1, <1>2
<1>4. QED
  BY <1>3, HoverInvariant, PTL DEF Spec, MissedOnce
=============================================================================
