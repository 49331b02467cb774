# TLA+ specifications of clickhouse-parts-viz

The service draws the parts of a ClickHouse MergeTree table as they are now, with the merges that
run, the ones that are queued, and the ones ClickHouse will probably pick next. This directory holds
TLA+ modules of its logic, TLC configurations that check them on small instances, and proofs that
TLAPS checks for every instance. `PROJECT.json` lists components, runs, mutants, the lines each
definition stands for, hazards, findings and theorems; this file explains them.

    tlc -workers 2 -config MergeSelector.cfg MCMergeSelector    # one run
    tlapm MergeSelectorProofs.tla                               # one proof module

Paths below are relative to the repository's root.

## 1. Inventory

| Component | Source | State it keeps | Operations |
|---|---|---|---|
| merge selector | `internal/selector/simple.go` | none across calls; in a call the loops' cursor and running sums, the list of scored estimates, the candidates | `Select`, `selectWithinPartsRange`, `consider`, `allow`, `score`, `hasOverlap` |
| selector settings | `internal/selector/settings.go` | none | `DefaultSettings`, `Apply` |
| candidates of a response | `internal/api/handlers.go` `candidates` | in a call: the range being built, the ranges, the statistics of each partition | the loop over parts, `flush`, the call of `Select` |
| parts request | `handlers.go` `parts`, `buildParts`; `queries.go` | in a request: the response under construction, the first error, the warnings; shared by up to six goroutines | validation, fan-out of queries, `wg.Wait`, the reply |
| minmax request and cache | `handlers.go` `minMax`; `queries.go` `MinMax`, `Table` | `Server.minmax`: rows by host, table and partition, with their date; guarded by a mutex | look up, query, store, clear, expire |
| table and settings queries | `internal/ch/queries.go` | none | one query each; `MergeTreeSettings` precedence, `ParseSettingsClause` |
| ClickHouse client | `internal/ch/client.go` | none | `Query`: HTTP request, decoding line by line |
| page loader | `web/app.js` `init`, `reload`, `schedule` | `state.loading`, `state.timer`, `state.data`; the two selectors, the checkbox | start, reload, timer, and the listeners |
| page hover | `web/app.js` from line 212 and from line 478 | `state.minmax` (promises), `hoverKey`, the tooltip | fetch on hover, mark stale, redraw of the tooltip |
| page drawing | `web/app.js` from line 240 | the SVG | lanes, brackets, axis labels, table view |
| health, config, tables | `handlers.go` | none | one query, one reply |
| lifecycle | `cmd/partsviz/main.go` | the signal context | start, shutdown |
| markup, demo, build | `web/index.html`, `deploy/`, `Makefile` | none | |

How they interact. The page asks `api/parts` on a timer and on user events, one load at a time, and
`api/minmax` when the mouse is over a part. `buildParts` asks ClickHouse several questions at once,
waits for all of them, and hands the response to `candidates`, which splits the parts into ranges
and calls `Select`. `minMax` asks for the table's columns on every request and for rows when its
cache has none. ClickHouse itself is an actor: it inserts, assigns merges, starts and finishes them
while a request reads it, one question after another.

What is hard here:

* **`Select` is four nested loops with running sums, early `break`s and a trimming loop on copies of
  the sums**, followed by a single-pointer greedy pass over a sorted list. Its errors would be silent:
  a candidate missing, or with another range's bytes.
* **A response is made of six answers read at different times**, some optional and any of them
  failing, cut off or late, from a table that goes on merging.
* **The minmax cache is looked up and stored in two critical sections** with a query of up to 30
  seconds between them; the columns it is paired with are read by every request afresh.
* **The page's load is an `await`**; the user, the timer and the page's visibility come in between.
* **An answer of ClickHouse comes line by line while its query runs**, so it can stop in the middle:
  the connection breaks, the minute is over, a line is too long, an exception follows the rows.
* **A description of a table is three answers**, and the host a fourth, with the table free to change
  between them.
* **A setting passes four hands** (server, clause, `Apply`, `candidates`), each with its own rule for
  what is missing or cannot be read.
* **A tooltip outlives what it is of**: the chart is redrawn under the pointer, the cache of promises
  is cleared while fetches run, and a callback runs later than the code below it reads.
* **`main` returns when the server is closed**, not when its requests are done, and exits when the
  listener fails, which may be long after it began to serve.

What makes each component correct: the selector scores every sub-range the rules accept exactly once
with the right sums, and picks greedily, without overlap; the ranges are the longest runs of idle
parts of one partition; a page tells which of its questions failed (all but whether there is a
`part_log` and which skipping indices there are, whose failures the code takes for a no) and never
offers a part it knows to be busy;
the cache is bounded and what it serves is young and of the right columns; the page never holds
another table than the one picked, never stops refreshing, and catches up with the pick. A question
has its whole answer or an error; a description of a table is one the table had, and the status of a
reply says whose fault a failure is; the settings in effect are the configured ones, or the reply
warns; a part's creation event is its own and its last; a failed fetch is not kept and a tooltip does
not wait for ever; brackets stand over their own parts and numbers apart; a signal ends the process,
and the exit status says why it ended.

## 2. Plan

Order of work, the most important behaviour first.

1. **`MergeSelector`** (done): the selector, loop by loop, with `CandidateContract` as its abstract
   specification, a reference definition without loops, and the proofs.
2. **`CandidateRanges`** (done, with proofs): the split into ranges; composes with the selector
   through `CandidateContract`.
3. **`PartsRequest`** (done, with proofs): one request beside a moving table; composes with 1 and 2
   through `PartRuns`.
4. **`MinMaxCache`** and **`PageLoader`** (done, with proofs of their safety properties).
5. **`SelectorSettings`**, **`SettingsClause`** (done): the way of a setting from ClickHouse to `Select`.
6. **`ClickHouseClient`** (done), with `QueryContract` as what its callers rely on; **`Endpoints`** (done):
   the requests that ask one question after another; **`PartLog`** (done): the join of parts and log.
7. **`PageHover`** (done): the tooltip and its promise cache. It composes with `PageLoader` through
   `PageData`, which says what the one may assume of the other.
8. **`Lifecycle`** (done) and **`PageDrawing`** (done); **`Service`** (done) composes the process with
   the request whose handler waits for ClickHouse.
9. Proofs of every safety property that the prover can reach, and of what it can reach of
   liveness (done, section 5).

Abstract specifications: what a caller of `Select` relies on (`CandidateContract`), what a caller of
`Query` relies on (`QueryContract`), and what the rest of the page may assume of `state.data`
(`PageData`), all done. Worth stating still: what a client of the minmax cache may be given (a value
computed no longer ago than a bound), with `MinMaxCache` refining it.

Section 5 names what the runs check and no theorem states, and why. Worth proving still: that
`MinMaxCache` refines such a specification.

## 3. Modules

| Module | Models | State and actions, and what they are in the code |
|---|---|---|
| `MergeSelector` | `simple.go`, one call of `Select` a behaviour | `ri`, `begin`, `end`, `acc` are the loop variables and sums of `selectWithinPartsRange`; `trim` the locals of `consider`; `scored` is `estimator.scored`; `rest` what the pointer `next` has not passed; `out` the result. `Enter`, `SkipRange`, `OpenRange`, `CloseRange` are the outer loop, `OpenBegin`, `CloseBegin` the middle one, `Refuse`, `Accept` an iteration of the inner one, `TrimRight`, `Consider` are `consider`, `SortScored`, `Take`, `Pass`, `Return` the rest of `Select` |
| `CandidateContract` | what callers of `Select` rely on | one step: the answer |
| `MergeSelectorReference` | what the loops compute, without loops | the sub-ranges that may be merged as a set, sums over sets of parts; theorem `Agrees` says the loops compute the same |
| `MergeSelectorProofs` | | proofs about `MergeSelector` |
| `PartRuns` | runs of adjacent idle parts | operators that `CandidateRanges` and `PartsRequest` share |
| `CandidateRanges` | `candidates` | `NextPart` is one iteration of the loop, with its `flush`; `LastFlush` the one after it; `Select` is the call, by its contract |
| `PartsRequest` | `parts` and `buildParts`, beside ClickHouse | `Refuse`, `Launch`, `Probe`, `ReplyError`, `ReplyPage` are the handler's own steps; `Answer(q)`, `Fail(q)` the goroutine of question `q`; `Insert`, `AssignMerge`, `StartQueued`, `FinishMerge` are ClickHouse (external) |
| `MinMaxCache` | `minMax` and its cache | `Ask`, `ReadTable`, `Hit` or `Miss`, `Read`, `Arrive`, `Store` are a request's stages, cut at every point where another request may come in; `Tick` and `Alter` are the clock and ClickHouse (external) |
| `PageLoader` | `init`, `reload`, `schedule` and the listeners | one action for each handler; `Reload` is the code up to the `await`, `Loaded` and `LoadFailed` the code after it |
| `PageData` | what the rest of the page may assume of `state.data` | `PickTable`, `Load`; `PageLoader` refines it, `PageHover` is built on it |
| `ClickHouseClient` | `ch.Query`, one call | `rows`, `sent`, `wire`, `stream` are the answer and the connection; `Refused`, `Accepted`, `ScanLine`, `ScanEnd` are `Query` up to the status, an iteration of its loop, and the end; `Expire` is the client's timeout; `SendRow`, `SendBlank`, `SendException`, `Close`, `Break` are the other side (external) |
| `QueryContract` | what callers of `Query` rely on | one step: the answer |
| `Endpoints` | `healthz`, `config`, `tables`, and `table` with `Store.Table` and `Store.Hosts` | `pc` is the question a request waits for; one action for each answer, `Fail` for any that fails; `Change` is ClickHouse (external) |
| `SettingsClause` | `ParseSettingsClause` | `pos` is where the regular expression's search has got to; `Match` is one match with the body of the loop, `Skip` a character at which there is none |
| `SelectorSettings` | `MergeTreeSettings`, `Apply`, and what `candidates` reads of the settings | `Query`, `Apply`, `Finish`, one after the other |
| `PartLog` | `HasPartLog`, `PartLog`, `Parts` and their join in `buildParts` | `Probe`, `ReadParts`, `ReadLog`, `Join`; `Write`, `Remove`, `Flush` are ClickHouse (external) |
| `Lifecycle` | `main` | `Configure` and `Notify` are main's statements up to `ListenAndServe`, which is `Listen` (is the server closed?), `Bind` (`net.Listen`), `ServeReturns` and `ServeFails`; `Return` and `Fail` are what main does after it. `Shutdown` is the goroutine; `Signal`, `Lose` (the listener fails for good), `Accept`, `Finish` are the system and `net/http` (external) |
| `Service` | the process with the handler of one request in `Query` | the variables of `Lifecycle` and `ClickHouseClient`; the handler's steps need its request to be running, `Replies` ends the request when `Query` has returned, and what the process cuts off stops where it is |
| `PageHover` | the tooltip and `state.minmax` | `Move`, `Leave`, `PickTable`, `PickHost`, `Render` are handlers with the promise callbacks that follow them; `Settle(i)` is the end of fetch `i` with its callbacks; `entries` holds all entries there ever were, because callbacks hold them |
| `PageDrawing` | the lanes that `render` draws | `StartLane` places the bars, `DrawBrackets` the candidates, `LabelPart` is an iteration of the loop over numbers, `LabelEnd` the last one |
| `MinMaxCacheProofs`, `PageLoaderProofs`, `PageHoverProofs` | | proofs about the module each is named after |
| `ServiceProofs` | | proofs about `ClickHouseClient`, `Lifecycle` and their composition `Service` |
| `ResponseProofs` | | proofs about `CandidateRanges` and `PageDrawing` |
| `PartsRequestProofs` | | proofs about `PartsRequest` and about `MCServing`, whose properties speak of it and of `Service` |
| `StoreProofs` | | proofs about `Endpoints`, `PartLog`, `SettingsClause` and `SelectorSettings`, as `MCStore` puts them side by side |

The `MC...` modules give the constants their values. `MCResponse`, `MCServing` and `MCStore` each put
two or three models in one run: an initial state starts one of them, with the variables of the others
at an end they can reach, and a step is a step of the one that was started. Nothing is shown there of
how these models interact; where components do interact the composition is a module of its own
(`Service`) or goes through an abstract specification that one side implements and the other assumes
(`CandidateContract`, `PageData`).

Abstractions, all of data and none of control:

* *Reals.* Ratios, scores and logarithms are fixed-point integers, `Unit` to the whole. `Log2` is a
  table, a constant: the proofs hold for every table, the runs use log2 to two decimals. The order of
  operations is the code's, so where a division truncates differs from a float's rounding only in the
  last digit. The tests of the repository (`TestsPass`) give the same answers.
* *Names.* A part of `MergeSelector` is its position. A part of `PartsRequest` is its interval of
  block numbers, which is what a part's name says. A table of `PageLoader` is its two names as
  sequences of characters, because the code joins them.
* *Rows.* The rows of a minmax answer are known by their partition, columns and date.
* *The sort.* `Before` is the order a stable sort by the code's comparison makes; taking the next
  element is taking the least of what is left.
* *Sizes.* No arithmetic of the modelled code overflows for sizes a disk can have, so integers are
  unbounded; `math.MaxInt64` is the constant `MaxAge`.
* *`Select` inside `CandidateRanges` and `PartsRequest`* may answer anything its contract allows. That
  the real one keeps the contract is theorem `Implements`.
* *The part log* is left out of `PartsRequest`, except that its query can fail and warn; `PartLog`
  has the rest. Time is counted in days there, and one kind of event stands for the four that make a part.
* *An answer's lines.* A row is its number. The text of an exception is taken for no row; a ClickHouse
  that writes its exceptions as JSON rows would break this assumption.
* *Settings.* A number is its text; a text that Go cannot read is one model value for each way. Values
  in a clause have no backslashes or quotes in them and do not contain the word that begins a clause.
  A word is what `\w` matches, so signs and the point of a number are none. ClickHouse takes 0, 1,
  true and false for a switch and nothing else.
* *The table of `Endpoints`* may change at any point between the first question and the reply; a
  change before the first question is another initial state.
* *Lengths of `PageDrawing`* are multiplied by the denominator of the scale and so are exact; a part's
  weight stands for any of the five measures. A number is as wide as its digits, `MaxDigits` at most.
* *Promises.* Callbacks of settled promises run before the next handler, so a step of `PageHover` is a
  handler together with them; only fetches take time.

Definitions whose comment begins with "Mistake" are plausible bugs. No specification uses them; each
stands beside the definition it alters, and `PROJECT.json` says which property each one breaks.

## 4. Runs

| Run | States | What it shows |
|---|---|---|
| `selector` | 191k | Every mix of three sizes in ranges of one to four parts of one age (two of them), and of three sizes and two ages in ranges of three, beside a second range, for three settings, two partition sizes, and two sets of constraints; the calls of `simple_test.go` except the one with 150 parts; and the lowering heuristic at every count of parts around its two ends. `AgreesWithReference` compares the loops with the reference, `BestFirst` and `NothingBetterLeftOut` judge the pick, `KeepsContract` is the refinement, `Returns` termination, `TestsPass` that the answers of those tests come out, `LoweringKeepsPairs` that a lowered limit allows a merge, is never above the setting, and never rises with one more part |
| `response` | 108k | `CandidateRanges`: the ranges are the maximal runs, the statistics cover the partitions, the candidates are runs. `PageDrawing`: numbers do not overlap and the last block has its own (`NumbersLegible`); lanes fit the chart and brackets stand over their own parts (`LaneLaidOut`) |
| `serving` | 225k | `Service`: `Query` refines `QueryContract` (the whole answer, or an error with some of its first rows); the exit status tells why the process ended, and what it may have cut off (`ExitTells`); a signal ends the process, a request ends. `PartsRequest`: the page tells every failed query for the table but the two silent ones (section 6), and offers a busy part only with the warning that explains it (`PageTells`), its candidates are assignable when nothing moved, and every request is answered. `RequestsAnswered` has that nobody who is owed a step is without one (`NobodyStuck`, `NobodyStuckInParts`), from which section 5 goes on |
| `minmax` | 2.0M | The cache's bound, the age of what it serves, and that columns and rows of a reply agree while the indices do not change and are read without failure |
| `minmax_mismatch` | violation | Finding 1 |
| `page` | 560 | Another table's parts are never kept, refreshing goes on, the page catches up; it refines `PageData` |
| `page_host` | violation | Finding 2 |
| `page_dots` | violation | Finding 3 |
| `store` | 1.6M | `SelectorSettings`: what ClickHouse prints is read back, setting by setting, and the settings in effect are the configured ones unless the reply warns, with a note for every other selector. `Endpoints`: the columns of a reply are those of the table if it stayed the same, and otherwise of one moment of it (`ColumnsTell`); one host, and the status tells what went wrong (`ReplyTells`). `PartLog`: a part comes with an event of its own on the page's host, the last one in the log, and a part that stayed comes with its event if the page is of the connected host (`CreationsTell`) |
| `part_log_elsewhere` | violation | Finding 4 |
| `page_hover` | 146k | A failed fetch is not in the cache; a tooltip that says "Loading" has a fetch under way that will write it; an outdated result is used once at most |
| `page_values_of_shown_part` | violation | Finding 5 |

Bounds, and why they are enough:

* `selector`: the sizes 1, 2, 16 make a part small beside another (10 %), as large as its neighbour
  or not, and a sum above or below each constraint; `partsToThrow = 12` and `base = 2.3` put the
  partitions of 4 and 9 parts on both sides of the lowering heuristic's effect; `window = 3` is below
  the longest range; three settings turn every rule on and off. Four parts give ten sub-ranges, two
  disjoint ones, two that touch, nested and overlapping ones. The second range has parts of its own,
  so that candidates of two ranges compete and tie. `limits` is empty in one call (the early return).
* `response`, ranges: five parts in two partitions, any set of them in a running merge, three sets
  queued; a run can be cut at its start, in its middle, at its end and at the partition's border, and
  a busy part can be first of the second partition. `now` is before some modification times.
* `response`, lanes: four parts in two partitions with weights 0, 1 and 5, which make bars of the least
  width and bars as wide as the chart, block numbers of one to three digits (`MaxDigits = 3`), and one
  partition of 60 parts, whose gaps use up the chart.
* `serving`, the process: two requests, one of which asks ClickHouse; three rows, of which two lines can
  be between the two sides; a cut can come before, in or after any row, a signal at any moment, and
  the failure of the listener at any moment while it serves.
* `serving`, parts: `Moves = 2` changes of the table during the request, enough for a merge to begin
  before the one question and end before the other. Three parts and room to insert a fourth.
* `minmax`: `Limit = 1` in place of 1000, so two partitions fill the cache and a third clears it; two
  requests at once and any number one after the other; an index that comes and goes; the clock runs to
  `MaxTime`, beyond `TTL + Timeout`, so entries expire and queries end late.
* `page`: two tables and two hosts; the state space is finite without any further bound.
* `store`, settings: each setting alone and three groups that the code reads together, on the server,
  in the clause, in both or in neither (the others are read independently of each other); and clauses
  of two settings, one's name the beginning of the other's, with values of each of the characters the
  expression treats in its own way, and a definition that contains a clause of its own.
* `store`, tables: two columns, up to one index, an expression that is no column's name, two hosts,
  and one change of table or replicas between the first question and the reply.
* `store`, log: two hosts and two parts; each may have been written, removed and written again before,
  and two more steps come during the request. `Days = 3` in `part_log_elsewhere`, where the bound on
  the day is the question, 2 in `store`.
* `page_hover`: `MaxFetches = 2`, so a second fetch of a source can overtake the first; two tables.

Symmetry is used in `minmax`, `store` and `page_hover`, which check no liveness.

Deadlock is not checked: a call returns, a request is answered once, the clock stops, a page may fail
to start; all these are ends.

Fairness, and what justifies it:

* `MergeSelector`: a sequential program runs on (weak fairness of `Next`).
* `PartsRequest`: the handler's goroutine runs, and every query ends, since the HTTP client gives up after 60
  seconds (`client.go:45`). Nothing is assumed of ClickHouse.
* `Service`: `main` and the goroutine that waits for a signal run, the client reads what is there, its
  timeout fires (`client.go:45`), and a handler whose query has returned replies. ClickHouse owes
  nothing, the other requests may run for ever, and no signal need come.
* `PageLoader`: `init` ends, a fetch ends (its queries are bounded), a timer that stays set fires.
  `CatchesUp` assumes besides that loads succeed again and again and that the user settles; without
  either the page can promise nothing.

`MinMaxCache`, `Endpoints`, `SelectorSettings`, `PartLog`, `PageHover` and `PageDrawing` are checked for
safety only: each of their steps ends because a query does, which `Service` shows, or is a loop over a
list. `LoadingIsAwaited` of `PageHover` is the safety half of "no tooltip waits for ever": whoever
shows "Loading" is written to when its fetch ends.

## 5. Proofs

No assumption bounds the parts, ranges, constraints, settings, requests, partitions, tables, hosts,
columns, rows or days. What the constants are assumed to be, each evaluated by the run of its module:

| Assumption | Module | Says |
|---|---|---|
| `UnitAssumption`, `LogAssumption`, `InputAssumption` | `MergeSelector` | the fixed-point one is positive; the table of logarithms is one; the arguments have the types Go gives them |
| `ResponseAssumption` | `CandidateRanges` | the types of a response; a part's age is an int64, so not above `math.MaxInt64` |
| `DrawingAssumption` | `MCResponse` | a page has finitely many partitions; its parts are in the order of `queries.go:206` and active parts of a partition do not overlap, which is ClickHouse's; its candidates are as `OffersIdleRuns` says the service makes them |
| `BlocksAssumption` | `MCServing` | the number of blocks is a number |
| `ServiceAssumption` | `Service` | the request followed is one of the requests; rows and read-ahead are numbers |
| `ColumnsAssumption`, `TimeAssumption` | `MinMaxCache` | no column is both of the key and of an index (`queries.go` keeps them apart); times are numbers |
| `PageHoverAssumption` | `PageHover` | the value that stands for "nothing" is no table with a host; names of parts are not the marks for what else is under the pointer |
| `RequestAssumption`, `LogAssumption` | `MCStore` | hosts are numbered from 1, columns are finitely many and none is written like an expression; there is a first day, and the service is connected to one of the hosts |
| `WordAssumption` | `SettingsClause` | the characters `\w` matches are not those that separate |
| `GivenAssumption` | `SelectorSettings` | ClickHouse prints clauses without quotes or backslashes in their values, and takes 0, 1, true and false for a switch |

Some theorems have a hypothesis. `NeverAnotherTable` and `ImplementsPageData` hold if `LabelsUnique`, that
no two tables have the same joined name; finding 3 is what happens without it. `SignalDoesStop`,
`TimeoutBites` and `PartsAreAnswered` hold if nobody who is owed a step is without one: fairness gives
somebody his turn only while he has a step to take, and what ENABLED says of an action
the provers cannot find out. So `NobodyStuck` (in `Service`) and `NobodyStuckInParts` (in `MCServing`) say
it, action by action, and the run `serving` checks both in every state, as a part of `RequestsAnswered`.

| Theorem | Module | Says |
|---|---|---|
| `TypeCorrect` | `MergeSelectorProofs` | each estimate is a proper sub-range of at least two parts, and no index leaves its range |
| `Ordered` | | `Spec => []BestFirst` |
| `Greedy` | | `Spec => []NothingBetterLeftOut` |
| `Implements` | | `Spec => KeepsContract`: `Select` refines `CandidateContract` |
| `LoweringKeeps` | | `Spec => []LoweringKeepsPairs`: the heuristic that lowers the number of parts, for any settings and counts |
| `Agrees` | | `Spec => []AgreesWithReference`: the loops score what the definition without loops allows, each once, with its own sums |
| `CountsDown` | | every step of `Select` takes what its loops have left (`Left`) down in a well-founded order (`Lower`) |
| `NeverStuck` | | `Spec => []PassGoesOn`: the pass over the estimates has a next one until it ends |
| `TypeCorrect` | `ResponseProofs` | the loop's variables keep their types; no age is negative |
| `OffersIdleRuns` | | `Spec => []OffersCandidates`: with `Implements`, what the service offers are runs of idle adjacent parts |
| `RangesMaximal` | | `Spec => []RangesAreMaximalRuns` |
| `StatsCover` | | `Spec => []StatsCoverPartitions` |
| `NumbersAreLegible` | | `ResponseSpec => []NumbersLegible`, for any weights, block numbers and width of the chart |
| `LanesAreLaidOut` | | `ResponseSpec => []LaneLaidOut`: the scale does for every lane, brackets stand over their own parts |
| `PageTold` | `PartsRequestProofs` | `[]PageTells`: what a page tells and what it offers |
| `CandidatesDoStand` | | `[]CandidatesStand`: what is offered could be merged at the moment of the reply |
| `ServingTypes` | | `[]ServingTypeOK`: parts of a table do not overlap; merges are of active parts |
| `PartsAreAnswered` | | if `NobodyStuckInParts`, a request for parts is answered |
| `ServiceTypes` | `ServiceProofs` | the process and the query keep their types |
| `ExitTold` | | `[]ExitTells` |
| `QueryKeepsContract` | | `KeepsContract`: `ch.Query` refines `QueryContract` |
| `SignalDoesStop` | | if `NobodyStuck`, `FairSpec => SignalStops` |
| `TimeoutBites`, `WireShrinks` | | if `NobodyStuck`, a request ends or for ever reads a response that was broken off; and such a response only gets shorter |
| `ReplyTold`, `ColumnsTold` | `StoreProofs` | `[]ReplyTells`, `[]ColumnsTell`: the status, host and columns of an answer |
| `CreationsTold` | | `[]CreationsTell`: a part is shown with its own last creation |
| `SettingsReadBack` | | `[]ReadsBack`: what is read of the text of a clause is the clause |
| `SettingsApplied` | | `[]EffectiveOrWarned`: the selector works with the settings in force, or the response warns |
| `StoreTypes` | | `[]StoreTypeOK` |
| `NeverOverfull` | `MinMaxCacheProofs` | `Spec => []CacheBounded` |
| `AlwaysServedFresh` | | `Spec => []ServedFresh` |
| `ColumnsMatch` | | `Spec => []ColumnsMatchWhileSteady` |
| `TypeCorrect` | | `Spec => []TypeOK` |
| `KeepsGoing` | `PageLoaderProofs` | `Spec => []RefreshGoesOn` |
| `NeverAnotherTable` | | if `LabelsUnique`, `Spec => []HoldsPickedTable` |
| `ImplementsPageData` | | if `LabelsUnique`, `Spec => KeepsPageData`: the loader refines `PageData` |
| `DoesCatchUp` | | `Spec => CatchesUp`: the page comes to show what stays picked, if loads go on succeeding |
| `TypeCorrect` | | `Spec => []TypeOK` |
| `FailedForgotten`, `LoadingAwaited` | `PageHoverProofs` | `Spec => []FailedIsForgotten`, `Spec => []LoadingIsAwaited` |
| `MissedIsMarked` | | `Spec => MissedOnce`: a step that misses a part marks the entry |
| `HoverTypes` | | `Spec => []TypeOK` |

The arguments.

*`MergeSelector`.* `TypeOK` alone is not inductive: that the parts the loops read exist depends on where
the loop is. `LoopOK` adds it, one conjunct for each value of `pc` (in "extend" the range has a part
after `begin` and `end` is two beyond it at least; in "trim" consider's own end is between
`begin + 2` and `end`). `Inv` is the two together; `StepInv` takes the actions one at a time.

For the pick, `PickOK` says where the pass stands: what is taken is not in `rest` and is sorted before
all that is; `out` is ordered and its members do not overlap; and every estimate that is neither
taken nor in `rest` was too big for a constraint or overlaps a candidate sorted before it. `TakePick`
and `PassPick` show that the two steps of the pass keep it. `BestFirst` and `NothingBetterLeftOut`
follow from it, and so does the answer's side of the contract. `Implements` then maps every
step but `Return` to a stutter, as the contract sees the result only when the call has returned.

For the scan, `ScanOK` says how far the loops are: `Scanned` are the mergeable ranges the cursor has been
over, and the estimates are theirs, one each (`Scores`); `acc` holds the sums, the largest size and the
least age of the range at the cursor (`Holds`); `TrimOK` says the same of consider's deltas, and that all
it dropped was small. A step either passes no mergeable range (`SameScores`) or the one it
appends an estimate of (`OneMoreScore`). That nothing is lost by a break is in `AcceptedIs`: sums only
grow with the range (`SumFacts`), so if one more part is too many or too big, so is every longer
range. The library adds up a set in an order of its own, so `SumExists` and `ChosenIsSum`
first show that the order does not matter.

For the heuristic, the fill of a partition is a fraction that rises with its parts (`FillMono`), a power of
a fraction is one (`PowerMono`), so what is left of it falls (`LeftMono`) and the limit with it, between
the setting and the base (`LimitAboveBase`, `LimitBelowBase`); the two ends fit on (`CapFalls`).

Two theorems here take an induction over numbers. No installed prover can use the library's induction
theorems, but a set of numbers that is not empty has a least one (`LeastNumber`), and the least
counterexample of each such lemma contradicts its predecessor. The same serves for
recursive functions: they are a `CHOOSE`, and the lemma shows that there is one to choose
(`PowersExist`, and `FoldExists`, `TextExists` in `StoreProofs`).

That `Select` ends is a matter of five numbers, one for each loop from the outermost in: what it has left,
twice, and one more where the next loop is not open yet (`Left`). `WithinOK` adds to the invariant that no loop
runs past its end, so these are numbers; `StepCounts` goes through the steps, each of which lowers one
of the five and leaves those outside it alone. In a sequence that only counts down the first number must
settle at the least value it takes (`LeastNumber`), after that the second, and in the end all five, which
is no counting down (the lemma `NoneBelowForEver`); so the order is well-founded, and `CountsDown` has
both. The guards of the loops are negations of each other; only the pass needs an argument, that of any
estimates one is the first (`FirstExists`).

*`CandidateRanges`.* The contract speaks of positions in ranges and the property of parts in the
response, so the invariant has to say how the two are related. `CurOK` and `RangesOK` do: a range holds
consecutive positions of idle parts of one partition, the one being built ends just before the part
the loop is at, and each finished range ends before the next one starts. `NextCur` and `NextRanges`
carry this over an iteration, `FlushRanges` over a flush. A candidate inside a range is then a run
(`CandidateIsRun`), and two that cover no part in common are apart (`CandidatesApart`): within a range by
their offsets, in two ranges by the order of the ranges. That the ranges are the longest runs is
`LinksOK`: two idle neighbours of one partition that the loop has been past are neighbours in one range. `CountsOK`
says that the statistics are those of the parts up to the one the loop is at.

*`PageDrawing`* (`ResponseProofs`). Lanes, sums of weights and bars are folds, so a first part follows them one
part at a time (`LaneIsOrderly`, `TotalIsSum`, `BarsAreBars`); what `DrawInv` says of them needs no
fold any more. Of finitely many ratios of room to weight one is the least (`LeastRatio`), so the scale
fits every lane (`ScaleFits`), and a lane reaches no farther than its gaps, least widths and scaled
weights together (`BarsReach`, `FitArithmetic`). A bar ends before the next one starts (`BarsApart`), so
the span of a candidate's bars is from the first to the last of them (`SpanIs`) and two candidates without
a common part have spans apart (`BracketsDrawn`). For the numbers, `LabelsOK` adds to their order that
every number drawn is less than the first block of each part still to come, and that the last one leaves
room for the last block or is the first part's own (`Beside`): that is why the loop may stop early
without losing the end (`LabelLast`).

*`PartsRequest`.* A page is made from answers given at different moments. `PartsInv` says which
questions may be open at which step (`Asking`) and that a merge which is there all the time is in what
was answered (`Seen`). `CandidatesStand` needs what the table itself keeps (`TableOK`: parts have
no block in common; a merge is of active parts, without gaps, and no two merges share a part) and what a
quiet request adds (`Steady`: the merges are those it was told, and the parts it was not told of came after
the others). The proof goes from the ranges of `PartRuns` to a merge ClickHouse could assign: no
active part lies between two neighbours of a range (`SpanUnbroken`).

*`Service`.* `ClientInv` relates the places a row can be: what is on the wire goes on where the
result stops, in order (`InSequence`), up to what was sent, if the connection did not break
(`Complete`), and a stream that was closed had no more to send or an exception to tell (`Ended`). The
refinement maps every step but the return of `Query` to a stutter. `ProcessInv` says what each statement of
`main` implies of the signal, the listener and the requests (`main` fails only for want of a listener, and
nothing is served without an address; a listener lost while it serves is the one way to exit with status 1 after
something was served), `ServiceInv` that nothing is asked for a
request that has not come.

*What must happen.* PTL takes `WF_v(A)` apart into "again and again A is taken or is not possible", with
ENABLED as a word it does not know. So these proofs name the stages of whoever must get somewhere, show
for each that only the next stage can follow it and that the action in turn leads there, and take from the
hypothesis that the action is possible meanwhile. For a signal the stages are `Told`,
`Opening` (the address is being taken), `Closing`, `Going` and `Exited`: the proof rests on the server being closed by nobody but the goroutine, and never opened again
(`StaysClosed`). For a request for parts they are those of the handler, and between `Waiting` and `Done` each of the
six questions has to be `Back`; none is asked again (`BackStays`), so they are all back together.
For a request whose question is with ClickHouse (`Asks`), the timeout ends the question or breaks the
response off (`AsksExpires`); what is left of it then (`Drains`) is read line by line. `CatchesUp` needs neither
fairness nor ENABLED, as it assumes that loads succeed again and again: the first load that ends after the
user has settled may be of something else and be dropped, but each one begun from then on is `Current`.

*`Endpoints`, `PartLog`* (`StoreProofs`). `RequestInv` says which questions a request gets to and what its
reply says from then on, `ListInv` what has been read by then: the columns of a moment since the request
began, and those of the table if it stayed as it was. The list is a fold over the key's columns and then
over the indices; `FoldKeys` and `FoldIndices` follow it one name at a time. `LogInv` says that nothing happened to
an active part after it was written (`LastEvent`), that the log's rows are the latest of their parts
(`LatestRow`), and that a part that stays has been read and has its row if the log of its host was
(`Staying`).

*Settings* (`StoreProofs`). `Layout` says where in the printed text each name, value and separator stands;
`MatchHere` that the regular expression, tried at the start of a setting, matches this setting and
ends where the next one starts; `ParseInv` that the loop stands between two settings with those before it in
`out`. `SettingsInv` carries this through `Apply`.

*`MinMaxCache`.* The mutex is released during the query, so an answer's date must be followed from the
query to the entry: `RequestOK` says of each stage of a request how old what it holds can be
(`Timeout` at most when it stores), `EntryOK` that an entry's rows are no more than `Timeout` older than
its date, so that what a hit serves is `TTL + Timeout` old at most. `Fresh` is both for all; `Tick`
keeps it because a query cannot outlive its timeout. `Bounded` needs only that a store clears first when the
limit is passed. `Steady` says that as long as no index changed every request and every entry has
the one set of columns there is.

*`PageLoader`.* `Inv` adds to the property that before the page has started nothing is loading and no
timer is set, and after it that refreshing goes on; each listener keeps it through the same case
split on what `reload` finds. `NeverAnotherTable` needs that a response is kept only if the joined names
agree, which is the same as being of the picked table when the names are unique. `StepData` maps each
handler to a step of `PageData`: the three listeners that pick to `PickTable`, the end of a load to
`Load` or a stutter.

*`PageHover`.* `HoverInv` has four parts beside the types: what is under the pointer belongs to what is drawn
(`Over`), an entry of the cache is one that was asked for with its key (`Found`), an entry that failed and
was told of is out of the cache (`Whole`), and a tooltip that says loading waits for an entry that has not
settled (`LoadingIsAwaited`, which is not inductive without the others).

What stays with TLC:

* `Returns`, and the half of `RequestsAnswered` that is about a response broken off. That every step
  counts down is proved (`CountsDown`, with an order in which nothing counts down for ever;
  `WireShrinks`), but not, as a formula of a behaviour, that the steps come to an end: this takes an
  induction over a temporal formula; the
  library's theorems for it take an operator, and sets have no temporal formulas in them;
* `NobodyStuck` and `NobodyStuckInParts`, since ENABLED is out of the provers' reach;
* `TestsPass`: the answers of the repository's own tests, for the inputs the tests give.

## 6. Findings

With a run that shows them:

1. *Columns and rows of a minmax reply can disagree* (`handlers.go:347`). The columns are this
   request's, the rows may be an earlier one's, from the cache, with the columns the table had then;
   a failed index query (`queries.go:133`) is enough. The page pairs them by position
   (`app.js:603`).
2. *A host picked during a load may never be shown* (`app.js:200`). The response is checked for its
   table and not for its host, and the listener's own reload returned early. With refresh off the
   page rests with the old host's parts.
3. *Joined names* (`app.js:200`). Table `c` of database `a.b` and table `b.c` of database `a` are the same
   when joined with a dot, so the response for the one is kept for the other.
4. *A creation event can be missing on another host* (`queries.go:235`). The log is read on all replicas; the
   oldest day that is looked at comes from the parts of the one the service is connected to.
5. *Values of another table's part* (`app.js:598`). `hoverKey` is the part's name; a late answer
   for a part of the same name in the table or host shown before is written.

Behaviour the models have and no run of its own shows, because a property here says what remains
true in spite of it:

* *A failed query for merges makes busy parts candidates* (`handlers.go:191`, `199`). The queries for
  merges and for the queue are optional. Without their answer `candidates` takes every part for
  idle, while `README.md:71` says that parts in a running or queued merge break the ranges. The page
  shows the warning (`PageTells`), but the candidates with it.
* *The clause is lost with the query* (`queries.go:299`). `MergeTreeSettings` merges the server's settings
  with the clause that came with the table; when its query fails it returns neither, and
  `Apply` takes the empty map for a server without the lowering heuristic. The reply has a warning
  (`EffectiveOrWarned`), but `README.md:75` promises the clause's settings too.
* *"Not found" on the first hover* (`app.js:217`). The mark that makes `minmaxFor` ask again is set
  in a callback that runs after it. `MissedOnce` shows that the next hover does ask.
* *A tooltip that stays* (`app.js:486`). It is not rewritten when a part of the same name is drawn
  under the pointer. While `state.data` is null, `tooltipHTML` throws after `hoverKey` was set, and
  what the tooltip then shows is nobody's (`LoadingIsAwaited` sets this case apart).
* *The ten seconds are not given* (`main.go:53`). The goroutine lets `Shutdown` wait ten seconds for the
  requests that run, but `ListenAndServe` returns as soon as `Shutdown` begins (`main.go:59`), main
  returns after it, and the process ends with its requests cut off. Only the code shows the intent, no
  document, comment or test does, so `ExitTells` says what the status and the cut tell, and
  allows this: `Return` cuts what is running.
* *A listener that fails cuts requests off too* (`main.go:59`-`62`). `os.Exit(1)` does not wait
  either; a signal that comes while main finds out does not change the status (`ServeFails`, `Fail`).
* *Two failures nobody is told of.* A failed question for `part_log` (`queries.go:217`) is taken for a
  server without one, and one for the indices (`queries.go:133`) for a table without any (finding 1).

## 7. Not modelled

* Of the page's drawing: colours, the legend, the summary, the table view, number formats, and where on
  the screen a tooltip stands. They change no state that another part reads.
* A table that is dropped and created again under its name with another partition key while its
  entries are in the minmax cache: the key of `MinMaxCache` is one constant set of columns, and what
  changes there is the indices. (`Endpoints` does let the key change.)
* `TestApplySettings`, and the call of `Select` with 150 parts in `TestMaxPartsToMergeAtOnce`: the first
  is about the settings (`SelectorSettings` models `Apply`), the second is too long for the run.
* The quoting of literals and the conversion of numbers in JSON (`client.go` from line 98), and the
  texts of the SQL queries beyond the rows they select.
* The embedded files, the markup, the demo's configuration and its seeding script: nothing in them
  keeps state of the service.
* The browser's layout, `net/http` and ClickHouse, beyond the actions marked external.
