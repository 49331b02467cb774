--------------------------------- MODULE MCStore ---------------------------------
(***************************************************************************)
(* What the service asks ClickHouse for, in one run of three models that   *)
(* have nothing to do with each other: in a behaviour only one of them     *)
(* moves, and the others have come to an end before.  They are             *)
(* SelectorSettings, Endpoints and PartLog.                                *)
(***************************************************************************)
EXTENDS SelectorSettings

-----------------------------------------------------------------------------
(***************************************************************************)
(* SelectorSettings.  In some tables each setting alone, and those that    *)
(* Apply reads together, are on the server, in the clause, in both or in   *)
(* neither.  In the others the clause has other settings, with values that *)
(* are printed in quotes and look like a clause.                           *)
(***************************************************************************)
\* What ClickHouse can hold, and what may be written in a clause.
Held(n) ==
  CASE n \in Bools       -> {"0", "1"}
    [] n = "base"        -> {"7", "2.5"}
    [] n = "algorithm"   -> {"Simple", "StochasticSimple", "Trivial"}
    [] OTHER             -> {"0", "7", "big"}
Writable(n) ==
  CASE n \in Bools       -> {"0", "1", "true", "false"}
    [] n = "algorithm"   -> Held(n)
    [] OTHER             -> Held(n) \cup {"1k"}

\* A server as it comes.
Plain(n)    == CASE n \in Bools -> "0" [] n = "algorithm" -> "Simple" [] OTHER -> "7"
PlainServer == [n \in Names |-> Plain(n)]

MCWord == (Names \cup UNION {Writable(n) : n \in Names} \cup {"a", "b", "SETTINGS"}) \ {"2.5"}

Valuations(names, Texts(_)) ==
  {f \in [names -> UNION {Texts(n) : n \in names}] : \A n \in names : f[n] \in Texts(n)}

Varied ==
  {{n} : n \in Names}
    \cup {{"partition_only", "min_age"}, {"lower_max_parts", "base"}, {"algorithm", "max_bytes"}}

\* The algorithm is printed in quotes, as every setting is that is no number.
Printed(f) ==
  {[i \in DOMAIN names |-> Setting(<<names[i]>>, <<f[names[i]]>>, names[i] = "algorithm")]
     : names \in SetToSeqs(DOMAIN f)}

VariedTables ==
  UNION {UNION {[definition : {<<"b">>},
                 clause : UNION {Printed(f) : f \in Valuations(own, Writable)},
                 server : {[n \in Names \ absent |-> IF n \in varied THEN held[n] ELSE Plain(n)]
                             : held \in Valuations(varied, Held)}]
                : absent \in SUBSET varied, own \in SUBSET varied}
         : varied \in Varied}

Others ==
  {Setting(n, v, FALSE) : n \in {<<"a">>, <<"a", "b">>}, v \in {<<"b">>, <<"-", "b">>}}
    \cup {Setting(n, v, TRUE) : n \in {<<"a">>, <<"a", "b">>},
                                v \in BoundedSeq({"a", " ", ",", "="}, 3)}

\* A definition that ends where the clause begins, and one with a clause of its own inside.
OtherTables ==
  [definition : {<<"b">>, <<"a">> \o Keyword \o <<"b", "=", "b">>},
   clause : {<<s>> : s \in Others} \cup {p \in Others \X Others : p[1].name # p[2].name},
   server : {PlainServer}]

MCGiven == VariedTables \cup OtherTables

SettingsEnded ==
  /\ clause = <<>> /\ engine = <<>> /\ pos = 1 /\ out = <<>> /\ server = PlainServer
  /\ pc = "ended" /\ resp = [texts |-> <<>>, warning |-> FALSE]
  /\ settings = Defaults /\ maxBytes = "150G" /\ note = ""

-----------------------------------------------------------------------------
(***************************************************************************)
(* Endpoints.                                                              *)
(***************************************************************************)
CONSTANTS Columns, Expression, Hosts, MaxIndices, MaxChanges
VARIABLES table, replicas, past, request, cluster, step, known, columns, failed, reply

requestVars == <<table, replicas, past, request, cluster, step, known, columns, failed, reply>>

Request == INSTANCE Endpoints WITH pc <- step

ASSUME RequestAssumption ==
  /\ Hosts \subseteq Nat \ {0} /\ MaxIndices \in Nat
  /\ IsFiniteSet(Columns) /\ Expression \notin Columns

RequestEnded ==
  /\ table = Request!NoTable /\ replicas = {} /\ past = {} /\ cluster = FALSE
  /\ request = [path |-> "healthz", named |-> FALSE, host |-> Request!NoHost]
  /\ step = "done" /\ known = {} /\ columns = <<>> /\ failed = FALSE
  /\ reply = [status |-> 0, host |-> Request!NoHost, columns |-> <<>>]

-----------------------------------------------------------------------------
(***************************************************************************)
(* PartLog.                                                                *)
(***************************************************************************)
CONSTANTS PartNames, LogHosts, Here, Days, MaxSteps
VARIABLES active, log, unwritten, changes, host, logStep, hasLog, back, parts, partLog, created,
          stayed, old

logVars == <<active, log, unwritten, changes, host, logStep, hasLog, back, parts, partLog, created,
             stayed, old>>

Log == INSTANCE PartLog WITH pc <- logStep, Hosts <- LogHosts

ASSUME LogAssumption == Days \in Nat \ {0} /\ Here \in LogHosts

LogEnded ==
  /\ active = [h \in LogHosts |-> [p \in PartNames |-> 0]] /\ log = {} /\ unwritten = {}
  /\ changes = 0 /\ host = Here /\ logStep = "done" /\ hasLog = FALSE
  /\ back = {"parts"} /\ parts = {} /\ partLog = {} /\ created = {} /\ stayed = {} /\ old = {}

-----------------------------------------------------------------------------
StoreInit ==
  \/ Init /\ RequestEnded /\ LogEnded
  \/ SettingsEnded /\ Request!Init /\ LogEnded
  \/ SettingsEnded /\ RequestEnded /\ Log!Init

StoreNext ==
  \/ Next /\ UNCHANGED <<requestVars, logVars>>
  \/ Request!Next /\ UNCHANGED <<vars, logVars>>
  \/ Log!Next /\ UNCHANGED <<vars, requestVars>>

StoreSpec == StoreInit /\ [][StoreNext]_<<vars, requestVars, logVars>>

\* The kinds of values of each of the three.
StoreTypeOK == (pc # "ended" => TypeOK) /\ Request!TypeOK /\ Log!TypeOK

\* The columns of an answer are the table's, of one moment at least; see Endpoints.
ColumnsTell == Request!DescribesTable /\ Request!ColumnsOfOneMoment

\* The host of an answer is a replica, and its status says what went wrong; see Endpoints.
ReplyTells == Request!OneHost /\ Request!StatusTells

\* A part is shown with its own creation, the last one, and with one if there is one in the
\* log of the host that was asked; see PartLog.
CreationsTell == Log!CreatedByItsOwn /\ Log!EachHasItsEventHere

\* Columns and parts are interchangeable; hosts and tokens are not.
Alike == Permutations(Columns) \cup Permutations(PartNames)
=============================================================================
