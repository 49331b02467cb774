---------------------------- MODULE SelectorSettings ----------------------------
(***************************************************************************)
(* The settings the candidates of one response are computed with: the      *)
(* table's own clause as it was read with the table, the query of the      *)
(* server's (queries.go, MergeTreeSettings), and what the selector makes   *)
(* of the texts (settings.go, Apply; handlers.go, candidates).             *)
(*                                                                         *)
(* A setting is known here without its common prefix, a number by its      *)
(* text, where "big" is 2^64 - 1 and "1k" any spelling that ClickHouse     *)
(* reads and Go does not.                                                  *)
(***************************************************************************)
EXTENDS SettingsClause

CONSTANT Given  \* what comes before a clause, the clause, and the settings of the server

Ints    == {"window_size", "max_parts", "min_parts", "parts_to_throw", "lower_exponent",
            "min_age", "min_partition_age"}
Bools   == {"remove_small", "lower_max_parts", "partition_only"}
Names   == Ints \cup Bools \cup {"base", "max_bytes", "algorithm"}  \* SettingNames
Applied == Names \ {"partition_only", "max_bytes", "algorithm"}

\* ClickHouse takes no text for a switch but these.
Switch == {"0", "1", "true", "false"}

ASSUME GivenAssumption ==
  \A t \in Given :
    /\ t.clause \in Seq([name : Seq(Word), value : Seq(Outside \cup {" ", ","}), quoted : BOOLEAN])
    /\ Clauses(t.clause, t.definition)
    /\ DOMAIN t.server \subseteq Names
    /\ \A n \in Bools :
         /\ n \in DOMAIN t.server => t.server[n] \in Switch
         /\ \A s \in ToSet(t.clause) : s.name = <<n>> => s.value \in {<<v>> : v \in Switch}

VARIABLES
  server,    \* system.merge_tree_settings, for the names it has
  pc,
  resp,      \* resp.Settings and the warning; a nil map is an empty one
  settings,  \* the fields of selector.Settings that Apply sets
  maxBytes, note

vars == <<parseVars, server, pc, resp, settings, maxBytes, note>>

TextIn(value) == IF Len(value) = 1 THEN value[1] ELSE "no word"

-----------------------------------------------------------------------------
(***************************************************************************)
(* The handler.                                                            *)
(***************************************************************************)
Has(texts, n) == n \in DOMAIN texts

\* info.Settings, as far as it is asked for.
Own == [n \in {n \in Names : <<n>> \in DOMAIN out} |-> TextIn(out[<<n>>])]

\* Mistake: the server's value wins.
ServerFirst == [n \in Names \cap (DOMAIN server \cup DOMAIN Own) |->
                  IF Has(server, n) THEN server[n] ELSE Own[n]]
Merged      == [n \in Names \cap (DOMAIN server \cup DOMAIN Own) |->
                  IF Has(Own, n) THEN Own[n] ELSE server[n]]

Query ==
  /\ pc = "query" /\ Parsed
  /\ resp' \in {[texts |-> Merged, warning |-> FALSE], [texts |-> <<>>, warning |-> TRUE]}
  /\ pc' = "apply"
  /\ UNCHANGED <<parseVars, server, settings, maxBytes, note>>

\* DefaultSettings, as far as Apply can change it.
Defaults ==
  [n \in Applied |->
     CASE n = "max_parts"      -> "100"  [] n = "min_parts"   -> "0"
       [] n = "parts_to_throw" -> "3000" [] n = "window_size" -> "1000"
       [] n = "base"           -> "5"    [] n = "lower_exponent" -> "5"
       [] n \in Bools          -> "1"    [] OTHER -> "0"]

\* The value of a text, if strconv (parseBool) finds one.
Value(n, text) ==
  CASE n \in Bools -> IF text \in {"1", "true"} THEN {"1"}
                      ELSE IF text \in {"0", "false"} THEN {"0"} ELSE {}
    [] n = "base"  -> {text} \cap {"7", "2.5"}
    [] n \in Ints  -> {text} \cap {"0", "7"}
    [] OTHER       -> {text} \cap {"0", "7", "big"}

ValueIn(texts, n) == IF Has(texts, n) THEN Value(n, texts[n]) ELSE {}

\* Servers without this setting also do not have the heuristic.
Before(n, texts) ==
  IF n = "lower_max_parts" /\ ~Has(texts, n) THEN "0" ELSE Defaults[n]
Ignored(n, texts) == n = "min_age" /\ ValueIn(texts, "partition_only") = {"1"}

Apply ==
  /\ pc = "apply"
  /\ settings' = [n \in Applied |->
       IF ValueIn(resp.texts, n) = {} \/ Ignored(n, resp.texts)
       THEN Before(n, resp.texts)
       ELSE CHOOSE v \in ValueIn(resp.texts, n) : TRUE]
  /\ pc' = "limit"
  /\ UNCHANGED <<parseVars, server, resp, maxBytes, note>>

NoteFree == {"", "Simple"}

\* The size limit, 150 GiB unless there is one that allows a merge, and selector_note.
Finish ==
  /\ pc = "limit"
  /\ LET limit == ValueIn(resp.texts, "max_bytes") \ {"0"}
         algo  == IF Has(resp.texts, "algorithm") THEN resp.texts["algorithm"] ELSE ""
     IN /\ maxBytes' = IF limit = {} THEN "150G" ELSE CHOOSE v \in limit : TRUE
        /\ note' = IF algo \in NoteFree THEN "" ELSE algo
  /\ pc' = "done"
  /\ UNCHANGED <<parseVars, server, resp, settings>>

-----------------------------------------------------------------------------
Init ==
  /\ \E t \in Given : ParseInit(t.definition, t.clause) /\ server = t.server
  /\ pc = "query"
  /\ resp = [texts |-> <<>>, warning |-> FALSE]
  /\ settings = Defaults /\ maxBytes = "150G" /\ note = ""

later == <<server, pc, resp, settings, maxBytes, note>>

Next ==
  \/ Match /\ UNCHANGED later
  \/ Skip /\ UNCHANGED later
  \/ Query \/ Apply \/ Finish

Spec == Init /\ [][Next]_vars

-----------------------------------------------------------------------------
\* The kinds of values: Select gets numbers it can use, and a size that allows a merge.
TypeOK ==
  /\ ParseTypeOK
  /\ pc \in {"query", "apply", "limit", "done"} /\ resp.warning \in BOOLEAN
  /\ DOMAIN resp.texts \subseteq Names
  /\ \A n \in Applied :
       settings[n] \in CASE n \in Bools -> {"0", "1"}
                         [] n = "base"  -> {"5", "7", "2.5"}
                         [] OTHER       -> {"0", "5", "7", "100", "1000", "3000"}
  /\ maxBytes \in {"7", "big", "150G"}

Done          == pc = "done"
Written(n)    == {TextIn(s.value) : s \in {s \in ToSet(clause) : s.name = <<n>>}}
Configured(n) == IF Written(n) # {} THEN Written(n)
                 ELSE IF Has(server, n) THEN {server[n]} ELSE {}

\* The candidates are computed with what the table is configured with: each setting has
\* the value of the table's clause, or else of the server, if Go can read it, and the
\* selector's own otherwise; except that no part is merged for its age alone where age
\* counts for whole partitions only, and that nothing is lowered on a server that does
\* not know how.
Effective ==
  LET OnlyPartitions == Configured("partition_only") \cap {"1", "true"} # {}
      Read(n) == UNION {Value(n, t) : t \in Configured(n)}
  IN /\ \A n \in Applied :
          \/ n = "min_age" /\ OnlyPartitions /\ settings[n] = "0"
          \/ ~(n = "min_age" /\ OnlyPartitions) /\ settings[n] \in Read(n)
          \/ Read(n) = {} /\ n = "lower_max_parts" /\ settings[n] = "0"
          \/ Read(n) = {} /\ n # "lower_max_parts" /\ settings[n] = Defaults[n]
     /\ Read("max_bytes") \cap {"7", "big"} # {} => maxBytes \in Read("max_bytes")
     /\ Configured("algorithm") \cap {"StochasticSimple", "Trivial"} # {} => note # ""

\* Unless the reply warns that the settings are not known, they are those of the table.
EffectiveOrWarned == Done /\ ~resp.warning => Effective

=============================================================================
