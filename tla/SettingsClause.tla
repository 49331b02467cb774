----------------------------- MODULE SettingsClause -----------------------------
(***************************************************************************)
(* ParseSettingsClause (queries.go): the settings at the end of an         *)
(* engine_full, read with one regular expression, match by match.  A text  *)
(* is a sequence of words and other characters.                            *)
(***************************************************************************)
EXTENDS Naturals, Sequences, SequencesExt

CONSTANT Word  \* the words that texts are made of; two beside each other are one word

VARIABLES
  clause,  \* the settings of the table, in the order they are printed
  engine,  \* engine_full
  pos,     \* where FindAllStringSubmatch has got to
  out

parseVars == <<clause, engine, pos, out>>

ASSUME WordAssumption == Word \cap {"2.5", "-", "=", "'", " ", ",", "end"} = {}

Outside == Word \cup {"2.5", "-", "=", "'"}  \* [^,\s]
Keyword == <<" ", "SETTINGS", " ">>

-----------------------------------------------------------------------------
(***************************************************************************)
(* How ClickHouse prints a clause.                                         *)
(***************************************************************************)
Setting(name, value, quoted) == [name |-> name, value |-> value, quoted |-> quoted]

TextOf(s) == s.name \o <<" ", "=", " ">>
              \o IF s.quoted THEN <<"'">> \o s.value \o <<"'">> ELSE s.value

\* Between the settings there are commas.
Mark(n) == IF n = 1 THEN Keyword ELSE <<",", " ">>

ClauseText(c) ==
  LET text[n \in 0 .. Len(c)] ==
        IF n = 0 THEN <<>> ELSE text[n - 1] \o Mark(n) \o TextOf(c[n])
  IN text[Len(c)]

\* A value has no quotes in it, and neither spaces nor commas where it is printed without;
\* and nothing in a clause is the word that begins one.
Printable(s) ==
  LET Plain == Outside \ {"'", "SETTINGS"}
  IN /\ s.name \in Seq(Word \ {"SETTINGS"}) \ {<<>>}
     /\ \/ s.quoted = TRUE /\ s.value \in Seq(Plain \cup {" ", ","})
        \/ s.quoted = FALSE /\ s.value \in Seq(Plain) \ {<<>>}

\* A clause names a setting once, and a definition without one has no such word in it.
Clauses(c, definition) ==
  /\ \A i \in DOMAIN c : Printable(c[i])
  /\ \A i, j \in DOMAIN c : c[i].name = c[j].name => i = j
  /\ definition \in Seq(Outside \cup {" ", ","})
  /\ c = <<>> => \A i \in DOMAIN definition : definition[i] # "SETTINGS"

-----------------------------------------------------------------------------
(***************************************************************************)
(* (\w+)\s*=\s*('(?:[^'\\]|\\.)*'|[^,\s]+), where no value has a backslash.*)
(***************************************************************************)
At(i)   == IF i \in DOMAIN engine THEN engine[i] ELSE "end"
Least(S) == CHOOSE i \in S : \A j \in S : i <= j

\* Where the characters of S that begin at i end.
EndOf(i, S) == Least({j \in i .. Len(engine) + 1 : At(j) \notin S})

Sign(i)    == EndOf(EndOf(i, Word), {" "})
ValueAt(i) == EndOf(Sign(i) + 1, {" "})

\* Mistake: a value ends at the next comma or space, in quotes or not.
UnquotedEnd(i) == EndOf(i, Outside)
ValueEnd(i) ==
  LET closing == {j \in i + 1 .. Len(engine) : engine[j] = "'"}
  IN IF At(i) = "'" /\ closing # {} THEN Least(closing) + 1 ELSE EndOf(i, Outside)

Matches(i) ==
  At(i) \in Word /\ At(Sign(i)) = "=" /\ ValueEnd(ValueAt(i)) > ValueAt(i)

\* strings.Trim(s, "'")
Trim(s) ==
  LET kept == {i \in DOMAIN s : s[i] # "'"}
  IN IF kept = {} THEN <<>>
     ELSE SubSeq(s, Least(kept), CHOOSE i \in kept : \A j \in kept : j <= i)

\* The engine after the last " SETTINGS ", if there is one.
Start(t) ==
  LET found == {i \in 1 .. Len(t) - 2 : SubSeq(t, i, i + 2) = Keyword}
  IN IF found = {} THEN Len(t) + 1 ELSE 3 + CHOOSE i \in found : \A j \in found : j <= i

-----------------------------------------------------------------------------
\* The clause c after the definition d.
ParseInit(d, c) ==
  /\ clause = c /\ engine = d \o ClauseText(c)
  /\ pos = Start(engine)
  /\ out = <<>>

Match ==
  /\ pos <= Len(engine) /\ Matches(pos)
  /\ LET name  == SubSeq(engine, pos, EndOf(pos, Word) - 1)
         from  == ValueAt(pos)
         value == Trim(SubSeq(engine, from, ValueEnd(from) - 1))
     IN /\ out' = [n \in DOMAIN out \cup {name} |-> IF n = name THEN value ELSE out[n]]
        /\ pos' = ValueEnd(from)
  /\ UNCHANGED <<clause, engine>>

Skip ==
  /\ pos <= Len(engine) /\ ~Matches(pos)
  /\ pos' = pos + 1
  /\ UNCHANGED <<clause, engine, out>>

Parsed == pos > Len(engine)

-----------------------------------------------------------------------------
\* The kinds of values; no value that was read has a quote at its end.
ParseTypeOK ==
  /\ pos \in 1 .. Len(engine) + 1
  /\ DOMAIN out \subseteq Seq(Word)
  /\ \A n \in DOMAIN out : out[n] \in Seq(Outside \cup {" ", ","}) /\ ~Contains(out[n], "'")

Listed(n) == {clause[i].name : i \in 1 .. n}

\* The settings are read one by one, each with the value it was printed with, also when
\* the value has commas, spaces or equals signs in it, or when the definition before the
\* clause looks like one; and at the end nothing is left out and nothing made up.
ReadsBack ==
  /\ \E n \in 0 .. Len(clause) :
       /\ DOMAIN out = Listed(n)
       /\ \A i \in 1 .. n : out[clause[i].name] = clause[i].value
  /\ Parsed => DOMAIN out = Listed(Len(clause))
=============================================================================
