----------------------------- MODULE ServiceProofs -----------------------------
(***************************************************************************)
(* Proofs about the process of the service and one question to ClickHouse, *)
(* for any number of requests, rows and lines ahead.                       *)
(*                                                                         *)
(* What Query returns rests on what is on the wire (ClientInv): the rows   *)
(* that were sent and not read, in their order, with none missing before   *)
(* another.  The exit status rests on when a request can run and who can   *)
(* close the server (ProcessInv).                                          *)
(***************************************************************************)
EXTENDS Service, TLAPS

-----------------------------------------------------------------------------
(***************************************************************************)
(* The lines between ClickHouse and the client.  w is what is on the wire, *)
(* o the number of rows read, s that of the rows sent.                     *)
(***************************************************************************)
Lines    == [kind : {"row", "long", "blank", "text"}, row : Nat]
IsRow(l) == l.kind \in {"row", "long"}

\* A row on the wire is new, comes after those before it, and none before it is missing.
Placed(w, o, s, k) ==
  /\ w[k].row \in o + 1 .. s
  /\ \A n \in o + 1 .. w[k].row : \E j \in 1 .. k : IsRow(w[j]) /\ w[j].row = n
  /\ \A j \in 1 .. k - 1 : IsRow(w[j]) => w[j].row < w[k].row

InSequence(w, o, s) == \A k \in 1 .. Len(w) : IsRow(w[k]) => Placed(w, o, s, k)

\* Every row that was sent and not read is on the wire.
Complete(w, o, s) ==
  \A n \in o + 1 .. s : \E k \in 1 .. Len(w) : IsRow(w[k]) /\ w[k].row = n

\* The place of a row depends on the lines up to it.
LEMMA SamePlace ==
  ASSUME NEW w, NEW v, NEW o \in Nat, NEW s \in Nat, NEW t \in Nat, s <= t, NEW k \in Nat,
         k >= 1, \A j \in 1 .. k : v[j] = w[j], Placed(w, o, s, k)
  PROVE  Placed(v, o, t, k)
<1>1. v[k] = w[k] /\ w[k].row \in o + 1 .. s
  BY DEF Placed
<1>2. ASSUME NEW n \in o + 1 .. v[k].row PROVE \E j \in 1 .. k : IsRow(v[j]) /\ v[j].row = n
  <2>1. PICK j \in 1 .. k : IsRow(w[j]) /\ w[j].row = n
    BY <1>1, <1>2 DEF Placed
  <2>2. QED
    BY <2>1
<1>3. ASSUME NEW j \in 1 .. k - 1, IsRow(v[j]) PROVE v[j].row < v[k].row
  <2>1. v[j] = w[j]
    OBVIOUS
  <2>2. QED
    BY <1>1, <1>3, <2>1 DEF Placed
<1>4. QED
  BY <1>1, <1>2, <1>3 DEF Placed

\* A row is sent.
LEMMA AppendRow ==
  ASSUME NEW w \in Seq(Lines), NEW o \in Nat, NEW s \in Nat, o <= s, NEW l \in Lines,
         IsRow(l), l.row = s + 1, InSequence(w, o, s), Complete(w, o, s)
  PROVE  InSequence(Append(w, l), o, s + 1) /\ Complete(Append(w, l), o, s + 1)
<1> DEFINE v == Append(w, l)
<1>1. /\ v \in Seq(Lines) /\ Len(v) = Len(w) + 1 /\ Len(w) \in Nat /\ v[Len(w) + 1] = l
      /\ \A k \in 1 .. Len(w) : v[k] = w[k]
  OBVIOUS
<1> HIDE DEF v
<1>2. ASSUME NEW n \in o + 1 .. s + 1
      PROVE  \E k \in 1 .. Len(v) : IsRow(v[k]) /\ v[k].row = n
  <2>1. CASE n = s + 1
    BY <1>1, <2>1
  <2>2. CASE n # s + 1
    <3>1. PICK k \in 1 .. Len(w) : IsRow(w[k]) /\ w[k].row = n
      BY <2>2 DEF Complete
    <3>2. QED
      BY <3>1, <1>1
  <2>3. QED
    BY <2>1, <2>2
<1>3. ASSUME NEW k \in 1 .. Len(v), IsRow(v[k]) PROVE Placed(v, o, s + 1, k)
  <2>1. CASE k = Len(v)
    <3>1. v[k].row = s + 1
      BY <1>1, <2>1
    <3>2. ASSUME NEW j \in 1 .. k - 1, IsRow(v[j]) PROVE v[j].row < v[k].row
      <4>1. j \in 1 .. Len(w) /\ v[j] = w[j]
        BY <1>1, <2>1
      <4>2. w[j].row \in o + 1 .. s
        BY <3>2, <4>1 DEF InSequence, Placed
      <4>3. QED
        BY <3>1, <4>1, <4>2
    <3>3. QED
      BY <1>2, <1>1, <2>1, <3>1, <3>2 DEF Placed
  <2>2. CASE k # Len(v)
    <3>1. k \in 1 .. Len(w) /\ \A j \in 1 .. k : v[j] = w[j]
      BY <1>1, <2>2
    <3>2. Placed(w, o, s, k)
      BY <3>1, <1>3 DEF InSequence
    <3>3. QED
      BY <3>1, <3>2, SamePlace
  <2>3. QED
    BY <2>1, <2>2
<1>4. QED
  BY <1>2, <1>3 DEF InSequence, Complete, v

\* Another line is.
LEMMA AppendOther ==
  ASSUME NEW w \in Seq(Lines), NEW o \in Nat, NEW s \in Nat, NEW l \in Lines,
         ~IsRow(l), InSequence(w, o, s)
  PROVE  /\ InSequence(Append(w, l), o, s)
         /\ Complete(w, o, s) => Complete(Append(w, l), o, s)
<1> DEFINE v == Append(w, l)
<1>1. /\ v \in Seq(Lines) /\ Len(v) = Len(w) + 1 /\ Len(w) \in Nat /\ v[Len(w) + 1] = l
      /\ \A k \in 1 .. Len(w) : v[k] = w[k]
  OBVIOUS
<1> HIDE DEF v
<1>2. ASSUME NEW k \in 1 .. Len(v), IsRow(v[k]) PROVE Placed(v, o, s, k)
  <2>1. k \in 1 .. Len(w) /\ \A j \in 1 .. k : v[j] = w[j]
    BY <1>1, <1>2
  <2>2. Placed(w, o, s, k)
    BY <2>1, <1>2 DEF InSequence
  <2>3. QED
    BY <2>1, <2>2, SamePlace
<1>3. Complete(w, o, s) => Complete(v, o, s)
  <2>1. ASSUME Complete(w, o, s), NEW n \in o + 1 .. s
        PROVE  \E k \in 1 .. Len(v) : IsRow(v[k]) /\ v[k].row = n
    <3>1. PICK k \in 1 .. Len(w) : IsRow(w[k]) /\ w[k].row = n
      BY <2>1 DEF Complete
    <3>2. QED
      BY <3>1, <1>1
  <2>2. QED
    BY <2>1 DEF Complete
<1>4. QED
  BY <1>2, <1>3 DEF InSequence, v

\* The end is lost.
LEMMA Shortened ==
  ASSUME NEW w \in Seq(Lines), NEW o \in Nat, NEW s \in Nat, NEW n \in 0 .. Len(w),
         InSequence(w, o, s)
  PROVE  /\ SubSeq(w, 1, n) \in Seq(Lines) /\ Len(SubSeq(w, 1, n)) = n
         /\ InSequence(SubSeq(w, 1, n), o, s)
<1> DEFINE v == SubSeq(w, 1, n)
<1>1. /\ v \in Seq(Lines) /\ Len(v) = n /\ Len(w) \in Nat
      /\ \A k \in 1 .. n : k \in 1 .. Len(w) /\ v[k] = w[k]
  OBVIOUS
<1> HIDE DEF v
<1>2. ASSUME NEW k \in 1 .. Len(v), IsRow(v[k]) PROVE Placed(v, o, s, k)
  <2>1. k \in 1 .. Len(w) /\ \A j \in 1 .. k : v[j] = w[j]
    BY <1>1
  <2>2. Placed(w, o, s, k)
    BY <2>1, <1>2 DEF InSequence
  <2>3. QED
    BY <2>1, <2>2, SamePlace
<1>3. QED
  BY <1>1, <1>2 DEF InSequence, v

\* What Tail does.
LEMMA TailFacts ==
  ASSUME NEW w \in Seq(Lines), w # <<>>
  PROVE  /\ Tail(w) \in Seq(Lines) /\ Len(w) = Len(Tail(w)) + 1 /\ Len(Tail(w)) \in Nat
         /\ Head(w) = w[1] /\ 1 \in 1 .. Len(w)
         /\ \A k \in 1 .. Len(Tail(w)) : k + 1 \in 2 .. Len(w) /\ Tail(w)[k] = w[k + 1]
         /\ \A k \in 2 .. Len(w) : k - 1 \in 1 .. Len(Tail(w)) /\ Tail(w)[k - 1] = w[k]
         /\ \A k \in 1 .. Len(w) : w[k] \in Lines
<1>1. Len(w) \in Nat /\ Len(w) # 0
  OBVIOUS
<1>2. /\ Tail(w) \in Seq(Lines) /\ Len(Tail(w)) = Len(w) - 1 /\ Head(w) = w[1]
      /\ \A k \in 1 .. Len(w) : w[k] \in Lines
  OBVIOUS
<1>3. \A k \in 1 .. Len(w) - 1 : Tail(w)[k] = w[k + 1]
  OBVIOUS
<1>4. QED
  BY <1>1, <1>2, <1>3

\* A line that is no row is read.
LEMMA ReadOther ==
  ASSUME NEW w \in Seq(Lines), w # <<>>, NEW o \in Nat, NEW s \in Nat,
         ~IsRow(Head(w)), InSequence(w, o, s)
  PROVE  /\ InSequence(Tail(w), o, s)
         /\ Complete(w, o, s) => Complete(Tail(w), o, s)
<1> DEFINE v == Tail(w)
<1>1. /\ v \in Seq(Lines) /\ Len(w) = Len(v) + 1 /\ Len(v) \in Nat /\ ~IsRow(w[1])
      /\ \A k \in 1 .. Len(v) : k + 1 \in 2 .. Len(w) /\ v[k] = w[k + 1]
      /\ \A k \in 2 .. Len(w) : k - 1 \in 1 .. Len(v) /\ v[k - 1] = w[k]
  BY TailFacts
<1> HIDE DEF v
<1>2. ASSUME NEW k \in 1 .. Len(v), IsRow(v[k]) PROVE Placed(v, o, s, k)
  <2>1. k + 1 \in 2 .. Len(w) /\ v[k] = w[k + 1] /\ Placed(w, o, s, k + 1)
    BY <1>1, <1>2 DEF InSequence
  <2>2. ASSUME NEW n \in o + 1 .. v[k].row PROVE \E j \in 1 .. k : IsRow(v[j]) /\ v[j].row = n
    <3>1. PICK j \in 1 .. k + 1 : IsRow(w[j]) /\ w[j].row = n
      BY <2>1 DEF Placed
    <3>2. j # 1
      BY <1>1, <3>1
    <3>3. j \in 2 .. Len(w) /\ j - 1 \in 1 .. k
      BY <1>1, <3>1, <3>2
    <3>4. QED
      BY <1>1, <3>1, <3>3
  <2>3. ASSUME NEW j \in 1 .. k - 1, IsRow(v[j]) PROVE v[j].row < v[k].row
    <3>1. v[j] = w[j + 1] /\ j + 1 \in 1 .. (k + 1) - 1
      BY <1>1
    <3>2. QED
      BY <2>1, <2>3, <3>1 DEF Placed
  <2>4. QED
    BY <2>1, <2>2, <2>3 DEF Placed
<1>3. ASSUME Complete(w, o, s), NEW n \in o + 1 .. s
      PROVE  \E k \in 1 .. Len(v) : IsRow(v[k]) /\ v[k].row = n
  <2>1. PICK k \in 1 .. Len(w) : IsRow(w[k]) /\ w[k].row = n
    BY <1>3 DEF Complete
  <2>2. k # 1
    BY <1>1, <2>1
  <2>3. k \in 2 .. Len(w)
    BY <1>1, <2>1, <2>2
  <2>4. QED
    BY <1>1, <2>1, <2>3
<1>4. QED
  BY <1>2, <1>3 DEF InSequence, Complete, v

\* A row is read: it is the next one.
LEMMA ReadRow ==
  ASSUME NEW w \in Seq(Lines), w # <<>>, NEW o \in Nat, NEW s \in Nat,
         IsRow(Head(w)), InSequence(w, o, s)
  PROVE  /\ Head(w).row = o + 1 /\ o + 1 <= s
         /\ InSequence(Tail(w), o + 1, s)
         /\ Complete(w, o, s) => Complete(Tail(w), o + 1, s)
<1> DEFINE v == Tail(w)
<1>1. /\ v \in Seq(Lines) /\ Len(w) = Len(v) + 1 /\ Len(v) \in Nat /\ Head(w) = w[1]
      /\ \A k \in 1 .. Len(v) : k + 1 \in 2 .. Len(w) /\ v[k] = w[k + 1]
      /\ \A k \in 2 .. Len(w) : k - 1 \in 1 .. Len(v) /\ v[k - 1] = w[k]
  BY TailFacts
<1> HIDE DEF v
<1>2. Placed(w, o, s, 1)
  BY <1>1 DEF InSequence
<1>3. w[1].row = o + 1 /\ o + 1 <= s
  <2>1. o + 1 \in o + 1 .. w[1].row /\ w[1].row \in o + 1 .. s
    BY <1>2 DEF Placed
  <2>2. PICK j \in 1 .. 1 : IsRow(w[j]) /\ w[j].row = o + 1
    BY <1>2, <2>1 DEF Placed
  <2>3. QED
    BY <2>1, <2>2
<1>4. ASSUME NEW k \in 1 .. Len(v), IsRow(v[k]) PROVE Placed(v, o + 1, s, k)
  <2>1. v[k] = w[k + 1] /\ k + 1 \in 2 .. Len(w) /\ Placed(w, o, s, k + 1)
    BY <1>1, <1>4 DEF InSequence
  <2>2. w[1].row < w[k + 1].row
    BY <1>1, <2>1 DEF Placed
  <2>3. v[k].row \in (o + 1) + 1 .. s
    BY <1>3, <2>1, <2>2 DEF Placed
  <2>4. ASSUME NEW n \in (o + 1) + 1 .. v[k].row
        PROVE  \E j \in 1 .. k : IsRow(v[j]) /\ v[j].row = n
    <3>1. PICK j \in 1 .. k + 1 : IsRow(w[j]) /\ w[j].row = n
      BY <2>1, <2>3 DEF Placed
    <3>2. j # 1
      BY <1>3, <3>1
    <3>3. j \in 2 .. Len(w) /\ j - 1 \in 1 .. k
      BY <1>1, <2>1, <3>1, <3>2
    <3>4. QED
      BY <1>1, <3>1, <3>3
  <2>5. ASSUME NEW j \in 1 .. k - 1, IsRow(v[j]) PROVE v[j].row < v[k].row
    <3>1. v[j] = w[j + 1] /\ j + 1 \in 1 .. (k + 1) - 1
      BY <1>1
    <3>2. QED
      BY <2>1, <2>5, <3>1 DEF Placed
  <2>6. QED
    BY <2>3, <2>4, <2>5 DEF Placed
<1>5. ASSUME Complete(w, o, s), NEW n \in (o + 1) + 1 .. s
      PROVE  \E k \in 1 .. Len(v) : IsRow(v[k]) /\ v[k].row = n
  <2>1. PICK k \in 1 .. Len(w) : IsRow(w[k]) /\ w[k].row = n
    BY <1>5 DEF Complete
  <2>2. k # 1
    BY <1>3, <2>1
  <2>3. k \in 2 .. Len(w)
    BY <1>1, <2>1, <2>2
  <2>4. QED
    BY <1>1, <2>1, <2>3
<1>6. QED
  BY <1>1, <1>3, <1>4, <1>5 DEF InSequence, Complete, v

-----------------------------------------------------------------------------
(***************************************************************************)
(* Query and the other side: what holds between them in every state.       *)
(***************************************************************************)
ClientTypes ==
  /\ rows \in Seq(Nat) /\ \A i \in 1 .. Len(rows) : rows[i] = i
  /\ sent \in 0 .. Len(rows) /\ wire \in Seq(Lines)
  /\ stream \in {"none", "open", "closed", "broken"} /\ pc \in {"send", "scan", "done"}
  /\ out \in Seq(Nat) /\ Len(out) <= sent /\ \A i \in 1 .. Len(out) : out[i] = i
  /\ result.ok \in BOOLEAN

\* A stream that was closed is at the end of the rows, or an exception is on its way.
Ended ==
  /\ stream = "closed" /\ pc # "done" =>
       sent = Len(rows) \/ \E k \in 1 .. Len(wire) : wire[k].kind = "text"
  /\ pc = "send" => stream = "none"
  /\ pc = "scan" => stream # "none"

ClientInv ==
  /\ ClientTypes
  /\ InSequence(wire, Len(out), sent)
  /\ stream # "broken" => Complete(wire, Len(out), sent)
  /\ Ended
  /\ Len(wire) <= Ahead + 1 /\ (stream # "broken" => Len(wire) <= Ahead)

LEMMA InitClient == Query!Init => ClientInv
<1> SUFFICES ASSUME Query!Init PROVE ClientInv
  OBVIOUS
<1>1. PICK n \in 0 .. MaxRows : rows = [i \in 1 .. n |-> i]
  BY DEF Query!Init
<1>2. n \in Nat /\ rows \in Seq(Nat) /\ Len(rows) = n
  BY <1>1, ServiceAssumption
<1>3. ClientTypes
  BY <1>1, <1>2 DEF Query!Init, ClientTypes, Query!Nothing
<1>4. QED
  BY <1>3, ServiceAssumption DEF ClientInv, Query!Init, InSequence, Complete, Ended

LEMMA SendRowClient == ASSUME ClientInv, Query!SendRow PROVE ClientInv'
<1>1. PICK kind \in {"row", "long"} : Query!Sends(Query!Line(kind, sent + 1))
  BY DEF Query!SendRow
<1> DEFINE l == Query!Line(kind, sent + 1)
<1>2. l \in Lines /\ l.row = sent + 1 /\ IsRow(l)
  BY DEF ClientInv, ClientTypes, Query!Line, Lines, IsRow
<1>3. /\ wire' = Append(wire, l) /\ sent' = sent + 1 /\ sent < Len(rows) /\ stream = "open"
      /\ UNCHANGED <<rows, stream, pc, out, result>> /\ Len(wire) < Ahead
  BY <1>1 DEF Query!SendRow, Query!Sends
<1> HIDE DEF l
<1>4. InSequence(wire', Len(out), sent + 1) /\ Complete(wire', Len(out), sent + 1)
  BY <1>2, <1>3, AppendRow DEF ClientInv, ClientTypes
<1>5. ClientTypes'
  BY <1>2, <1>3 DEF ClientInv, ClientTypes
<1>6. Len(wire') <= Ahead
  BY <1>2, <1>3, ServiceAssumption DEF ClientInv, ClientTypes
<1>7. QED
  BY <1>3, <1>4, <1>5, <1>6, ServiceAssumption DEF ClientInv, Ended

\* An empty line, or the text of an exception.
LEMMA SendOtherClient ==
  ASSUME ClientInv, NEW l \in Lines, ~IsRow(l), Query!Sends(l),
         stream' \in {"open", "closed"}, stream' = "closed" => l.kind = "text",
         UNCHANGED <<rows, sent, pc, out, result>>
  PROVE  ClientInv'
<1>1. wire' = Append(wire, l) /\ stream = "open" /\ Len(wire) < Ahead
  BY DEF Query!Sends
<1>2. InSequence(wire', Len(out), sent) /\ Complete(wire', Len(out), sent)
  BY <1>1, AppendOther DEF ClientInv, ClientTypes
<1>3. ClientTypes'
  BY <1>1 DEF ClientInv, ClientTypes
<1>4. /\ Len(wire') \in Nat /\ Len(wire') <= Ahead
      /\ Len(wire') \in 1 .. Len(wire') /\ wire'[Len(wire')] = l
  BY <1>1, ServiceAssumption DEF ClientInv, ClientTypes
<1>5. Ended'
  BY <1>1, <1>4 DEF ClientInv, Ended
<1>6. QED
  BY <1>2, <1>3, <1>4, <1>5, ServiceAssumption DEF ClientInv

LEMMA BreakClient == ASSUME ClientInv, Query!Break PROVE ClientInv'
<1>1. PICK n \in 0 .. Len(wire) :
        wire' \in {SubSeq(wire, 1, n), Append(SubSeq(wire, 1, n), Query!Line("text", 0))}
  BY DEF Query!Break
<1>2. /\ UNCHANGED <<rows, sent, pc, out, result>> /\ stream' = "broken"
      /\ stream \in {"open", "closed"}
  BY DEF Query!Break
<1> DEFINE v == SubSeq(wire, 1, n)
           l == Query!Line("text", 0)
<1>3. l \in Lines /\ ~IsRow(l)
  BY DEF Query!Line, Lines, IsRow
<1>4. v \in Seq(Lines) /\ Len(v) = n /\ n \in Nat /\ InSequence(v, Len(out), sent)
  BY Shortened DEF ClientInv, ClientTypes
<1> HIDE DEF v, l
<1>5. InSequence(Append(v, l), Len(out), sent)
  BY <1>3, <1>4, AppendOther DEF ClientInv, ClientTypes
<1>6. Append(v, l) \in Seq(Lines) /\ Len(Append(v, l)) = n + 1
  BY <1>3, <1>4
<1>7. wire' \in Seq(Lines) /\ InSequence(wire', Len(out), sent) /\ Len(wire') <= n + 1
  <2>1. wire' = v \/ wire' = Append(v, l)
    BY <1>1 DEF v, l
  <2>2. CASE wire' = v
    BY <1>4, <2>2
  <2>3. CASE wire' = Append(v, l)
    BY <1>4, <1>5, <1>6, <2>3
  <2>4. QED
    BY <2>1, <2>2, <2>3
<1>8. n + 1 <= Ahead + 1 /\ Len(wire') \in Nat
  BY <1>2, <1>7, ServiceAssumption DEF ClientInv, ClientTypes
<1>9. QED
  BY <1>2, <1>7, <1>8, ServiceAssumption DEF ClientInv, ClientTypes, Ended

LEMMA ScanLineClient == ASSUME ClientInv, Query!ScanLine PROVE ClientInv'
<1> DEFINE l == Head(wire)
<1>1. /\ wire # <<>> /\ l.kind # "long" /\ pc = "scan"
      /\ wire' = Tail(wire) /\ UNCHANGED <<rows, sent, stream>>
  BY DEF Query!ScanLine
<1>2. /\ Tail(wire) \in Seq(Lines) /\ Len(wire) = Len(Tail(wire)) + 1 /\ Len(Tail(wire)) \in Nat
      /\ l = wire[1] /\ l \in Lines
      /\ \A k \in 2 .. Len(wire) : k - 1 \in 1 .. Len(Tail(wire)) /\ Tail(wire)[k - 1] = wire[k]
  BY <1>1, TailFacts DEF ClientInv, ClientTypes
<1>3. /\ Len(wire') <= Ahead + 1
      /\ stream # "broken" => Len(wire') <= Ahead
  BY <1>1, <1>2, ServiceAssumption DEF ClientInv
<1>6. ASSUME wire[1].kind # "text", NEW k \in 1 .. Len(wire), wire[k].kind = "text"
      PROVE  \E j \in 1 .. Len(wire') : wire'[j].kind = "text"
  <2>1. k \in 2 .. Len(wire)
    BY <1>2, <1>6
  <2>2. QED
    BY <1>1, <1>2, <1>6, <2>1
<1>4. CASE IsRow(l)
  <2>1. out' = Append(out, l.row) /\ UNCHANGED <<pc, result>>
    BY <1>1, <1>4 DEF Query!ScanLine, Query!Decode, IsRow
  <2>2. /\ l.row = Len(out) + 1 /\ Len(out) + 1 <= sent
        /\ InSequence(wire', Len(out) + 1, sent)
        /\ stream # "broken" => Complete(wire', Len(out) + 1, sent)
    BY <1>1, <1>4, ReadRow DEF ClientInv, ClientTypes
  <2>3. Len(out') = Len(out) + 1
    BY <2>1, <2>2 DEF ClientInv, ClientTypes
  <2>4. ClientTypes'
    BY <1>1, <1>2, <2>1, <2>2 DEF ClientInv, ClientTypes
  <2>5. wire[1].kind # "text"
    BY <1>2, <1>4 DEF IsRow
  <2>6. Ended'
    BY <1>1, <1>6, <2>1, <2>5 DEF ClientInv, Ended
  <2>7. QED
    BY <1>1, <1>3, <2>2, <2>3, <2>4, <2>6 DEF ClientInv
<1>5. CASE ~IsRow(l)
  <2>1. /\ InSequence(wire', Len(out), sent)
        /\ stream # "broken" => Complete(wire', Len(out), sent)
    BY <1>1, <1>5, ReadOther DEF ClientInv, ClientTypes
  <2>2. CASE l.kind = "blank"
    <3>1. UNCHANGED <<pc, out, result>> /\ wire[1].kind # "text"
      BY <1>1, <1>2, <2>2 DEF Query!ScanLine
    <3>2. ClientTypes'
      BY <1>1, <1>2, <3>1 DEF ClientInv, ClientTypes
    <3>3. Ended'
      BY <1>1, <1>6, <3>1 DEF ClientInv, Ended
    <3>4. QED
      BY <1>1, <1>3, <2>1, <3>1, <3>2, <3>3 DEF ClientInv
  <2>3. CASE l.kind # "blank"
    <3>1. UNCHANGED out /\ pc' = "done" /\ result'.ok = FALSE
      BY <1>1, <1>5, <2>3 DEF Query!ScanLine, Query!Decode, Query!Return, Query!Nothing, IsRow
    <3>2. ClientTypes'
      BY <1>1, <1>2, <3>1 DEF ClientInv, ClientTypes
    <3>3. QED
      BY <1>1, <1>3, <2>1, <3>1, <3>2 DEF ClientInv, Ended
  <2>4. QED
    BY <2>2, <2>3
<1>7. QED
  BY <1>4, <1>5

LEMMA ExpireClient == ASSUME ClientInv, Query!Expire PROVE ClientInv'
<1>1. CASE pc = "scan"
  BY <1>1, BreakClient DEF Query!Expire
<1>2. CASE pc # "scan"
  <2>1. pc' = "done" /\ result' = Query!Nothing /\ UNCHANGED <<rows, sent, wire, stream, out>>
    BY <1>2 DEF Query!Expire, Query!Return, Query!server
  <2>2. QED
    BY <2>1 DEF Query!Nothing, ClientInv, ClientTypes, Ended
<1>3. QED
  BY <1>1, <1>2

LEMMA StepClient == ASSUME ClientInv, Query!Next PROVE ClientInv'
<1>1. CASE Query!SendRow
  BY <1>1, SendRowClient
<1>2. CASE Query!SendBlank
  <2>1. Query!Line("blank", 0) \in Lines /\ ~IsRow(Query!Line("blank", 0))
    BY DEF Query!Line, Lines, IsRow
  <2>2. QED
    BY <1>2, <2>1, SendOtherClient DEF Query!SendBlank, Query!Sends
<1>3. CASE Query!SendException
  <2>1. /\ Query!Line("text", 0) \in Lines /\ ~IsRow(Query!Line("text", 0))
        /\ Query!Line("text", 0).kind = "text"
    BY DEF Query!Line, Lines, IsRow
  <2>2. QED
    BY <1>3, <2>1, SendOtherClient DEF Query!SendException
<1>4. CASE Query!Close
  BY <1>4 DEF Query!Close, ClientInv, ClientTypes, Ended
<1>5. CASE Query!Break
  BY <1>5, BreakClient
<1>6. CASE Query!Expire
  BY <1>6, ExpireClient
<1>7. CASE Query!Refused
  BY <1>7 DEF Query!Refused, Query!Return, Query!server, Query!Nothing, ClientInv, ClientTypes, Ended
<1>8. CASE Query!Accepted
  BY <1>8 DEF Query!Accepted, ClientInv, ClientTypes, Ended
<1>9. CASE Query!ScanLine
  BY <1>9, ScanLineClient
<1>10. CASE Query!ScanEnd
  BY <1>10 DEF Query!ScanEnd, Query!Failed, Query!Return, Query!server, ClientInv, ClientTypes, Ended
<1>11. QED
  BY <1>1, <1>2, <1>3, <1>4, <1>5, <1>6, <1>7, <1>8, <1>9, <1>10
     DEF Query!Next, Query!ClickHouse, Query!Client

\* An error with no rows, and the rows that were read, are what a caller may get.
LEMMA Outcome ==
  ASSUME ClientInv, pc # "done", pc' = "done", UNCHANGED rows,
         \/ result' = Query!Nothing
         \/ Query!ScanEnd
  PROVE  result' \in Query!Contract!Outcomes(rows)
<1>1. CASE result' = Query!Nothing
  <2>1. SubSeq(rows, 1, 0) = <<>> /\ 0 \in 0 .. Len(rows)
    BY DEF ClientInv, ClientTypes
  <2>2. QED
    BY <1>1, <2>1 DEF Query!Contract!Outcomes, Query!Nothing
<1>2. CASE Query!ScanEnd
  <2>1. /\ result' = [rows |-> out, ok |-> ~Query!Failed] /\ pc = "scan"
        /\ wire = <<>> => stream # "open"
    BY <1>2 DEF Query!ScanEnd, Query!Return
  <2>2. out = SubSeq(rows, 1, Len(out)) /\ Len(out) \in 0 .. Len(rows)
    BY DEF ClientInv, ClientTypes
  <2>3. CASE Query!Failed
    <3>1. result' = [rows |-> SubSeq(rows, 1, Len(out)), ok |-> FALSE]
      BY <2>1, <2>2, <2>3
    <3>2. QED
      BY <2>2, <3>1 DEF Query!Contract!Outcomes
  <2>4. CASE ~Query!Failed
    <3>1. wire = <<>> /\ stream = "closed"
      BY <2>1, <2>4 DEF Query!Failed, ClientInv, ClientTypes, Ended
    <3>2. sent = Len(rows)
      BY <2>1, <3>1 DEF ClientInv, Ended
    <3>3. Len(out) = sent
      BY <3>1 DEF ClientInv, ClientTypes, Complete
    <3>4. out = rows
      BY <3>2, <3>3 DEF ClientInv, ClientTypes
    <3>5. QED
      BY <2>1, <2>4, <3>4 DEF Query!Contract!Outcomes
  <2>5. QED
    BY <2>3, <2>4
<1>3. QED
  BY <1>1, <1>2

\* Every step of Query returns once, with an outcome, or is none of its caller's.
LEMMA StepContract ==
  ASSUME ClientInv, Query!Next
  PROVE  [Query!Contract!Return]_<<rows, pc = "done", result>>
<1>1. UNCHANGED rows
  BY DEF Query!Next, Query!ClickHouse, Query!Client, Query!SendRow, Query!SendBlank,
         Query!SendException, Query!Close, Query!Break, Query!Expire, Query!Refused,
         Query!Accepted, Query!ScanLine, Query!ScanEnd, Query!server
<1>2. \/ UNCHANGED <<pc, result>>
      \/ pc = "send" /\ pc' = "scan" /\ UNCHANGED result
      \/ pc # "done" /\ pc' = "done" /\ (result' = Query!Nothing \/ Query!ScanEnd)
  <2>1. CASE Query!ClickHouse \/ (pc = "scan" /\ Query!Break)
    BY <2>1 DEF Query!ClickHouse, Query!SendRow, Query!SendBlank, Query!SendException,
                Query!Close, Query!Break
  <2>2. CASE pc # "scan" /\ Query!Expire
    BY <2>2 DEF Query!Expire, Query!Running, Query!Return
  <2>3. CASE Query!Refused \/ Query!Accepted
    BY <2>3 DEF Query!Refused, Query!Accepted, Query!Return
  <2>4. CASE Query!ScanLine
    BY <2>4 DEF Query!ScanLine, Query!Decode, Query!Return
  <2>5. CASE Query!ScanEnd
    BY <2>5 DEF Query!ScanEnd, Query!Return
  <2>6. QED
    BY <2>1, <2>2, <2>3, <2>4, <2>5 DEF Query!Next, Query!Client, Query!Expire
<1>3. CASE UNCHANGED <<pc, result>>
  BY <1>1, <1>3
<1>4. CASE pc = "send" /\ pc' = "scan" /\ UNCHANGED result
  <2>1. (pc = "done") = FALSE /\ (pc' = "done") = FALSE
    BY <1>4
  <2>2. QED
    BY <1>1, <1>4, <2>1
<1>5. CASE pc # "done" /\ pc' = "done" /\ (result' = Query!Nothing \/ Query!ScanEnd)
  <2>1. result' \in Query!Contract!Outcomes(rows)
    BY <1>1, <1>5, Outcome
  <2>2. QED
    BY <1>1, <1>5, <2>1 DEF Query!Contract!Return
<1>6. QED
  BY <1>2, <1>3, <1>4, <1>5

-----------------------------------------------------------------------------
(***************************************************************************)
(* The process.                                                            *)
(***************************************************************************)
\* Until it has the address there is no request, the server is closed by the goroutine of a
\* signal, main fails for want of a listener, and nothing runs in a process that has ended.
ProcessInv ==
  /\ Process!TypeOK /\ maxTime \in {"", "number", "junk"}
  /\ main \in {"config", "notify", "listen", "bind"} \/ port = "taken" => Process!Unserved
  /\ main \in {"config", "notify"} => signal = "none"
  /\ closed => signal = "taken"
  /\ main = "return" => closed
  /\ main = "failed" => port # "free"
  /\ signal = "deadly" => main = "exited"
  /\ main = "exited" => \A r \in Requests : request[r] # "running"
  /\ Process!ExitTells

LEMMA InitProcess == Process!Init => ProcessInv
BY DEF Process!Init, ProcessInv, Process!TypeOK, Process!ExitTells, Process!Unserved

\* The process ends: of its own will after a signal, for want of a listener, or before it has
\* served anything.
LEMMA ExitProcess ==
  ASSUME ProcessInv, NEW code \in {"0", "1", "killed"}, Process!Exit(code),
         UNCHANGED <<url, maxTime, port, maxExecution, closed>>, closed => signal' = signal,
         signal' \in {"none", "sent", "taken", "deadly"}, code = "0" => signal' = "taken",
         code = "1" =>
           port = "lost" \/ ((~Process!Configured \/ port = "taken") /\ Process!Unserved),
         code = "killed" => Process!Unserved
  PROVE  ProcessInv'
<1>1. /\ main' = "exited" /\ status' = code
      /\ request' = [r \in Requests |-> IF request[r] = "running" THEN "cut" ELSE request[r]]
  BY DEF Process!Exit, Process!Running
<1>2. /\ request \in [Requests -> {"none", "running", "answered", "cut"}]
      /\ maxTime \in {"", "number", "junk"} /\ maxExecution \in {"", "number"}
      /\ closed \in BOOLEAN /\ (closed => signal = "taken") /\ port \in {"free", "taken", "lost"}
      /\ (port = "taken" => Process!Unserved)
  BY DEF ProcessInv, Process!TypeOK
<1>3. /\ request' \in [Requests -> {"none", "running", "answered", "cut"}]
      /\ \A r \in Requests : request'[r] # "running"
      /\ Process!Unserved => Process!Unserved'
      /\ Process!Unserved' => \A r \in Requests : request'[r] # "cut"
      /\ Process!Configured' <=> Process!Configured
  BY <1>1, <1>2 DEF Process!Unserved, Process!Configured, Process!GoodURL, Process!GoodTime
<1>4. Process!TypeOK'
  BY <1>1, <1>2, <1>3 DEF Process!TypeOK
<1>5. Process!ExitTells'
  BY <1>1, <1>3 DEF Process!ExitTells
<1>6. QED
  BY <1>1, <1>2, <1>3, <1>4, <1>5 DEF ProcessInv

\* main goes on.
LEMMA MoveProcess ==
  ASSUME ProcessInv, main # "exited", 
         main' \in {"notify", "listen", "bind", "serve", "return", "failed"},
         main' \in {"notify", "listen", "bind"} =>
           main \in {"config", "notify", "listen", "bind"},
         main' = "return" => closed, main' = "notify" => main \in {"config", "notify"},
         main' = "failed" => port # "free", maxExecution' \in {"", "number"},
         UNCHANGED <<url, maxTime, port, signal, closed, status, request>>
  PROVE  ProcessInv'
<1>1. Process!Unserved' <=> Process!Unserved
  BY DEF Process!Unserved
<1>2. status = ""
  BY DEF ProcessInv, Process!TypeOK
<1>3. Process!TypeOK' /\ Process!ExitTells'
  BY <1>2 DEF ProcessInv, Process!TypeOK, Process!ExitTells
<1>4. QED
  BY <1>1, <1>3 DEF ProcessInv, Process!TypeOK

\* One request begins or ends.
LEMMA RequestProcess ==
  ASSUME ProcessInv, NEW r \in Requests, port # "taken",
         main \notin {"config", "notify", "listen", "bind", "exited"},
         NEW new \in {"running", "answered"}, request' = [request EXCEPT ![r] = new],
         UNCHANGED <<url, maxTime, port, main, maxExecution, signal, closed, status>>
  PROVE  ProcessInv'
<1>1. /\ request' \in [Requests -> {"none", "running", "answered", "cut"}]
      /\ \A s \in Requests : request'[s] = "cut" => request[s] = "cut"
  BY DEF ProcessInv, Process!TypeOK
<1>2. Process!TypeOK'
  BY <1>1 DEF ProcessInv, Process!TypeOK
<1>3. status = ""
  BY DEF ProcessInv, Process!TypeOK
<1>4. Process!ExitTells'
  BY <1>1, <1>3 DEF ProcessInv, Process!ExitTells
<1>5. QED
  BY <1>2, <1>4 DEF ProcessInv

LEMMA StepProcess == ASSUME ProcessInv, Process!Next PROVE ProcessInv'
<1>1. CASE Process!Configure
  <2>1. /\ main = "config" /\ UNCHANGED <<url, maxTime, port, signal, closed>>
        /\ ~closed /\ signal # "deadly" /\ Process!Unserved
        /\ signal \in {"none", "sent", "taken", "deadly"} /\ maxTime \in {"", "number", "junk"}
    BY <1>1 DEF Process!Configure, Process!environment, Process!config, ProcessInv, Process!TypeOK
  <2>2. CASE Process!Configured
    <3>1. main' = "notify" /\ maxExecution' = maxTime /\ maxTime # "junk"
          /\ UNCHANGED <<status, request>>
      BY <1>1, <2>2 DEF Process!Configure, Process!Configured, Process!GoodTime
    <3>2. QED
      BY <2>1, <3>1, MoveProcess
  <2>3. CASE ~Process!Configured
    <3>1. Process!Exit("1") /\ UNCHANGED <<url, maxTime, port, maxExecution, signal, closed>>
      BY <1>1, <2>1, <2>3 DEF Process!Configure
    <3>2. signal \in {"none", "sent", "taken", "deadly"} /\ Process!Unserved
      BY <2>1
    <3>3. QED
      BY <2>3, <3>1, <3>2, ExitProcess
  <2>4. QED
    BY <2>2, <2>3
<1>2. CASE Process!Notify
  <2>1. /\ main = "notify" /\ main' = "listen"
        /\ UNCHANGED <<url, maxTime, port, maxExecution, signal, closed, status, request>>
    BY <1>2 DEF Process!Notify, Process!environment, Process!config
  <2>2. QED
    BY <2>1, MoveProcess DEF ProcessInv, Process!TypeOK
<1>3. CASE Process!Listen \/ Process!Bind
  <2>1. /\ main \in {"listen", "bind"} /\ maxExecution \in {"", "number"}
        /\ UNCHANGED <<url, maxTime, port, maxExecution, signal, closed, status, request>>
    BY <1>3 DEF Process!Listen, Process!Bind, Process!environment, Process!config, ProcessInv,
                Process!TypeOK
  <2>2. \/ closed /\ main' = "return"
        \/ port = "taken" /\ main' = "failed"
        \/ main' \in {"bind", "serve"}
    BY <1>3 DEF Process!Listen, Process!Bind
  <2>3. QED
    BY <2>1, <2>2, MoveProcess
<1>4. CASE Process!ServeReturns \/ Process!ServeFails
  <2>1. /\ main = "serve" /\ maxExecution \in {"", "number"}
        /\ UNCHANGED <<url, maxTime, port, maxExecution, signal, closed, status, request>>
    BY <1>4 DEF Process!ServeReturns, Process!ServeFails, Process!environment, Process!config,
                ProcessInv, Process!TypeOK
  <2>2. (closed /\ main' = "return") \/ (port = "lost" /\ main' = "failed")
    BY <1>4 DEF Process!ServeReturns, Process!ServeFails, Process!ServerClosed
  <2>3. QED
    BY <2>1, <2>2, MoveProcess
<1>5. CASE Process!Return
  <2>1. /\ main = "return" /\ Process!Exit("0")
        /\ UNCHANGED <<url, maxTime, port, maxExecution, signal, closed>>
    BY <1>5 DEF Process!Return, Process!StatusOfMain, Process!environment, Process!config
  <2>2. signal = "taken"
    BY <2>1 DEF ProcessInv
  <2>3. QED
    BY <2>1, <2>2, ExitProcess
<1>11. CASE Process!Fail
  <2>1. /\ main = "failed" /\ Process!Exit("1")
        /\ UNCHANGED <<url, maxTime, port, maxExecution, signal, closed>>
    BY <1>11 DEF Process!Fail, Process!environment, Process!config
  <2>2. /\ port = "lost" \/ (port = "taken" /\ Process!Unserved)
        /\ signal \in {"none", "sent", "taken", "deadly"}
    BY <2>1 DEF ProcessInv, Process!TypeOK
  <2>3. QED
    BY <2>1, <2>2, ExitProcess
<1>12. CASE Process!Lose
  <2>1. /\ main = "serve" /\ port' = "lost" /\ port = "free"
        /\ UNCHANGED <<url, maxTime, main, maxExecution, signal, closed, status, request>>
    BY <1>12 DEF Process!Lose, Process!config
  <2>2. status = "" /\ (Process!Unserved' <=> Process!Unserved)
    BY <2>1 DEF ProcessInv, Process!TypeOK, Process!Unserved
  <2>3. Process!TypeOK' /\ Process!ExitTells'
    BY <2>1, <2>2 DEF ProcessInv, Process!TypeOK, Process!ExitTells
  <2>4. QED
    BY <2>1, <2>2, <2>3 DEF ProcessInv
<1>6. CASE Process!Signal
  <2>1. signal = "none" /\ main # "exited"
        /\ UNCHANGED <<url, maxTime, port, maxExecution, closed>>
    BY <1>6 DEF Process!Signal, Process!environment, Process!config
  <2>2. ~closed
    BY <2>1 DEF ProcessInv
  <2>3. CASE main \in {"config", "notify"}
    <3>1. signal' = "deadly" /\ Process!Exit("killed") /\ Process!Unserved
      BY <1>6, <2>3 DEF Process!Signal, ProcessInv
    <3>2. QED
      BY <2>1, <2>2, <3>1, ExitProcess
  <2>4. CASE main \notin {"config", "notify"}
    <3>1. signal' = "sent" /\ UNCHANGED <<main, status, request>>
      BY <1>6, <2>4 DEF Process!Signal
    <3>2. status = "" /\ (Process!Unserved' <=> Process!Unserved)
      BY <2>1, <3>1 DEF ProcessInv, Process!TypeOK, Process!Unserved
    <3>3. Process!TypeOK' /\ Process!ExitTells'
      BY <2>1, <3>1, <3>2 DEF ProcessInv, Process!TypeOK, Process!ExitTells
    <3>4. QED
      BY <2>1, <2>2, <2>4, <3>1, <3>2, <3>3 DEF ProcessInv
  <2>5. QED
    BY <2>3, <2>4
<1>7. CASE Process!Shutdown
  <2>1. /\ signal = "sent" /\ main # "exited" /\ signal' = "taken" /\ closed' = TRUE
        /\ UNCHANGED <<url, maxTime, port, main, maxExecution, status, request>>
    BY <1>7 DEF Process!Shutdown, Process!environment, Process!config
  <2>2. status = "" /\ (Process!Unserved' <=> Process!Unserved)
    BY <2>1 DEF ProcessInv, Process!TypeOK, Process!Unserved
  <2>3. Process!TypeOK' /\ Process!ExitTells'
    BY <2>1, <2>2 DEF ProcessInv, Process!TypeOK, Process!ExitTells
  <2>4. QED
    BY <2>1, <2>2, <2>3 DEF ProcessInv
<1>8. ASSUME NEW r \in Requests, Process!Accept(r) PROVE ProcessInv'
  BY <1>8, RequestProcess DEF Process!Accept, Process!environment, Process!config
<1>9. ASSUME NEW r \in Requests, Process!Finish(r) PROVE ProcessInv'
  <2>1. port # "taken" /\ main \notin {"config", "notify", "listen", "bind", "exited"}
    BY <1>9 DEF Process!Finish, Process!Running, Process!Unserved, ProcessInv
  <2>2. QED
    BY <1>9, <2>1, RequestProcess DEF Process!Finish, Process!environment, Process!config
<1>10. QED
  BY <1>1, <1>2, <1>3, <1>4, <1>5, <1>6, <1>7, <1>8, <1>9, <1>11, <1>12
     DEF Process!Next, Process!Main

-----------------------------------------------------------------------------
(***************************************************************************)
(* The service.                                                            *)
(***************************************************************************)
\* Both, and no question is asked for a request that has not come.
ServiceInv ==
  /\ ProcessInv /\ ClientInv
  /\ request[q] = "none" => pc = "send"

LEMMA InitService == Init => ServiceInv
<1>1. Init => pc = "send"
  BY DEF Init, Query!Init
<1>2. QED
  BY <1>1, InitProcess, InitClient DEF Init, ServiceInv

LEMMA StaysProcess == ASSUME ProcessInv, UNCHANGED process PROVE ProcessInv'
BY DEF process, ProcessInv, Process!TypeOK, Process!ExitTells, Process!Unserved,
       Process!Configured, Process!GoodURL, Process!GoodTime

LEMMA StaysClient == ASSUME ClientInv, UNCHANGED query PROVE ClientInv'
BY DEF query, ClientInv, ClientTypes, Ended, InSequence, Placed, Complete

\* A step is one of the process or one of Query, for the request that runs.
LEMMA OneMoves ==
  ASSUME [Next]_vars
  PROVE  \/ UNCHANGED vars
         \/ Process!Next /\ UNCHANGED query
         \/ Query!Next /\ UNCHANGED process /\ request[q] = "running"
<1>1. CASE Main \/ Shutdown \/ InProcess(Process!Signal) \/ InProcess(Process!Lose)
  BY <1>1 DEF Main, Shutdown, InProcess, Process!Next
<1>2. CASE \E r \in Requests : InProcess(Process!Accept(r))
  BY <1>2 DEF InProcess, Process!Next
<1>3. CASE (\E r \in Requests \ {q} : InProcess(Process!Finish(r))) \/ Replies
  BY <1>3, ServiceAssumption DEF InProcess, Process!Next, Replies
<1>4. CASE InHandler(Query!ClickHouse) \/ InHandler(Query!Refused) \/ InHandler(Query!Accepted)
  BY <1>4 DEF InHandler, Query!Next, Query!Client
<1>5. CASE Reads \/ Expires
  BY <1>5 DEF Reads, Expires, InHandler, Query!Next, Query!Client
<1>6. QED
  BY <1>1, <1>2, <1>3, <1>4, <1>5 DEF Next

\* A request that has not come was never begun.
LEMMA NotBegun == ASSUME ProcessInv, Process!Next, request'[q] = "none" PROVE request[q] = "none"
<1>1. request \in [Requests -> {"none", "running", "answered", "cut"}] /\ q \in Requests
  BY ServiceAssumption DEF ProcessInv, Process!TypeOK
<1>2. CASE UNCHANGED request
  BY <1>2
<1>3. ASSUME NEW code, Process!Exit(code) PROVE request[q] = "none"
  BY <1>1, <1>3 DEF Process!Exit
<1>4. ASSUME NEW r \in Requests, Process!Accept(r) \/ Process!Finish(r) PROVE request[q] = "none"
  BY <1>1, <1>4 DEF Process!Accept, Process!Finish
<1>5. CASE Process!Main \/ Process!Signal \/ Process!Shutdown \/ Process!Lose
  BY <1>2, <1>3, <1>5
     DEF Process!Main, Process!Configure, Process!Notify, Process!Listen, Process!Bind,
         Process!ServeReturns, Process!ServeFails, Process!Return, Process!Fail,
         Process!Signal, Process!Shutdown, Process!Lose
<1>6. QED
  BY <1>4, <1>5 DEF Process!Next

LEMMA StepService == ServiceInv /\ [Next]_vars => ServiceInv'
<1> SUFFICES ASSUME ServiceInv, [Next]_vars PROVE ServiceInv'
  OBVIOUS
<1>1. CASE UNCHANGED vars
  BY <1>1, StaysProcess, StaysClient DEF vars, process, query, ServiceInv
<1>2. CASE Process!Next /\ UNCHANGED query
  <2>1. ProcessInv' /\ ClientInv'
    BY <1>2, StepProcess, StaysClient DEF ServiceInv
  <2>2. request'[q] = "none" => request[q] = "none"
    BY <1>2, NotBegun DEF ServiceInv
  <2>3. QED
    BY <1>2, <2>1, <2>2 DEF ServiceInv, query
<1>3. CASE Query!Next /\ UNCHANGED process /\ request[q] = "running"
  <2>1. ProcessInv' /\ ClientInv'
    BY <1>3, StaysProcess, StepClient DEF ServiceInv
  <2>2. QED
    BY <1>3, <2>1 DEF ServiceInv, process
<1>4. QED
  BY <1>1, <1>2, <1>3, OneMoves

LEMMA ServiceInvariant == Spec => []ServiceInv
BY InitService, StepService, PTL DEF Spec

\* The kinds of values of the process and of Query.  What is read is the beginning of the
\* answer, whatever order of lines, ends and timeouts the connection finds.
THEOREM ServiceTypes == Spec => []TypeOK
<1>1. ServiceInv => TypeOK
  <2>1. ASSUME ClientInv PROVE out = SubSeq(rows, 1, Len(out))
    BY <2>1 DEF ClientInv, ClientTypes
  <2>2. QED
    BY <2>1 DEF ServiceInv, ProcessInv, ClientInv, ClientTypes, TypeOK, Query!TypeOK
<1>2. QED
  BY <1>1, ServiceInvariant, PTL

\* The exit status tells a supervisor how the process ended, and only a process that was
\* asked to stop, or has lost its listener, cuts its requests off.
THEOREM ExitTold == Spec => []ExitTells
<1>1. ServiceInv => ExitTells
  BY DEF ServiceInv, ProcessInv, ExitTells
<1>2. QED
  BY <1>1, ServiceInvariant, PTL

\* Query implements its contract: it returns once, with all rows or with an error and the
\* first of them, however the answer is cut, delayed or spoilt.
THEOREM QueryKeepsContract == Spec => KeepsContract
<1>1. Init => Query!Contract!Init
  BY DEF Init, Query!Init, Query!Contract!Init
<1>2. ServiceInv /\ [Next]_vars => [Query!Contract!Return]_<<rows, pc = "done", result>>
  <2> SUFFICES ASSUME ServiceInv, [Next]_vars
               PROVE  [Query!Contract!Return]_<<rows, pc = "done", result>>
    OBVIOUS
  <2>1. CASE Query!Next
    BY <2>1, StepContract DEF ServiceInv
  <2>2. CASE UNCHANGED query
    BY <2>2 DEF query
  <2>3. QED
    BY <2>1, <2>2, OneMoves DEF vars
<1>3. QED
  BY <1>1, <1>2, ServiceInvariant, PTL DEF Spec, KeepsContract, Query!KeepsContract, Query!Contract!Spec

-----------------------------------------------------------------------------
(***************************************************************************)
(* What must happen, if nobody who is owed a step is without one           *)
(* (NobodyStuck).  A signal: the goroutine closes the server, main finds   *)
(* it closed and returns.                                                  *)
(***************************************************************************)
\* The stages of the end of the process.
Exited   == main = "exited"
Told     == signal = "sent"
Opening  == closed /\ main = "bind"
Closing  == closed /\ main \in {"listen", "serve"}
Going    == closed /\ main \in {"return", "failed"}

\* Only main goes on, unless a signal ends the process.
LEMMA MainMoves == ASSUME [Next]_vars PROVE main' = main \/ Main \/ Exited'
<1>1. CASE InProcess(Process!Signal) \/ InProcess(Process!Lose)
  BY <1>1 DEF InProcess, Process!Signal, Process!Lose, Process!Exit, Exited
<1>2. CASE Shutdown
  BY <1>2 DEF Shutdown, InProcess, Process!Shutdown
<1>3. CASE \E r \in Requests : InProcess(Process!Accept(r)) \/ InProcess(Process!Finish(r))
  BY <1>3 DEF InProcess, Process!Accept, Process!Finish
<1>4. CASE Replies
  BY <1>4 DEF Replies, InProcess, Process!Finish
<1>5. CASE InHandler(Query!ClickHouse) \/ InHandler(Query!Refused) \/ InHandler(Query!Accepted)
           \/ Reads \/ Expires
  BY <1>5 DEF InHandler, Reads, Expires, process
<1>6. CASE UNCHANGED vars
  BY <1>6 DEF vars, process
<1>7. QED
  BY <1>1, <1>2, <1>3, <1>4, <1>5, <1>6 DEF Next

\* A server is not opened again.
LEMMA StaysClosed == ASSUME [Next]_vars PROVE closed => closed'
<1>1. CASE Main
  BY <1>1, Zenon DEF Main, InProcess, Process!Main, Process!Configure, Process!Notify,
                     Process!Listen, Process!Bind, Process!ServeReturns, Process!ServeFails,
                     Process!Return, Process!Fail
<1>2. CASE Shutdown \/ InProcess(Process!Signal) \/ InProcess(Process!Lose)
  BY <1>2 DEF Shutdown, InProcess, Process!Shutdown, Process!Signal, Process!Lose
<1>3. CASE \E r \in Requests : InProcess(Process!Accept(r)) \/ InProcess(Process!Finish(r))
  BY <1>3 DEF InProcess, Process!Accept, Process!Finish
<1>4. CASE Replies
  BY <1>4 DEF Replies, InProcess, Process!Finish
<1>5. CASE InHandler(Query!ClickHouse) \/ InHandler(Query!Refused) \/ InHandler(Query!Accepted)
           \/ Reads \/ Expires
  BY <1>5 DEF InHandler, Reads, Expires, process
<1>6. CASE UNCHANGED vars
  BY <1>6 DEF vars, process
<1>7. QED
  BY <1>1, <1>2, <1>3, <1>4, <1>5, <1>6 DEF Next

\* Where main goes once the server is closed.
LEMMA MainGoes ==
  ASSUME ProcessInv, Main
  PROVE  /\ closed' = closed /\ (signal' = signal)
         /\ main = "bind" => main' \in {"serve", "failed"}
         /\ main \in {"listen", "serve"} /\ closed => main' = "return"
         /\ main \in {"return", "failed"} => main' = "exited"
<1>1. CASE InProcess(Process!Configure)
  BY <1>1, Zenon DEF InProcess, Process!Configure
<1>2. CASE InProcess(Process!Notify \/ Process!Listen \/ Process!Bind)
  BY <1>2 DEF InProcess, Process!Notify, Process!Listen, Process!Bind
<1>3. CASE InProcess(Process!ServeReturns \/ Process!ServeFails)
  BY <1>3 DEF InProcess, Process!ServeReturns, Process!ServeFails
<1>4. CASE InProcess(Process!Return \/ Process!Fail)
  BY <1>4, Zenon DEF InProcess, Process!Return, Process!Fail, Process!Exit
<1>5. QED
  BY <1>1, <1>2, <1>3, <1>4, Zenon DEF Main, InProcess, Process!Main

\* A signal is not lost, and the goroutine that takes it closes the server.
LEMMA ToldOrClosing ==
  ASSUME ServiceInv, [Next]_vars, Told, ~Exited
  PROVE  /\ Told' \/ Opening' \/ Closing' \/ Going' \/ Exited'
         /\ Shutdown => Opening' \/ Closing' \/ Going'
<1>1. /\ ProcessInv /\ signal = "sent" /\ main # "exited" /\ ~closed
      /\ main \in {"listen", "bind", "serve", "failed"}
  BY DEF ServiceInv, ProcessInv, Process!TypeOK, Told, Exited
<1>2. Main => signal' = signal
  BY <1>1, MainGoes
<1>3. Shutdown => Opening' \/ Closing' \/ Going'
  BY <1>1 DEF Shutdown, InProcess, Process!Shutdown, Opening, Closing, Going
<1>4. ASSUME ~Shutdown, ~Main PROVE signal' = signal
  <2>1. CASE InProcess(Process!Signal) \/ InProcess(Process!Lose)
    BY <1>1, <2>1 DEF InProcess, Process!Signal, Process!Lose
  <2>2. CASE \E r \in Requests : InProcess(Process!Accept(r)) \/ InProcess(Process!Finish(r))
    BY <2>2 DEF InProcess, Process!Accept, Process!Finish
  <2>3. CASE Replies
    BY <2>3 DEF Replies, InProcess, Process!Finish
  <2>4. CASE InHandler(Query!ClickHouse) \/ InHandler(Query!Refused) \/ InHandler(Query!Accepted)
             \/ Reads \/ Expires
    BY <2>4 DEF InHandler, Reads, Expires, process
  <2>5. CASE UNCHANGED vars
    BY <2>5 DEF vars, process
  <2>6. QED
    BY <1>4, <2>1, <2>2, <2>3, <2>4, <2>5 DEF Next
<1>5. QED
  BY <1>2, <1>3, <1>4 DEF Told

\* main still takes the address, or fails to.
LEMMA OpeningGoes ==
  ASSUME ServiceInv, [Next]_vars, Opening
  PROVE  /\ Opening' \/ Closing' \/ Going' \/ Exited'
         /\ Main => Closing' \/ Going'
<1>1. closed'
  BY StaysClosed DEF Opening
<1>2. Main => main' \in {"serve", "failed"}
  BY MainGoes DEF ServiceInv, Opening
<1>3. QED
  BY <1>1, <1>2, MainMoves DEF Opening, Closing, Going

\* main finds the server closed, when it listens or while it serves.
LEMMA ClosingGoes ==
  ASSUME ServiceInv, [Next]_vars, Closing
  PROVE  (Closing' \/ Going' \/ Exited') /\ (Main => Going' \/ Exited')
<1>1. closed'
  BY StaysClosed DEF Closing
<1>2. Main => main' = "return"
  BY MainGoes DEF ServiceInv, Closing
<1>3. QED
  BY <1>1, <1>2, MainMoves DEF Closing, Going

\* And then returns.
LEMMA GoingExits ==
  ASSUME ServiceInv, [Next]_vars, Going
  PROVE  (Going' \/ Exited') /\ (Main => Exited')
<1>1. closed'
  BY StaysClosed DEF Going
<1>2. Main => main' = "exited"
  BY MainGoes DEF ServiceInv, Going
<1>3. QED
  BY <1>1, <1>2, MainMoves DEF Going, Exited

\* A signal ends the process, whatever its requests and ClickHouse do meanwhile.
THEOREM SignalDoesStop == FairSpec /\ []NobodyStuck => SignalStops
<1>1. ServiceInv /\ [Next]_vars /\ Told /\ ~Exited =>
        Told' \/ Opening' \/ Closing' \/ Going' \/ Exited'
  BY ToldOrClosing
<1>2. ServiceInv /\ [Next]_vars /\ Told /\ ~Exited /\ <<Shutdown>>_vars =>
        Opening' \/ Closing' \/ Going'
  BY ToldOrClosing
<1>3. ServiceInv /\ [Next]_vars /\ Opening => Opening' \/ Closing' \/ Going' \/ Exited'
  BY OpeningGoes
<1>4. ServiceInv /\ [Next]_vars /\ Opening /\ <<Main>>_vars => Closing' \/ Going'
  BY OpeningGoes
<1>5. ServiceInv /\ [Next]_vars /\ Closing =>
        (Closing' \/ Going' \/ Exited') /\ (<<Main>>_vars => Going' \/ Exited')
  BY ClosingGoes
<1>6. ServiceInv /\ [Next]_vars /\ Going => (Going' \/ Exited') /\ (<<Main>>_vars => Exited')
  BY GoingExits
<1>7. NobodyStuck /\ Told /\ ~Exited => ENABLED <<Shutdown>>_vars
  BY DEF NobodyStuck, Told, Exited
<1>8. NobodyStuck /\ (Opening \/ Closing \/ Going) => ENABLED <<Main>>_vars
  BY DEF NobodyStuck, Opening, Closing, Going
<1>9. (Told <=> signal = "sent") /\ (Exited <=> main = "exited")
  BY DEF Told, Exited
<1>10. QED
  BY <1>1, <1>2, <1>3, <1>4, <1>5, <1>6, <1>7, <1>8, <1>9, ServiceInvariant, PTL
     DEF FairSpec, Spec, Fairness, SignalStops

-----------------------------------------------------------------------------
(***************************************************************************)
(* A request: its timeout bites, and what is left of its response is read. *)
(* That this ends is that no line is added and every step takes one.       *)
(***************************************************************************)
\* The stages of the request: its question waits for ClickHouse, it reads what is left of a
\* response that was broken off, or it has its answer; or it is over, or has not come.
Asks   == request[q] = "running" /\ pc # "done" /\ stream # "broken"
Drains == request[q] = "running" /\ pc # "done" /\ stream = "broken"
Has    == request[q] = "running" /\ pc = "done"
Over   == request[q] # "running"

\* While it runs its question or the process moves, not both.
LEMMA RequestMoves ==
  ASSUME [Next]_vars, ~Over, ~Over'
  PROVE  UNCHANGED query \/ (UNCHANGED process /\ Query!Next)
<1>1. QED
  BY OneMoves DEF vars

\* The answer stays.
LEMMA HasStays ==
  ASSUME [Next]_vars, Has, ~Over'
  PROVE  Has'
<1>1. CASE UNCHANGED query
  BY <1>1 DEF Has, Over, query
<1>2. CASE Query!Next
  <2>1. pc' = "done"
    BY <1>2 DEF Has, Query!Next, Query!ClickHouse, Query!Client, Query!SendRow, Query!SendBlank,
                Query!SendException, Query!Close, Query!Break, Query!Expire, Query!Running,
                Query!Refused, Query!Accepted, Query!ScanLine, Query!ScanEnd
  <2>2. QED
    BY <2>1 DEF Has, Over
<1>3. QED
  BY <1>1, <1>2, RequestMoves DEF Has, Over

\* The reply ends it.
LEMMA HasReplies ==
  ASSUME ServiceInv, Replies
  PROVE  Over'
<1>1. request \in [Requests -> {"none", "running", "answered", "cut"}] /\ q \in Requests
  BY ServiceAssumption DEF ServiceInv, ProcessInv, Process!TypeOK
<1>2. QED
  BY <1>1 DEF Replies, InProcess, Process!Finish, Over

\* The timeout bites: of a question ClickHouse has not taken, or of its response.
LEMMA AsksExpires ==
  ASSUME Asks, Expires
  PROVE  Has' \/ Drains' \/ Over'
<1>1. pc' = "done" \/ stream' = "broken"
  BY DEF Expires, InHandler, Query!Expire, Query!Break, Query!Return
<1>2. QED
  BY <1>1 DEF Has, Drains, Over

\* A response that was broken off stays so, and nothing is put on the wire; the handler takes
\* a line from it at every step, until it has its answer.
LEMMA DrainsOn ==
  ASSUME ServiceInv, [Next]_vars, Drains, ~Over'
  PROVE  /\ Has' \/ (Drains' /\ Len(wire') <= Len(wire))
         /\ Reads => Has' \/ (Drains' /\ Len(wire') < Len(wire))
<1>1. /\ wire \in Seq(Lines) /\ Len(wire) \in Nat
      /\ pc = "scan" /\ stream = "broken" /\ request[q] = "running" /\ request'[q] = "running"
  BY DEF ServiceInv, ClientInv, ClientTypes, Ended, Drains, Over
<1>2. ASSUME UNCHANGED query PROVE Drains' /\ Len(wire') <= Len(wire) /\ ~Reads
  <2>1. Drains' /\ Len(wire') <= Len(wire)
    BY <1>1, <1>2 DEF query, Drains
  <2>2. ASSUME Query!ScanLine PROVE FALSE
    <3>1. Len(Tail(wire)) # Len(wire)
      BY <1>1, <2>2, TailFacts DEF Query!ScanLine
    <3>2. QED
      BY <1>2, <2>2, <3>1 DEF Query!ScanLine, query
  <2>3. ~Query!ScanEnd
    BY <1>1, <1>2 DEF query, Query!ScanEnd, Query!Return
  <2>4. QED
    BY <2>1, <2>2, <2>3 DEF Reads, InHandler
<1>3. ASSUME Query!ScanLine PROVE Has' \/ (Drains' /\ Len(wire') < Len(wire))
  <2>1. wire' = Tail(wire) /\ Len(Tail(wire)) < Len(wire) /\ stream' = stream
    BY <1>1, <1>3, TailFacts DEF Query!ScanLine
  <2>2. QED
    BY <1>1, <2>1 DEF Has, Drains
<1>4. ASSUME Query!ScanEnd PROVE Has'
  BY <1>1, <1>4 DEF Query!ScanEnd, Query!Return, Has
<1>5. ASSUME Query!Next PROVE Query!ScanLine \/ Query!ScanEnd
  BY <1>1, <1>5 DEF Query!Next, Query!ClickHouse, Query!Client, Query!SendRow, Query!SendBlank,
                    Query!SendException, Query!Sends, Query!Close, Query!Break, Query!Expire,
                    Query!Refused, Query!Accepted
<1>6. QED
  BY <1>1, <1>2, <1>3, <1>4, <1>5, RequestMoves DEF Over, Drains

\* A request ends, whatever ClickHouse does, or for ever reads lines of a response that was
\* broken off; see WireShrinks.
THEOREM TimeoutBites ==
  FairSpec /\ []NobodyStuck =>
    /\ ~Over ~> Over \/ Drains
    /\ [](Drains => <>Over \/ ([]Drains /\ []<><<Reads>>_vars))
<1>1. ServiceInv /\ [Next]_vars /\ Asks => Asks' \/ Has' \/ Drains' \/ Over'
  BY DEF Asks, Has, Drains, Over
<1>2. ServiceInv /\ [Next]_vars /\ Asks /\ <<Expires>>_vars => Has' \/ Drains' \/ Over'
  BY AsksExpires
<1>3. ServiceInv /\ [Next]_vars /\ Drains => Drains' \/ Has' \/ Over'
  BY DrainsOn
<1>4. ServiceInv /\ [Next]_vars /\ Has => Has' \/ Over'
  BY HasStays
<1>5. ServiceInv /\ Has /\ <<Replies>>_vars => Over'
  BY HasReplies
<1>6. NobodyStuck /\ Asks => ENABLED <<Expires>>_vars
  BY DEF NobodyStuck, Asks
<1>7. NobodyStuck /\ Has => ENABLED <<Replies>>_vars
  BY DEF NobodyStuck, Has
<1>8. NobodyStuck /\ Drains => ENABLED <<Reads>>_vars
  BY DEF NobodyStuck, Drains
<1>9. ~Over <=> Asks \/ Has \/ Drains
  BY DEF Over, Asks, Has, Drains
<1>10. QED
  BY <1>1, <1>2, <1>3, <1>4, <1>5, <1>6, <1>7, <1>8, <1>9, ServiceInvariant, PTL
     DEF FairSpec, Spec, Fairness

\* 
\* And that cannot be: such a response only gets shorter, by a line at every step.
THEOREM WireShrinks ==
  Spec => /\ [](Len(wire) \in Nat)
          /\ [][Drains /\ Drains' =>
                  Len(wire') <= Len(wire) /\ (Reads => Len(wire') < Len(wire))]_vars
<1> DEFINE A == Drains /\ Drains' =>
                  Len(wire') <= Len(wire) /\ (Reads => Len(wire') < Len(wire))
<1>1. ServiceInv => Len(wire) \in Nat
  BY DEF ServiceInv, ClientInv, ClientTypes
<1>2. ServiceInv /\ [Next]_vars => A
  <2> SUFFICES ASSUME ServiceInv, [Next]_vars, Drains, Drains'
               PROVE  Len(wire') <= Len(wire) /\ (Reads => Len(wire') < Len(wire))
    OBVIOUS
  <2>1. ~Over' /\ ~Has'
    BY DEF Drains, Over, Has
  <2>2. QED
    BY <2>1, DrainsOn
<1>3. QED
  BY <1>1, <1>2, ServiceInvariant, PTL DEF Spec
=============================================================================
