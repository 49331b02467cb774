---------------------------- MODULE ClickHouseClient ----------------------------
(***************************************************************************)
(* internal/ch/client.go, Query: one question to ClickHouse over HTTP.     *)
(* The rows come one a line while the query still runs, so the answer can  *)
(* end in the middle, in more than one way.  A row is known by its number. *)
(*                                                                         *)
(* The steps are those of Query while the process lives; Service says when *)
(* that is.                                                                *)
(***************************************************************************)
EXTENDS Naturals, Sequences

CONSTANTS
  MaxRows,   \* the most rows a question has
  Ahead      \* how many lines ClickHouse may be ahead of the client

VARIABLES
  \* ClickHouse and the connection
  rows,    \* the rows of the answer
  sent,    \* how many were sent
  wire,    \* the lines that are sent and not yet scanned
  stream,  \* "none", "open", "closed" by ClickHouse, or "broken"
  \* Query
  pc, out, result

server == <<rows, sent, wire, stream>>
vars   == <<server, pc, out, result>>

Line(kind, n) == [kind |-> kind, row |-> n]
Nothing       == [rows |-> <<>>, ok |-> FALSE]

-----------------------------------------------------------------------------
(***************************************************************************)
(* ClickHouse.  It may stop at any point; nothing makes it go on.          *)
(***************************************************************************)
Sends(line) == stream = "open" /\ Len(wire) < Ahead /\ wire' = Append(wire, line)

\* A row, which may be longer than the client's buffer.
SendRow ==
  /\ sent < Len(rows)
  /\ \E kind \in {"row", "long"} : Sends(Line(kind, sent + 1))
  /\ sent' = sent + 1
  /\ UNCHANGED <<rows, stream, pc, out, result>>

SendBlank ==
  /\ Sends(Line("blank", 0))
  /\ UNCHANGED <<rows, sent, stream, pc, out, result>>

\* The query fails after its first rows were sent: the text of the exception follows
\* them, which is no row, and the response ends as any other.
SendException ==
  /\ Sends(Line("text", 0))
  /\ stream' = "closed"
  /\ UNCHANGED <<rows, sent, pc, out, result>>

Close ==
  /\ stream = "open" /\ sent = Len(rows)
  /\ stream' = "closed"
  /\ UNCHANGED <<rows, sent, wire, pc, out, result>>

\* What the client has not read is lost, and a line it has begun to read ends there.
Break ==
  /\ stream \in {"open", "closed"}
  /\ \E n \in 0 .. Len(wire) :
       wire' \in {SubSeq(wire, 1, n), Append(SubSeq(wire, 1, n), Line("text", 0))}
  /\ stream' = "broken"
  /\ UNCHANGED <<rows, sent, pc, out, result>>

-----------------------------------------------------------------------------
(***************************************************************************)
(* Query.                                                                  *)
(***************************************************************************)
Return(r) == pc' = "done" /\ result' = r

\* Mistake: the timeout is that of the connection, not of the response.
RunningBefore == pc = "send"
Running       == pc # "done"

\* The 60 seconds of the http.Client are over, or the caller's context is.
Expire ==
  /\ Running
  /\ IF pc = "scan" THEN stream # "broken" /\ Break
     ELSE Return(Nothing) /\ UNCHANGED <<server, out>>

\* The request cannot be made or sent, or the status is not 200.
Refused ==
  /\ pc = "send"
  /\ Return(Nothing)
  /\ UNCHANGED <<server, out>>

Accepted ==
  /\ pc = "send"
  /\ pc' = "scan" /\ stream' = "open"
  /\ UNCHANGED <<rows, sent, wire, out, result>>

\* json.Unmarshal; what was read before goes when a line is not a row.
Decode(line) ==
  IF line.kind = "row"
  THEN out' = Append(out, line.row) /\ UNCHANGED <<pc, result>>
  ELSE Return(Nothing) /\ UNCHANGED out

ScanLine ==
  /\ pc = "scan" /\ wire # <<>> /\ Head(wire).kind # "long"
  /\ wire' = Tail(wire)
  /\ IF Head(wire).kind = "blank" THEN UNCHANGED <<pc, out, result>> ELSE Decode(Head(wire))
  /\ UNCHANGED <<rows, sent, stream>>

\* Mistake: sc.Err() is forgotten.
ScannerError == FALSE
Failed       == wire # <<>> \/ stream = "broken"

\* Scan returns false: the line does not fit in the buffer, or the body has ended.
ScanEnd ==
  /\ pc = "scan"
  /\ IF wire # <<>> THEN Head(wire).kind = "long" ELSE stream # "open"
  /\ Return([rows |-> out, ok |-> ~Failed])
  /\ UNCHANGED <<server, out>>

-----------------------------------------------------------------------------
Init ==
  /\ rows \in {[i \in 1 .. n |-> i] : n \in 0 .. MaxRows}
  /\ sent = 0 /\ wire = <<>> /\ stream = "none"
  /\ pc = "send" /\ out = <<>> /\ result = Nothing

ClickHouse == SendRow \/ SendBlank \/ SendException \/ Close \/ (pc = "scan" /\ Break)
Client     == Refused \/ Accepted \/ ScanLine \/ ScanEnd

Next == ClickHouse \/ Expire \/ Client

-----------------------------------------------------------------------------
\* The kinds of values; the rows read are rows that were sent, in their order.
TypeOK ==
  /\ sent \in 0 .. Len(rows) /\ stream \in {"none", "open", "closed", "broken"}
  /\ Len(wire) <= Ahead + 1
  /\ pc \in {"send", "scan", "done"}
  /\ Len(out) <= sent /\ out = SubSeq(rows, 1, Len(out))
  /\ result.ok \in BOOLEAN

\* However the response is cut, delayed or spoilt, the caller gets the whole answer, or an
\* error with some of its first rows: never a short answer without an error, and never
\* a row that is not of the answer.
Contract == INSTANCE QueryContract WITH returned <- pc = "done"
KeepsContract == Contract!Spec
=============================================================================
