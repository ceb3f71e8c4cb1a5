--------------------------- MODULE HttpConnection ---------------------------
(***************************************************************************)
(* One connection of HttpServer: the bytes the peer sends, cut into reads  *)
(* at any place; HttpContext, which parses them step by step; the loop of  *)
(* onMessage, which dispatches every complete request; middleware, router  *)
(* and handlers; the responses; and the thread of a streaming handler,     *)
(* which writes to the same connection.                                    *)
(*                                                                         *)
(* A byte of the wire is CR, LF or a symbol of Text.  One symbol of Text   *)
(* stands for the text of a whole line: LineOf gives what it means as a    *)
(* request line and FieldOf what it means as a header line, or Malformed.  *)
(* In a body a symbol is just a byte, so a body may look like a request.   *)
(* Lines of several symbols are malformed.  A header value is a sequence:  *)
(* the digits of a length, the tokens of Connection.                       *)
(*                                                                         *)
(* TLS is off, as in the chat server.  All steps of onMessage run in the   *)
(* thread of the connection's event loop.                                  *)
(***************************************************************************)
EXTENDS Integers, Sequences, FiniteSets

CONSTANTS
    CR, LF, Text,
    LineOf,          \* meaning of a symbol as a request line
    FieldOf,         \* meaning of a symbol as a header line
    Malformed,
    Plans,           \* what the peer may send: sequences of messages
    handlers_,       \* routes: the kind of handler of each registered <<method, path>>
    allowedOrigins,  \* CorsConfig
    maxBodyLength,   \* 10 MiB
    MaxTokens        \* bound: tokens of one streamed answer

ASSUME LengthAssumption == maxBodyLength \in Nat /\ maxBodyLength >= 9
ASSUME SymbolAssumption == CR \notin Text /\ LF \notin Text /\ CR # LF

VARIABLES
    plan,      \* the messages the peer sends
    delivered, \* number of bytes the server has read
    buf,       \* bytes read and not consumed
    pc,        \* "idle", "parse" inside the loop of onMessage, "request" in onRequest
    context,   \* the HttpContext
    conn,      \* "up", "closing" after shutdown, "down"
    stream,    \* the thread of a streaming handler: "none", "running",
               \* "done", or "failed" if it could not be started
    sent,      \* what the server wrote
    handled    \* history: the requests given to httpCallback_

vars == <<plan, delivered, buf, pc, context, conn, stream, sent, handled>>

-----------------------------------------------------------------------------
(* The wire *)

CRLF == <<CR, LF>>

Lines(fields) ==
    LET Upto[i \in 0..Len(fields)] ==
          IF i = 0 THEN <<>> ELSE Upto[i - 1] \o <<fields[i]>> \o CRLF
    IN  Upto[Len(fields)]

Encode(m) == <<m.line>> \o CRLF \o Lines(m.fields) \o CRLF \o m.body

\* The bytes of the first k messages of the plan.
Wire(k) ==
    LET Upto[i \in 0..Len(plan)] == IF i = 0 THEN <<>> ELSE Upto[i - 1] \o Encode(plan[i])
    IN  Upto[k]

\* Buffer::findCRLF: where the first line of the buffer ends.
LineEnds(b) == {i \in 1..(Len(b) - 1) : b[i] = CR /\ b[i + 1] = LF}
HasLine(b) == LineEnds(b) # {}
FirstLine(b) == SubSeq(b, 1, (CHOOSE i \in LineEnds(b) : \A j \in LineEnds(b) : i <= j) - 1)
AfterLine(b) == SubSeq(b, Len(FirstLine(b)) + 3, Len(b))

Meaning(table, line) ==
    IF Len(line) = 1 /\ line[1] \in Text THEN table[line[1]] ELSE Malformed

-----------------------------------------------------------------------------
(* HttpRequest and HttpContext *)

EmptyRequest ==
    [method |-> "invalid", version |-> "unknown", path |-> "", headers |-> [n \in {} |-> <<>>],
     contentLength |-> 0, content |-> <<>>]

NewContext == [state |-> "line", request |-> EmptyRequest, stopped |-> FALSE]

\* reset: the connection stays stopped if it was.
Reset(c) == [c EXCEPT !.state = "line", !.request = EmptyRequest]

Has(r, name) == name \in DOMAIN r.headers
Header(r, name) == IF Has(r, name) THEN r.headers[name] ELSE <<>>

\* addHeader refuses a second length that differs.
Conflict(r, f) ==
    f.name = "content-length" /\ Has(r, f.name) /\ r.headers[f.name] # f.value

\* addHeader: values of Connection are joined, any other value replaces the last one.
WithHeader(r, f) ==
    LET value == IF f.name = "connection" THEN Header(r, f.name) \o f.value ELSE f.value
    IN  [r EXCEPT !.headers = [n \in DOMAIN r.headers \cup {f.name} |->
                                 IF n = f.name THEN value ELSE r.headers[n]]]

\* The length a Content-Length declares, -1 when it is refused.
Decimal(digits) ==
    LET Value[i \in 0..Len(digits)] ==
          IF i = 0 THEN 0
          ELSE IF \/ Value[i - 1] = -1
                  \/ digits[i] \notin 0..9
                  \/ Value[i - 1] > (maxBodyLength - digits[i]) \div 10
               THEN -1 ELSE Value[i - 1] * 10 + digits[i]
    IN  IF digits = <<>> THEN -1 ELSE Value[Len(digits)]

\* At the empty line: how many bytes of body follow, -1 when the head is refused.
BodyLength(r) ==
    IF Has(r, "transfer-encoding") THEN -1
    ELSE IF Has(r, "content-length") THEN Decimal(r.headers["content-length"])
    ELSE IF r.method \in {"POST", "PUT"} THEN -1 ELSE 0

CurrentLine == FirstLine(buf)
Field == Meaning(FieldOf, CurrentLine)

\* What makes parseRequest return false.
Refused ==
    /\ HasLine(buf)
    /\ \/ context.state = "line" /\ Meaning(LineOf, CurrentLine) = Malformed
       \/ /\ context.state = "headers"
          /\ IF CurrentLine = <<>> THEN BodyLength(context.request) = -1
             ELSE IF Field = Malformed THEN TRUE ELSE Conflict(context.request, Field)

\* parseRequest has to wait for the next read.
Partial ==
    IF context.state = "body" THEN Len(buf) < context.request.contentLength ELSE ~HasLine(buf)

-----------------------------------------------------------------------------
(* TcpConnection (external) *)

\* send does nothing once shutdown was called or the peer is gone.
Send(entries) == sent' = IF conn = "up" THEN sent \o entries ELSE sent
Shutdown == conn' = IF conn = "up" THEN "closing" ELSE conn

\* stopProcessing, and the unread bytes are dropped.
Stop(c) == context' = [c EXCEPT !.stopped = TRUE] /\ buf' = <<>> /\ pc' = "idle"

-----------------------------------------------------------------------------
(* The peer *)

Init ==
    /\ plan \in Plans /\ delivered = 0 /\ buf = <<>> /\ pc = "idle"
    /\ context = NewContext /\ conn = "up" /\ stream = "none" /\ sent = <<>> /\ handled = <<>>

\* onMessage begins: the bytes of one read.  A stopped connection drops them.
Deliver(n) ==
    LET bytes == SubSeq(Wire(Len(plan)), delivered + 1, delivered + n)
    IN  /\ pc = "idle" /\ conn # "down"
        /\ delivered' = delivered + n
        /\ IF context.stopped
           THEN UNCHANGED <<buf, pc, context>>
           ELSE IF conn = "up"
           THEN buf' = buf \o bytes /\ pc' = "parse" /\ UNCHANGED context
           ELSE Stop(context)
        /\ UNCHANGED <<plan, conn, stream, sent, handled>>

\* The peer closes, or the connection breaks: onConnection with a dead connection.
PeerCloses ==
    /\ pc = "idle" /\ conn # "down"
    /\ conn' = "down"
    /\ UNCHANGED <<plan, delivered, buf, pc, context, stream, sent, handled>>

-----------------------------------------------------------------------------
(* parseRequest *)

\* A partial request must wait for the next message callback.
WaitForMore ==
    /\ pc = "parse" /\ Partial
    /\ pc' = "idle"
    /\ UNCHANGED <<plan, delivered, buf, context, conn, stream, sent, handled>>

Refusal == [kind |-> "refusal", request |-> Len(handled) + 1, close |-> TRUE]

\* parseRequest returned false: the fixed 400, and nothing more is read.
Reject ==
    /\ pc = "parse" /\ Refused
    /\ Send(<<Refusal>>) /\ Shutdown /\ Stop(context)
    /\ UNCHANGED <<plan, delivered, stream, handled>>

ProcessRequestLine ==
    /\ pc = "parse" /\ context.state = "line" /\ ~Partial /\ ~Refused
    /\ LET line == Meaning(LineOf, CurrentLine)
       IN  context' = [context EXCEPT !.state = "headers", !.request.method = line.method,
                                      !.request.path = line.path, !.request.version = line.version]
    /\ buf' = AfterLine(buf)
    /\ UNCHANGED <<plan, delivered, pc, conn, stream, sent, handled>>

AddHeader ==
    /\ pc = "parse" /\ context.state = "headers" /\ ~Partial /\ ~Refused /\ CurrentLine # <<>>
    /\ context' = [context EXCEPT !.request = WithHeader(@, Field)]
    /\ buf' = AfterLine(buf)
    /\ UNCHANGED <<plan, delivered, pc, conn, stream, sent, handled>>

EndHeaders ==
    /\ pc = "parse" /\ context.state = "headers" /\ ~Partial /\ ~Refused /\ CurrentLine = <<>>
    /\ LET length == BodyLength(context.request)
       IN  IF length > 0
           THEN /\ context' = [context EXCEPT !.state = "body", !.request.contentLength = length]
                /\ UNCHANGED pc
           ELSE context' = [context EXCEPT !.state = "gotAll"] /\ pc' = "request"
    /\ buf' = AfterLine(buf)
    /\ UNCHANGED <<plan, delivered, conn, stream, sent, handled>>

ReadBody ==
    LET n == context.request.contentLength
    IN  /\ pc = "parse" /\ context.state = "body" /\ ~Partial
        /\ context' = [context EXCEPT !.state = "gotAll", !.request.content = SubSeq(buf, 1, n)]
        /\ buf' = SubSeq(buf, n + 1, Len(buf)) /\ pc' = "request"
        /\ UNCHANGED <<plan, delivered, conn, stream, sent, handled>>

-----------------------------------------------------------------------------
(* onRequest and handleRequest *)

HasToken(r, token) == \E i \in 1..Len(Header(r, "connection")) : Header(r, "connection")[i] = token

\* The client wants the connection closed.
CloseAsked(r) ==
    HasToken(r, "close") \/ (r.version = "HTTP/1.0" /\ ~HasToken(r, "keep-alive"))

Handle == pc = "request" /\ handled' = Append(handled, context.request)

\* appendToBuffer: a response with its status, and whether it announces the close.
Answer(status, close) ==
    [kind |-> "answer", request |-> Len(handled) + 1, status |-> status, close |-> close]

\* Mutant: onMessage handles one request for each read.
RespondOnce(status, close) ==
    LET closes == close \/ CloseAsked(context.request)
    IN  /\ Send(<<Answer(status, closes)>>)
        /\ IF closes THEN Shutdown /\ Stop(Reset(context))
           ELSE context' = Reset(context) /\ pc' = "idle" /\ UNCHANGED <<buf, conn>>
        /\ UNCHANGED <<plan, delivered, stream>>

\* The end of onRequest for a response that is no stream, and of the loop's turn.
Respond(status, close) ==
    LET closes == close \/ CloseAsked(context.request)
    IN  /\ Send(<<Answer(status, closes)>>)
        /\ IF closes THEN Shutdown /\ Stop(Reset(context))
           ELSE /\ context' = Reset(context)
                /\ pc' = IF buf = <<>> THEN "idle" ELSE "parse"
                /\ UNCHANGED <<buf, conn>>
        /\ UNCHANGED <<plan, delivered, stream>>

Route(r) == <<r.method, r.path>>
Kind(r) == IF Route(r) \in DOMAIN handlers_ THEN handlers_[Route(r)] ELSE "none"

OriginAllowed(r) ==
    allowedOrigins = {} \/ "*" \in allowedOrigins
        \/ (Has(r, "origin") /\ \E o \in allowedOrigins : Header(r, "origin") = <<o>>)

PreflightStatus(r) == IF OriginAllowed(r) THEN 204 ELSE 403

\* CorsMiddleware::before throws its response: no handler runs, and the response
\* keeps HttpResponse's default, which closes.
PreflightRequest ==
    /\ Handle /\ context.request.method = "OPTIONS"
    /\ Respond(PreflightStatus(context.request), TRUE)

NotFound ==
    /\ Handle /\ context.request.method # "OPTIONS" /\ Kind(context.request) = "none"
    /\ Respond(404, TRUE)

\* A handler fills in the response, or fails and answers 400 itself.
HandlerReturns(status, close) ==
    /\ Handle /\ context.request.method # "OPTIONS" /\ Kind(context.request) # "none"
    /\ Respond(status, close)

\* A handler lets an exception out: handleRequest answers 500.
HandlerThrows ==
    /\ Handle /\ context.request.method # "OPTIONS" /\ Kind(context.request) # "none"
    /\ Respond(500, TRUE)

\* The callback itself throws, out of memory say: onMessage's handler of exceptions.
CallbackThrows ==
    /\ Handle
    /\ Send(<<Refusal>>) /\ Shutdown /\ Stop(context)
    /\ UNCHANGED <<plan, delivered, stream>>

StreamHead == [kind |-> "head", request |-> Len(handled) + 1, close |-> FALSE]

\* Mutant: the loop goes on with the bytes after the request.
TakeOverGoesOn ==
    /\ Handle /\ Kind(context.request) = "stream"
    /\ Send(<<StreamHead>>) /\ stream' = "running"
    /\ context' = Reset(context) /\ pc' = (IF buf = <<>> THEN "idle" ELSE "parse")
    /\ UNCHANGED <<plan, delivered, conn, buf>>

\* A chat handler starts a stream: it writes the head of the response and gives the
\* connection to a thread; onRequest sends nothing and the loop stops.
TakeOver ==
    /\ Handle /\ Kind(context.request) = "stream"
    /\ Send(<<StreamHead>>) /\ stream' = "running" /\ Stop(Reset(context))
    /\ UNCHANGED <<plan, delivered, conn>>

\* std::thread throws: the handler's catch fills in a 400, but the response is marked
\* as a stream by then, so onRequest does not send it.
TakeOverFails ==
    /\ Handle /\ Kind(context.request) = "stream"
    /\ Send(<<StreamHead>>) /\ stream' = "failed" /\ Stop(Reset(context))
    /\ UNCHANGED <<plan, delivered, conn>>

-----------------------------------------------------------------------------
(* The thread of a streaming handler *)

Event(kind) == [kind |-> kind, request |-> Len(handled), close |-> FALSE]
Tokens == {i \in 1..Len(sent) : sent[i].kind = "token"}

StreamToken ==
    /\ stream = "running" /\ Cardinality(Tokens) < MaxTokens
    /\ Send(<<Event("token")>>)
    /\ UNCHANGED <<plan, delivered, buf, pc, context, conn, stream, handled>>

\* Mutant: the connection is left open.
StreamEndOpen ==
    /\ stream = "running" /\ stream' = "done"
    /\ Send(<<Event("done")>>)
    /\ UNCHANGED <<plan, delivered, buf, pc, context, conn, handled>>

\* on_done and on_error: the last event, and the connection is closed.
StreamEnd ==
    /\ stream = "running" /\ stream' = "done"
    /\ Send(<<Event("done")>>) /\ Shutdown
    /\ UNCHANGED <<plan, delivered, buf, pc, context, handled>>

-----------------------------------------------------------------------------
Loop ==
    \/ WaitForMore \/ Reject \/ ProcessRequestLine \/ AddHeader \/ EndHeaders \/ ReadBody
    \/ PreflightRequest \/ NotFound \/ HandlerThrows \/ CallbackThrows \/ TakeOver
    \/ \E status \in {200, 400}, close \in BOOLEAN : HandlerReturns(status, close)

Next ==
    \/ \E n \in 1..(Len(Wire(Len(plan))) - delivered) : Deliver(n)
    \/ PeerCloses \/ Loop \/ TakeOverFails \/ StreamToken \/ StreamEnd

Spec == Init /\ [][Next]_vars

-----------------------------------------------------------------------------
(* What the bytes mean, said without the parser *)

Values(m, name) ==
    {FieldOf[m.fields[i]].value : i \in {j \in 1..Len(m.fields) : FieldOf[m.fields[j]].name = name}}

\* The number that digits write down.
Number(digits) ==
    LET Place[i \in 0..Len(digits)] == IF i = 0 THEN 1 ELSE 10 * Place[i - 1]
        Tail10[i \in 0..Len(digits)] ==
          IF i = 0 THEN 0 ELSE digits[Len(digits) + 1 - i] * Place[i - 1] + Tail10[i - 1]
    IN  Tail10[Len(digits)]

\* A message whose head the server must accept.  Its length is stated, once or several
\* times in the same words, when it has a body or its method may have one.
WellFormed(m) ==
    /\ LineOf[m.line] # Malformed
    /\ \A i \in 1..Len(m.fields) : FieldOf[m.fields[i]] # Malformed
    /\ Values(m, "transfer-encoding") = {}
    /\ LET lengths == Values(m, "content-length")
       IN  IF lengths = {} THEN LineOf[m.line].method \notin {"POST", "PUT"}
           ELSE \E digits \in lengths :
                  /\ lengths = {digits} /\ digits # <<>>
                  /\ \A i \in 1..Len(digits) : digits[i] \in 0..9
                  /\ Number(digits) <= maxBodyLength

\* The body is as long as the head says: that is what ends a message on the wire.
Framed(m) ==
    LET lengths == Values(m, "content-length")
    IN  IF lengths = {} THEN m.body = <<>> ELSE \A digits \in lengths : Len(m.body) = Number(digits)

IsSequence(v) == Len(v) \in Nat /\ v = [i \in 1..Len(v) |-> v[i]]

\* Behind a head that is refused anything may follow.
ASSUME PlanAssumption ==
    /\ \A p \in Plans : /\ p \in Seq([line : Text, fields : Seq(Text), body : Seq(Text \cup {CR, LF})])
                       /\ \A k \in 1..Len(p) : WellFormed(p[k]) => Framed(p[k])
    /\ \A t \in Text : FieldOf[t] # Malformed => IsSequence(FieldOf[t].value)

WantsClose(m) ==
    LET tokens == UNION {{v[i] : i \in 1..Len(v)} : v \in Values(m, "connection")}
    IN  "close" \in tokens \/ (LineOf[m.line].version = "HTTP/1.0" /\ "keep-alive" \notin tokens)

Matches(r, m) ==
    /\ <<r.method, r.path, r.version>> = <<LineOf[m.line].method, LineOf[m.line].path, LineOf[m.line].version>>
    /\ r.content = m.body
    /\ CloseAsked(r) = WantsClose(m)
    /\ DOMAIN r.headers = {FieldOf[m.fields[i]].name : i \in 1..Len(m.fields)}

\* The k-th message has been read to its last byte.
Arrived(k) == k <= Len(plan) /\ Len(Wire(k)) <= delivered

-----------------------------------------------------------------------------
(* Properties *)

\* The requests the application sees are the messages the peer sent, in order, with
\* their own fields and bodies, however the reads cut the bytes; no body becomes a
\* request.  While the connection is in use, every message that has arrived is handled
\* when onMessage returns, and a message is refused exactly when it is not well-formed.
RequestsAsSent ==
    /\ Len(handled) <= Len(plan)
    /\ \A k \in 1..Len(handled) : Arrived(k) /\ WellFormed(plan[k]) /\ Matches(handled[k], plan[k])
    /\ (pc = "idle" /\ ~context.stopped) => ~Arrived(Len(handled) + 1)
    /\ \A i \in 1..Len(sent) : (sent[i].kind = "refusal" /\ sent[i].request > Len(handled)) =>
          Len(handled) < Len(plan) /\ ~WellFormed(plan[Len(handled) + 1])

\* The i-th response answers the i-th request and is the only one; nothing follows a
\* response that announces the close; what a streaming thread writes follows the head
\* of its own response and nothing else is written after that head.  A client whose
\* request asked for the close is told of it.
AnswersInOrder ==
    /\ \A i \in 1..Len(sent) :
         /\ sent[i].kind \in {"answer", "refusal", "head"} => sent[i].request = i
         /\ sent[i].close => i = Len(sent)
         /\ sent[i].kind = "head" => \A j \in (i + 1)..Len(sent) : sent[j].kind \in {"token", "done"}
         /\ sent[i].kind \in {"token", "done"} => i > 1 /\ sent[i - 1].kind \in {"head", "token"}
         /\ sent[i].kind = "answer" => i <= Len(handled) /\ (CloseAsked(handled[i]) => sent[i].close)
    /\ pc # "request" => \A k \in 1..Len(handled) : k <= Len(sent) \/ conn = "down"

\* A connection from which onMessage takes no more requests is being closed, or a streaming
\* thread is going to close it, or that thread could not be started.
StopsForAReason == context.stopped /\ conn = "up" => stream \in {"running", "failed"}

\* "closing or handed to a streaming handler" (HttpContext.h): a connection from which
\* no more requests are taken is being closed, or a streaming thread will close it.
StoppedIsClosing == context.stopped /\ conn = "up" => stream = "running"

=============================================================================
