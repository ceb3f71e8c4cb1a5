------------------------ MODULE HttpConnectionProofs ------------------------
(***************************************************************************)
(* Proofs about HttpConnection, for any bytes of the peer, any routes and  *)
(* any number of requests: one response for each request, in order,        *)
(* nothing after a response that announces the close or hands the          *)
(* connection to a streaming thread, no connection that stops for no       *)
(* reason, and the application sees the messages the peer sent.            *)
(*                                                                         *)
(* The last needs to know what the recursive definitions (Lines, Wire,     *)
(* Decimal, Number) compute.  Induction is over sets of numbers: a number  *)
(* outside the set would be a least one (LeastNumber, InductionOnSet).     *)
(*                                                                         *)
(* The same lemmas carry the proof about the program's other reader of     *)
(* bytes that arrive in pieces, ModelStream, which is the last part.       *)
(***************************************************************************)
EXTENDS HttpConnection, ModelStream, WellFoundedInduction, TLAPS

-----------------------------------------------------------------------------
(* The inductive invariant *)

Entry ==
    [kind : {"answer"}, request : Nat, status : Nat, close : BOOLEAN]
      \cup [kind : {"refusal", "head", "token", "done"}, request : Nat, close : BOOLEAN]

IsSeq(h) == \E S : h \in Seq(S)

\* Of the requests only that there is a sequence of them; PlaceInv says the rest.
TypeInv ==
    /\ sent \in Seq(Entry) /\ IsSeq(handled)
    /\ pc \in {"idle", "parse", "request"} /\ conn \in {"up", "closing", "down"}
    /\ stream \in {"none", "running", "done", "failed"}
    /\ DOMAIN context = {"state", "request", "stopped"} /\ context.stopped \in BOOLEAN

\* AnswersInOrder, of one place.
InOrder(i) ==
    /\ sent[i].kind \in {"answer", "refusal", "head"} => sent[i].request = i
    /\ sent[i].close => i = Len(sent)
    /\ sent[i].kind = "head" => \A j \in (i + 1)..Len(sent) : sent[j].kind \in {"token", "done"}
    /\ sent[i].kind \in {"token", "done"} => i > 1 /\ sent[i - 1].kind \in {"head", "token"}
    /\ sent[i].kind = "answer" => i <= Len(handled) /\ (CloseAsked(handled[i]) => sent[i].close)

\* While requests are taken, each has been answered, and no answer announced a close.
Taking ==
    ~context.stopped =>
      /\ stream = "none" /\ conn # "closing" /\ Len(sent) = Len(handled)
      /\ \A i \in 1..Len(sent) : sent[i].kind = "answer" /\ ~sent[i].close

\* The loop of onMessage runs only on an open connection nobody else writes to.
Looping == pc # "idle" => conn = "up" /\ ~context.stopped

\* A streaming thread finds its own head or token last.
Streaming ==
    stream = "running" /\ conn = "up" =>
      /\ Len(sent) >= 1 /\ sent[Len(sent)].kind \in {"head", "token"}
      /\ \A i \in 1..Len(sent) : ~sent[i].close

Inv ==
    /\ TypeInv /\ Taking /\ Looping /\ Streaming /\ StopsForAReason
    /\ Len(handled) <= Len(sent)
    /\ \A i \in 1..Len(sent) : InOrder(i)

-----------------------------------------------------------------------------
(* Writing to the connection *)

LEMMA HandledGrows ==
    ASSUME IsSeq(handled), handled' = Append(handled, context.request)
    PROVE  /\ Len(handled) \in Nat /\ IsSeq(handled') /\ Len(handled') = Len(handled) + 1
           /\ handled'[Len(handled) + 1] = context.request
           /\ \A i \in 1..Len(handled) : handled'[i] = handled[i]
<1> DEFINE r == context.request
<1>1. PICK S : handled \in Seq(S)
  BY DEF IsSeq
<1>2. handled \in Seq(S \cup {r}) /\ r \in S \cup {r}
  BY <1>1
<1>3. handled' \in Seq(S \cup {r})
  BY <1>2
<1>4. IsSeq(handled')
  BY <1>3 DEF IsSeq
<1> QED BY <1>2, <1>4

LEMMA SentGrows ==
    ASSUME sent \in Seq(Entry), NEW e \in Entry, conn = "up", Send(<<e>>)
    PROVE  /\ sent' \in Seq(Entry) /\ Len(sent) \in Nat /\ Len(sent') = Len(sent) + 1
           /\ sent'[Len(sent) + 1] = e
           /\ \A i \in 1..Len(sent) : sent'[i] = sent[i]
BY DEF Send

\* An entry with its own number, of a request that is handled by it or of no request.
Responds(e) ==
    /\ e.kind \in {"answer", "refusal", "head"} /\ e.request = Len(handled) + 1
    /\ handled' = handled \/ handled' = Append(handled, context.request)
    /\ e.kind = "answer" => /\ handled' = Append(handled, context.request)
                            /\ CloseAsked(context.request) => e.close

\* What the loop writes comes in order.
LEMMA LoopSends ==
    ASSUME Inv, pc # "idle", NEW e \in Entry, Responds(e), Send(<<e>>)
    PROVE  /\ sent' \in Seq(Entry) /\ IsSeq(handled')
           /\ Len(sent') = Len(sent) + 1 /\ sent'[Len(sent')] = e
           /\ \A i \in 1..Len(sent) : sent'[i].kind = "answer" /\ ~sent'[i].close
           /\ Len(sent') \in Nat /\ Len(handled') <= Len(sent')
           /\ handled' = Append(handled, context.request) => Len(handled') = Len(sent')
           /\ \A i \in 1..Len(sent') : InOrder(i)'
<1>0. PICK n : n = Len(sent)
  OBVIOUS
<1>1. conn = "up" /\ ~context.stopped
  BY DEF Inv, Looping
<1>2. n = Len(handled) /\ \A i \in 1..n : sent[i].kind = "answer" /\ ~sent[i].close
  BY <1>0, <1>1 DEF Inv, Taking
<1>3. /\ sent' \in Seq(Entry) /\ n \in Nat /\ Len(sent') = n + 1 /\ sent'[n + 1] = e
      /\ \A i \in 1..n : sent'[i] = sent[i]
  BY <1>0, <1>1, SentGrows DEF Inv, TypeInv
<1>4. n \in Nat /\ IsSeq(handled)
  BY <1>3 DEF Inv, TypeInv
<1>6. /\ IsSeq(handled') /\ Len(handled') \in n..(n + 1)
      /\ \A i \in 1..n : handled'[i] = handled[i]
      /\ e.kind = "answer" => Len(handled') = n + 1 /\ handled'[n + 1] = context.request
      /\ handled' = Append(handled, context.request) => Len(handled') = n + 1
  <2>1. ASSUME handled' = Append(handled, context.request)
        PROVE  /\ IsSeq(handled') /\ Len(handled') = n + 1 /\ handled'[n + 1] = context.request
               /\ \A i \in 1..n : handled'[i] = handled[i]
    <3>1. /\ IsSeq(handled') /\ Len(handled') = Len(handled) + 1
          /\ handled'[Len(handled) + 1] = context.request
          /\ \A i \in 1..Len(handled) : handled'[i] = handled[i]
      BY <1>4, <2>1, HandledGrows, Zenon
    <3> QED BY <1>2, <3>1
  <2>2. CASE handled' = Append(handled, context.request)
    BY <1>4, <2>1, <2>2
  <2>3. CASE handled' = handled
    <3>1. IsSeq(handled') /\ Len(handled') = n /\ \A i \in 1..n : handled'[i] = handled[i]
      BY <1>2, <1>4, <2>3
    <3>2. e.kind = "answer" => handled' = Append(handled, context.request)
      BY DEF Responds
    <3> QED BY <1>4, <2>1, <3>1, <3>2
  <2> QED BY <2>2, <2>3 DEF Responds
<1>7. ASSUME NEW i \in 1..n PROVE InOrder(i)'
  <2>1. sent'[i] = sent[i] /\ sent[i].kind = "answer" /\ ~sent[i].close /\ InOrder(i)
    BY <1>2, <1>3, <1>7, <1>0 DEF Inv
  <2>2. i <= Len(handled') /\ handled'[i] = handled[i]
    BY <1>3, <1>6
  <2> QED BY <2>1, <2>2 DEF InOrder
<1>8. InOrder(n + 1)'
  <2>1. e.request = n + 1 /\ e.kind \in {"answer", "refusal", "head"}
    BY <1>2 DEF Responds
  <2>2. e.kind = "answer" => n + 1 <= Len(handled') /\ (CloseAsked(handled'[n + 1]) => e.close)
    BY <1>3, <1>6 DEF Responds
  <2> QED BY <1>3, <2>1, <2>2 DEF InOrder
<1>9. \A i \in 1..Len(sent') : i \in 1..n \/ i = n + 1
  BY <1>3
<1>10. \A i \in 1..Len(sent') : InOrder(i)'
  BY <1>7, <1>8, <1>9
<1> QED BY <1>0, <1>2, <1>3, <1>6, <1>10

-----------------------------------------------------------------------------
(* Reading and parsing *)

LEMMA InitInv == Init => Inv
<1> SUFFICES ASSUME Init PROVE Inv
  OBVIOUS
<1>1. sent = <<>> /\ handled = <<>> /\ Len(sent) = 0 /\ Len(handled) = 0
  BY DEF Init
<1>2. IsSeq(handled) /\ sent \in Seq(Entry)
  BY <1>1 DEF IsSeq
<1>3. context.stopped = FALSE /\ DOMAIN context = {"state", "request", "stopped"}
  BY DEF Init, NewContext
<1>4. conn = "up" /\ stream = "none" /\ pc = "idle"
  BY DEF Init
<1>5. TypeInv
  BY <1>2, <1>3, <1>4 DEF TypeInv
<1>6. 1..Len(sent) = {}
  BY <1>1
<1>7. Taking /\ Looping /\ Streaming /\ StopsForAReason
  BY <1>1, <1>3, <1>4, <1>6 DEF Taking, Looping, Streaming, StopsForAReason
<1> QED BY <1>1, <1>5, <1>6, <1>7 DEF Inv

\* A step that writes nothing and stops nothing.
LEMMA SilentInv ==
    ASSUME Inv, UNCHANGED <<conn, stream, sent, handled>>, DOMAIN context' = DOMAIN context,
           context'.stopped = context.stopped, pc' \in {"idle", "parse", "request"},
           pc' # "idle" => conn = "up" /\ ~context.stopped
    PROVE  Inv'
<1>1. \A i \in 1..Len(sent) : InOrder(i)'
  BY DEF Inv, InOrder
<1>2. TypeInv'
  BY DEF Inv, TypeInv
<1> QED BY <1>1, <1>2 DEF Inv, Taking, Looping, Streaming, StopsForAReason

LEMMA DeliverInv ==
    ASSUME Inv, NEW n, Deliver(n)
    PROVE  Inv'
<1>1. /\ pc = "idle" /\ conn # "down" /\ UNCHANGED <<conn, stream, sent, handled>>
      /\ IF context.stopped THEN UNCHANGED <<buf, pc, context>>
         ELSE IF conn = "up" THEN pc' = "parse" /\ UNCHANGED context ELSE Stop(context)
  BY DEF Deliver
<1>2. CASE context.stopped
  BY <1>1, <1>2, SilentInv
<1>3. CASE ~context.stopped
  <2>1. conn = "up"
    BY <1>1, <1>3 DEF Inv, TypeInv, Taking
  <2>2. pc' = "parse" /\ UNCHANGED context
    BY <1>1, <1>3, <2>1
  <2> QED BY <1>1, <1>3, <2>1, <2>2, SilentInv
<1> QED BY <1>2, <1>3

\* Nothing is written to a dead connection any more.
LEMMA PeerClosesInv == Inv /\ PeerCloses => Inv'
<1> SUFFICES ASSUME Inv, PeerCloses PROVE Inv'
  OBVIOUS
<1>1. pc = "idle" /\ conn' = "down" /\ UNCHANGED <<pc, context, stream, sent, handled>>
  BY DEF PeerCloses
<1>2. \A i \in 1..Len(sent) : InOrder(i)'
  BY <1>1 DEF Inv, InOrder
<1>3. TypeInv'
  BY <1>1 DEF Inv, TypeInv
<1> QED BY <1>1, <1>2, <1>3 DEF Inv, Taking, Looping, Streaming, StopsForAReason

LEMMA ParseInv ==
    ASSUME Inv, WaitForMore \/ ProcessRequestLine \/ AddHeader \/ EndHeaders \/ ReadBody
    PROVE  Inv'
<1>1. pc = "parse" /\ UNCHANGED <<conn, stream, sent, handled>>
  BY DEF WaitForMore, ProcessRequestLine, AddHeader, EndHeaders, ReadBody
<1>2. DOMAIN context = {"state", "request", "stopped"}
  BY DEF Inv, TypeInv
<1>3. DOMAIN context' = DOMAIN context /\ context'.stopped = context.stopped
  BY <1>2 DEF WaitForMore, ProcessRequestLine, AddHeader, EndHeaders, ReadBody
<1>4. pc' \in {"idle", "parse", "request"}
  BY <1>1 DEF WaitForMore, ProcessRequestLine, AddHeader, EndHeaders, ReadBody
<1>5. conn = "up" /\ ~context.stopped
  BY <1>1 DEF Inv, Looping
<1> QED BY <1>1, <1>3, <1>4, <1>5, SilentInv

-----------------------------------------------------------------------------
(* Responses *)

StoppedContext ==
    context'.stopped = TRUE /\ DOMAIN context' = {"state", "request", "stopped"} /\ pc' = "idle"

LEMMA StopStops ==
    ASSUME Inv, Stop(context) \/ Stop(Reset(context))
    PROVE  StoppedContext
<1>1. DOMAIN context = {"state", "request", "stopped"}
  BY DEF Inv, TypeInv
<1>2. DOMAIN Reset(context) = {"state", "request", "stopped"}
  BY <1>1 DEF Reset
<1> QED BY <1>1, <1>2 DEF Stop, StoppedContext

\* The last word on a connection: it is closed behind it.
LEMMA ClosingInv ==
    ASSUME Inv, pc # "idle", NEW e \in Entry, Responds(e), Send(<<e>>), Shutdown,
           StoppedContext, UNCHANGED stream
    PROVE  Inv'
<1>1. conn' = "closing"
  BY DEF Inv, Looping, Shutdown
<1>2. /\ sent' \in Seq(Entry) /\ IsSeq(handled') /\ Len(handled') <= Len(sent')
      /\ \A i \in 1..Len(sent') : InOrder(i)'
  BY LoopSends
<1>3. TypeInv'
  BY <1>1, <1>2 DEF Inv, TypeInv, StoppedContext
<1> QED BY <1>1, <1>2, <1>3
        DEF Inv, Taking, Looping, Streaming, StopsForAReason, StoppedContext

LEMMA RefusalInv == ASSUME Inv, Reject \/ CallbackThrows PROVE Inv'
<1>1. /\ pc # "idle" /\ Send(<<Refusal>>) /\ Shutdown /\ Stop(context) /\ UNCHANGED stream
      /\ handled' = handled \/ handled' = Append(handled, context.request)
  BY DEF Reject, CallbackThrows, Handle
<1>2. Len(handled) \in Nat
  BY DEF Inv, TypeInv, IsSeq
<1>3. Refusal \in Entry /\ Responds(Refusal)
  BY <1>1, <1>2 DEF Refusal, Entry, Responds
<1>4. StoppedContext
  BY <1>1, StopStops
<1> QED BY <1>1, <1>3, <1>4, ClosingInv

\* The end of onRequest, with or without the close.
LEMMA RespondInv ==
    ASSUME Inv, Handle, NEW code \in Nat, NEW close \in BOOLEAN, Respond(code, close)
    PROVE  Inv'
<1>1. PICK closes \in BOOLEAN : closes <=> close \/ CloseAsked(context.request)
  OBVIOUS
<1> DEFINE e == Answer(code, closes)
<1>2. pc = "request" /\ handled' = Append(handled, context.request)
  BY DEF Handle
<1>3. (close \/ CloseAsked(context.request)) = closes
  BY <1>1 DEF CloseAsked
<1>4. /\ Send(<<e>>) /\ UNCHANGED stream
      /\ IF closes THEN Shutdown /\ Stop(Reset(context))
         ELSE /\ context' = Reset(context) /\ pc' \in {"idle", "parse"}
              /\ UNCHANGED conn
  BY <1>3 DEF Respond
<1>5. Len(handled) \in Nat
  BY DEF Inv, TypeInv, IsSeq
<1>6. e \in Entry /\ e.kind = "answer" /\ e.request = Len(handled) + 1 /\ e.close = closes
  BY <1>5 DEF Answer, Entry
<1>7. Responds(e)
  BY <1>1, <1>2, <1>6 DEF Responds
<1> HIDE DEF e
<1>8. CASE closes = TRUE
  <2>1. Shutdown /\ StoppedContext
    BY <1>4, <1>8, StopStops
  <2> QED BY <1>2, <1>4, <1>6, <1>7, <2>1, ClosingInv
<1>9. CASE closes = FALSE
  <2>1. context' = Reset(context) /\ pc' \in {"idle", "parse"} /\ UNCHANGED conn
    BY <1>4, <1>9
  <2>2. DOMAIN context' = {"state", "request", "stopped"} /\ context'.stopped = context.stopped
    BY <2>1 DEF Reset, Inv, TypeInv
  <2>3. conn = "up" /\ ~context.stopped /\ stream = "none"
    BY <1>2 DEF Inv, Looping, Taking
  <2>4. /\ sent' \in Seq(Entry) /\ IsSeq(handled')
        /\ Len(sent') = Len(sent) + 1 /\ sent'[Len(sent')] = e
        /\ \A i \in 1..Len(sent) : sent'[i].kind = "answer" /\ ~sent'[i].close
        /\ Len(sent') \in Nat /\ Len(handled') <= Len(sent')
        /\ Len(handled') = Len(sent')
        /\ \A i \in 1..Len(sent') : InOrder(i)'
    BY <1>2, <1>4, <1>6, <1>7, LoopSends
  <2>5. \A i \in 1..Len(sent') : sent'[i].kind = "answer" /\ ~sent'[i].close
    <3>1. \A i \in 1..Len(sent') : i \in 1..Len(sent) \/ i = Len(sent')
      BY <2>4
    <3>2. e.kind = "answer" /\ ~e.close
      BY <1>6, <1>9
    <3> QED BY <2>4, <3>1, <3>2
  <2>6. TypeInv'
    BY <1>4, <2>1, <2>2, <2>4 DEF Inv, TypeInv
  <2> QED BY <1>4, <2>1, <2>2, <2>3, <2>4, <2>5, <2>6
          DEF Inv, Taking, Looping, Streaming, StopsForAReason
<1> QED BY <1>8, <1>9

\* A connection is handed to a streaming thread, or to one that could not be started.
LEMMA TakeOverInv == ASSUME Inv, TakeOver \/ TakeOverFails PROVE Inv'
<1>1. /\ pc = "request" /\ handled' = Append(handled, context.request)
      /\ Send(<<StreamHead>>) /\ stream' \in {"running", "failed"} /\ UNCHANGED conn
      /\ Stop(Reset(context))
  BY DEF TakeOver, TakeOverFails, Handle
<1>2. Len(handled) \in Nat
  BY DEF Inv, TypeInv, IsSeq
<1>3. /\ StreamHead \in Entry /\ StreamHead.kind = "head" /\ StreamHead.close = FALSE
      /\ Responds(StreamHead)
  BY <1>1, <1>2 DEF StreamHead, Entry, Responds
<1>4. StoppedContext
  BY <1>1, StopStops
<1>5. /\ sent' \in Seq(Entry) /\ IsSeq(handled')
      /\ Len(sent') = Len(sent) + 1 /\ sent'[Len(sent')] = StreamHead
      /\ \A i \in 1..Len(sent) : sent'[i].kind = "answer" /\ ~sent'[i].close
      /\ Len(sent') \in Nat /\ Len(handled') <= Len(sent')
      /\ \A i \in 1..Len(sent') : InOrder(i)'
  BY <1>1, <1>3, LoopSends
<1>6. TypeInv'
  BY <1>1, <1>4, <1>5 DEF Inv, TypeInv, StoppedContext
<1>7. Len(sent') >= 1 /\ \A i \in 1..Len(sent') : ~sent'[i].close
  <2>1. \A i \in 1..Len(sent') : i \in 1..Len(sent) \/ i = Len(sent')
    BY <1>5
  <2>2. Len(sent) \in Nat
    BY DEF Inv, TypeInv
  <2> QED BY <1>3, <1>5, <2>1, <2>2
<1> QED BY <1>1, <1>3, <1>4, <1>5, <1>6, <1>7
        DEF Inv, Taking, Looping, Streaming, StopsForAReason, StoppedContext

-----------------------------------------------------------------------------
(* The streaming thread *)

\* An event of the thread, if it still reaches the peer, follows its head or a token.
LEMMA EventInv ==
    ASSUME Inv, stream = "running", NEW kind \in {"token", "done"}, Send(<<Event(kind)>>),
           UNCHANGED <<pc, context, handled>>,
           \/ kind = "token" /\ UNCHANGED <<conn, stream>>
           \/ Shutdown /\ stream' = "done"
    PROVE  Inv'
<1> DEFINE e == Event(kind)
<1>1. Len(handled) \in Nat /\ Len(sent) \in Nat /\ Len(handled) <= Len(sent)
  BY DEF Inv, TypeInv, IsSeq
<1>2. e \in Entry /\ e.kind = kind /\ e.close = FALSE
  BY <1>1 DEF Event, Entry
<1> HIDE DEF e
<1>3. context.stopped
  BY DEF Inv, TypeInv, Taking
<1>4. pc = "idle"
  BY <1>3 DEF Inv, Looping
<1>5. CASE conn # "up"
  <2>1. sent' = sent /\ conn' = conn
    BY <1>5 DEF Send, Shutdown
  <2>2. \A i \in 1..Len(sent') : InOrder(i)'
    BY <2>1 DEF Inv, InOrder
  <2>3. TypeInv'
    BY <2>1 DEF Inv, TypeInv
  <2> QED BY <1>1, <1>3, <1>4, <1>5, <2>1, <2>2, <2>3
          DEF Inv, Taking, Looping, Streaming, StopsForAReason
<1>6. CASE conn = "up"
  <2>0. PICK n : n = Len(sent)
    OBVIOUS
  <2>1. /\ sent' \in Seq(Entry) /\ n \in Nat /\ Len(sent') = n + 1 /\ sent'[n + 1] = e
        /\ \A i \in 1..n : sent'[i] = sent[i]
    BY <1>2, <1>6, <2>0, SentGrows DEF Inv, TypeInv, e
  <2>2. n >= 1 /\ sent[n].kind \in {"head", "token"} /\ \A i \in 1..n : ~sent[i].close
    BY <1>6, <2>0 DEF Inv, Streaming
  <2>3. conn' = "up" \/ conn' = "closing"
    BY <1>6 DEF Shutdown
  <2>4. ASSUME NEW i \in 1..n PROVE InOrder(i)'
    <3>1. sent'[i] = sent[i] /\ InOrder(i) /\ ~sent[i].close
      BY <2>0, <2>1, <2>2 DEF Inv
    <3>2. \A j \in (i + 1)..Len(sent') : j \in (i + 1)..n \/ j = n + 1
      BY <2>1
    <3>3. sent[i].kind = "head" => \A j \in (i + 1)..Len(sent') : sent'[j].kind \in {"token", "done"}
      <4>1. ASSUME sent[i].kind = "head", NEW j \in (i + 1)..n PROVE sent'[j].kind \in {"token", "done"}
        <5>1. sent[j].kind \in {"token", "done"}
          BY <2>0, <3>1, <4>1 DEF InOrder
        <5> QED BY <2>1, <5>1
      <4> QED BY <1>2, <2>1, <3>2, <4>1
    <3>4. sent[i].kind \in {"token", "done"} => i > 1 /\ sent'[i - 1].kind \in {"head", "token"}
      <4>1. sent[i].kind \in {"token", "done"} => i > 1 /\ sent[i - 1].kind \in {"head", "token"}
        BY <3>1 DEF InOrder
      <4>2. i > 1 => i - 1 \in 1..n
        BY <2>1
      <4> QED BY <2>1, <4>1, <4>2
    <3>5. /\ sent[i].kind \in {"answer", "refusal", "head"} => sent[i].request = i
          /\ sent[i].kind = "answer" => i <= Len(handled) /\ (CloseAsked(handled[i]) => sent[i].close)
      BY <3>1 DEF InOrder
    <3> QED BY <3>1, <3>3, <3>4, <3>5 DEF InOrder
  <2>5. InOrder(n + 1)'
    <3>1. sent'[n].kind \in {"head", "token"} /\ n + 1 > 1 /\ (n + 1) - 1 = n
      BY <2>1, <2>2
    <3> QED BY <1>2, <2>1, <3>1 DEF InOrder
  <2>6. \A i \in 1..Len(sent') : i \in 1..n \/ i = n + 1
    BY <2>1
  <2>7. \A i \in 1..Len(sent') : InOrder(i)'
    BY <2>4, <2>5, <2>6
  <2>8. TypeInv'
    BY <2>1, <2>3 DEF Inv, TypeInv
  <2>9. \A i \in 1..Len(sent') : ~sent'[i].close
    BY <1>2, <2>1, <2>2, <2>6
  <2>10. Streaming'
    <3>1. conn' = "up" => kind = "token"
      BY <1>6 DEF Shutdown
    <3>2. Len(sent') >= 1 /\ (kind = "token" => sent'[Len(sent')].kind = "token")
      BY <1>2, <2>1
    <3> QED BY <2>9, <3>1, <3>2 DEF Streaming
  <2>11. StopsForAReason'
    BY <1>6 DEF StopsForAReason, Shutdown
  <2>12. Len(handled') <= Len(sent')
    BY <1>1, <2>0, <2>1
  <2> QED BY <1>3, <1>4, <2>7, <2>8, <2>10, <2>11, <2>12 DEF Inv, Taking, Looping
<1> QED BY <1>5, <1>6

-----------------------------------------------------------------------------
LEMMA LoopInv == Inv /\ Loop => Inv'
<1> SUFFICES ASSUME Inv, Loop PROVE Inv'
  OBVIOUS
<1>1. CASE WaitForMore \/ ProcessRequestLine \/ AddHeader \/ EndHeaders \/ ReadBody
  BY <1>1, ParseInv
<1>2. CASE Reject \/ CallbackThrows
  BY <1>2, RefusalInv
<1>3. CASE TakeOver
  BY <1>3, TakeOverInv
<1>4. CASE \/ PreflightRequest \/ NotFound \/ HandlerThrows
           \/ \E code \in {200, 400}, close \in BOOLEAN : HandlerReturns(code, close)
  <2>1. CASE PreflightRequest
    <3>1. PreflightStatus(context.request) \in Nat
      BY DEF PreflightStatus
    <3> QED BY <2>1, <3>1, RespondInv DEF PreflightRequest
  <2>2. CASE NotFound
    <3>1. 404 \in Nat /\ TRUE \in BOOLEAN
      OBVIOUS
    <3>2. Handle /\ Respond(404, TRUE)
      BY <2>2, Zenon DEF NotFound
    <3> QED BY <3>1, <3>2, RespondInv, Zenon
  <2>3. CASE HandlerThrows
    <3>1. 500 \in Nat /\ TRUE \in BOOLEAN
      OBVIOUS
    <3>2. Handle /\ Respond(500, TRUE)
      BY <2>3, Zenon DEF HandlerThrows
    <3> QED BY <3>1, <3>2, RespondInv, Zenon
  <2>4. ASSUME NEW code \in {200, 400}, NEW close \in BOOLEAN, HandlerReturns(code, close)
        PROVE  Inv'
    BY <2>4, RespondInv DEF HandlerReturns
  <2> QED BY <1>4, <2>1, <2>2, <2>3, <2>4
<1> QED BY <1>1, <1>2, <1>3, <1>4 DEF Loop

LEMMA NextInv == Inv /\ [Next]_vars => Inv'
<1> SUFFICES ASSUME Inv, [Next]_vars PROVE Inv'
  OBVIOUS
<1>1. CASE UNCHANGED vars
  <2>1. pc # "idle" => conn = "up" /\ ~context.stopped
    BY DEF Inv, Looping
  <2>2. pc' \in {"idle", "parse", "request"}
    BY <1>1 DEF vars, Inv, TypeInv
  <2> QED BY <1>1, <2>1, <2>2, SilentInv DEF vars
<1>2. CASE StreamToken
  BY <1>2, EventInv DEF StreamToken
<1>3. CASE StreamEnd
  BY <1>3, EventInv DEF StreamEnd
<1>4. CASE \E n \in 1..(Len(Wire(Len(plan))) - delivered) : Deliver(n)
  BY <1>4, DeliverInv
<1>5. CASE PeerCloses \/ Loop \/ TakeOverFails
  BY <1>5, PeerClosesInv, LoopInv, TakeOverInv
<1> QED BY <1>1, <1>2, <1>3, <1>4, <1>5 DEF Next

\* The invariant above holds in every reachable state.
THEOREM InvCorrect == Spec => []Inv
<1>1. Init => Inv
  BY InitInv
<1>2. Inv /\ [Next]_vars => Inv'
  BY NextInv
<1> QED BY <1>1, <1>2, PTL DEF Spec

\* However many requests a connection carries and however the reads cut them, responses
\* come one for each request and in order, nothing follows an announced close, and a
\* streaming thread never shares the connection with the loop of onMessage.
THEOREM AnswersCorrect == Spec => []AnswersInOrder
<1>1. Inv => AnswersInOrder
  <2> SUFFICES ASSUME Inv PROVE AnswersInOrder
    OBVIOUS
  <2>1. \A i \in 1..Len(sent) : InOrder(i)
    BY DEF Inv
  <2>2. Len(handled) \in Nat /\ Len(sent) \in Nat /\ Len(handled) <= Len(sent)
    BY DEF Inv, TypeInv, IsSeq
  <2>3. \A k \in 1..Len(handled) : k <= Len(sent)
    BY <2>2
  <2> QED BY <2>1, <2>3 DEF InOrder, AnswersInOrder
<1> QED BY <1>1, InvCorrect, PTL

\* onMessage stops taking requests only from a connection that is closed behind it or
\* that a streaming handler has taken over, whether or not its thread could be started.
THEOREM StopsCorrect == Spec => []StopsForAReason
<1>1. Inv => StopsForAReason
  BY DEF Inv
<1> QED BY <1>1, InvCorrect, PTL
-----------------------------------------------------------------------------
(* Induction on sets of numbers, and the functions that recursion over     *)
(* numbers defines                                                         *)

LEMMA LeastNumber ==
    ASSUME NEW T, T \subseteq Nat, T # {}
    PROVE  \E m \in T : \A n \in T : m <= n
<1>1. \E m \in T : \A n \in T : ~(<<n, m>> \in OpToRel(<, Nat))
  BY NatLessThanWellFounded, WFMin
<1>2. ASSUME NEW m \in T, NEW n \in T, ~(<<n, m>> \in OpToRel(<, Nat)) PROVE m <= n
  <2>1. m \in Nat /\ n \in Nat
    OBVIOUS
  <2>2. ~(n < m)
    BY <1>2, <2>1 DEF OpToRel
  <2> QED BY <2>1, <2>2
<1> QED BY <1>1, <1>2

LEMMA InductionOnSet ==
    ASSUME NEW P, 0 \in P, \A n \in Nat : n \in P => n + 1 \in P
    PROVE  Nat \subseteq P
<1> SUFFICES ASSUME NEW n \in Nat, n \notin P PROVE FALSE
  OBVIOUS
<1> DEFINE T == Nat \ P
<1>1. PICK m \in T : \A k \in T : m <= k
  BY LeastNumber
<1>2. m # 0 /\ m - 1 \in Nat
  OBVIOUS
<1>3. m - 1 \in P
  BY <1>1, <1>2
<1> QED BY <1>2, <1>3

Iterates(f, n, a, step) == f[0] = a /\ \A i \in 1..n : f[i] = step[i][f[i - 1]]

\* What step makes of a value i times, from a on, is a function.
LEMMA IterationExists ==
    ASSUME NEW n \in Nat, NEW S, NEW a \in S, NEW step \in [1..n -> [S -> S]]
    PROVE  \E f \in [0..n -> S] : Iterates(f, n, a, step)
<1> DEFINE Upto(m) == \E f \in [0..m -> S] : f[0] = a /\ \A i \in 1..m : f[i] = step[i][f[i - 1]]
           P == {m \in Nat : m <= n => Upto(m)}
<1>1. 0 \in P
  <2> DEFINE f == [i \in 0..0 |-> a]
  <2>1. f \in [0..0 -> S] /\ f[0] = a /\ \A i \in 1..0 : f[i] = step[i][f[i - 1]]
    OBVIOUS
  <2>2. Upto(0)
    BY <2>1
  <2> QED BY <2>2
<1>2. ASSUME NEW m \in Nat, m \in P PROVE m + 1 \in P
  <2> SUFFICES ASSUME m + 1 <= n PROVE Upto(m + 1)
    OBVIOUS
  <2>1. PICK f \in [0..m -> S] : f[0] = a /\ \A i \in 1..m : f[i] = step[i][f[i - 1]]
    BY <1>2
  <2> DEFINE last == step[m + 1][f[m]]
             g == [i \in 0..(m + 1) |-> IF i <= m THEN f[i] ELSE last]
  <2>2. step[m + 1] \in [S -> S] /\ f[m] \in S
    OBVIOUS
  <2>3. last \in S
    BY <2>2
  <2>4. g[m + 1] = last /\ \A i \in 0..m : g[i] = f[i]
    OBVIOUS
  <2> HIDE DEF last
  <2>5. g \in [0..(m + 1) -> S] /\ g[0] = a
    BY <2>1, <2>3
  <2> HIDE DEF g
  <2>6. \A i \in 1..(m + 1) : i = m + 1 \/ (i \in 1..m /\ i \in 0..m /\ i - 1 \in 0..m)
    OBVIOUS
  <2>7. ASSUME NEW i \in 1..(m + 1) PROVE g[i] = step[i][g[i - 1]]
    <3>1. CASE i = m + 1
      <4>1. g[i - 1] = f[m]
        BY <2>4, <3>1
      <4> QED BY <2>4, <3>1, <4>1 DEF last
    <3>2. CASE i # m + 1
      BY <2>1, <2>4, <2>6, <3>2
    <3> QED BY <3>1, <3>2
  <2> QED BY <2>5, <2>7
<1>3. Nat \subseteq P
  <2> HIDE DEF P
  <2> QED BY <1>1, <1>2, InductionOnSet
<1> QED BY <1>3 DEF Iterates

\* Values that each follow from the one before stay in a set they begin in.
LEMMA IterationStays ==
    ASSUME NEW n \in Nat, NEW S, NEW f, f[0] \in S,
           \A i \in 1..n : f[i - 1] \in S => f[i] \in S
    PROVE  f[n] \in S
<1> DEFINE P == {m \in Nat : m <= n => f[m] \in S}
<1>1. 0 \in P
  OBVIOUS
<1>2. ASSUME NEW m \in Nat, m \in P PROVE m + 1 \in P
  <2> SUFFICES ASSUME m + 1 <= n PROVE f[m + 1] \in S
    OBVIOUS
  <2>1. m + 1 \in 1..n /\ (m + 1) - 1 = m /\ f[m] \in S
    BY <1>2
  <2> QED BY <2>1
<1>3. Nat \subseteq P
  <2> HIDE DEF P
  <2> QED BY <1>1, <1>2, InductionOnSet
<1> QED BY <1>3

-----------------------------------------------------------------------------
(* What is where on the wire *)

Byte == Text \cup {CR, LF}
Message == [line : Text, fields : Seq(Text), body : Seq(Byte)]

LEMMA SameSeq ==
    ASSUME NEW S, NEW s \in Seq(S), NEW t \in Seq(S), Len(s) = Len(t),
           \A i \in 1..Len(s) : s[i] = t[i]
    PROVE  s = t
OBVIOUS

\* u is s with t behind it.
Joins(u, s, t) ==
    /\ Len(u) = Len(s) + Len(t) /\ Len(s) \in Nat /\ Len(t) \in Nat
    /\ \A i \in 1..Len(s) : u[i] = s[i]
    /\ \A i \in 1..Len(t) : u[Len(s) + i] = t[i]

LEMMA Joined ==
    ASSUME NEW S, NEW s \in Seq(S), NEW t \in Seq(S)
    PROVE  s \o t \in Seq(S) /\ Joins(s \o t, s, t)
BY DEF Joins

\* A sequence of bytes with a line of one symbol behind it.
LineBehind(s, t) == s \o <<t>> \o CRLF

LineJoins(u, s, t) ==
    /\ Len(s) \in Nat /\ Len(u) = Len(s) + 3 /\ \A i \in 1..Len(s) : u[i] = s[i]
    /\ u[Len(s) + 1] = t /\ u[Len(s) + 2] = CR /\ u[Len(s) + 3] = LF

LEMMA LineAdded ==
    ASSUME NEW s \in Seq(Byte), NEW t \in Text
    PROVE  LineBehind(s, t) \in Seq(Byte) /\ LineJoins(LineBehind(s, t), s, t)
<1>0. CRLF \in Seq(Byte) /\ Len(CRLF) = 2 /\ CRLF[1] = CR /\ CRLF[2] = LF
  BY DEF CRLF, Byte
<1>1. PICK c \in Seq(Byte) : c = CRLF /\ Len(c) = 2 /\ c[1] = CR /\ c[2] = LF
  BY <1>0, Zenon
<1>10. <<t>> \in Seq(Byte) /\ Len(<<t>>) = 1 /\ <<t>>[1] = t
  BY DEF Byte
<1>11. PICK w \in Seq(Byte) : w = <<t>> /\ Len(w) = 1 /\ w[1] = t
  BY <1>10, Zenon
<1>2. PICK v \in Seq(Byte) : v = s \o w /\ Joins(v, s, w)
  BY Joined
<1>3. PICK u \in Seq(Byte) : u = v \o c /\ Joins(u, v, c)
  BY Joined
<1>4. u = LineBehind(s, t)
  BY <1>1, <1>2, <1>3, <1>11 DEF LineBehind
<1>5. PICK n \in Nat : n = Len(s) /\ Len(v) = n + 1 /\ v[n + 1] = t /\ \A i \in 1..n : v[i] = s[i]
  <2>1. Len(s) \in Nat /\ Len(v) = Len(s) + 1 /\ \A i \in 1..Len(s) : v[i] = s[i]
    BY <1>2, <1>11 DEF Joins
  <2>2. v[Len(s) + 1] = w[1]
    <3>1. 1 \in 1..Len(w) /\ \A i \in 1..Len(w) : v[Len(s) + i] = w[i]
      BY <1>2, <1>11 DEF Joins
    <3> QED BY <3>1, Zenon
  <2> QED BY <1>11, <2>1, <2>2
<1>6. Len(u) = n + 3 /\ u[n + 2] = CR /\ u[n + 3] = LF /\ \A i \in 1..(n + 1) : u[i] = v[i]
  BY <1>1, <1>3, <1>5 DEF Joins
<1>7. n + 1 \in 1..(n + 1) /\ \A i \in 1..n : i \in 1..(n + 1)
  OBVIOUS
<1>8. LineJoins(u, s, t)
  BY <1>5, <1>6, <1>7 DEF LineJoins
<1> QED BY <1>4, <1>8

\* The recursion of Lines.
LEMMA LinesRead ==
    ASSUME NEW fields \in Seq(Text)
    PROVE  \E upto \in [0..Len(fields) -> Seq(Byte)] :
             /\ Lines(fields) = upto[Len(fields)] /\ upto[0] = <<>>
             /\ \A i \in 1..Len(fields) : upto[i] = LineBehind(upto[i - 1], fields[i])
<1> DEFINE n == Len(fields)
           G(f) == [i \in 0..n |-> IF i = 0 THEN <<>> ELSE LineBehind(f[i - 1], fields[i])]
           step == [i \in 1..n |-> [s \in Seq(Byte) |-> LineBehind(s, fields[i])]]
<1>1. n \in Nat /\ \A i \in 1..n : fields[i] \in Text
  OBVIOUS
<1>2. ASSUME NEW i \in 1..n, NEW s \in Seq(Byte) PROVE LineBehind(s, fields[i]) \in Seq(Byte)
  BY <1>1, LineAdded
<1>3. step \in [1..n -> [Seq(Byte) -> Seq(Byte)]]
  BY <1>2
<1>4. PICK f \in [0..n -> Seq(Byte)] : Iterates(f, n, <<>>, step)
  <2>1. <<>> \in Seq(Byte)
    OBVIOUS
  <2> HIDE DEF step, n
  <2> QED BY <1>1, <1>3, <2>1, IterationExists
<1>5. f = G(f)
  <2>1. ASSUME NEW i \in 0..n PROVE f[i] = G(f)[i]
    <3>1. CASE i = 0
      BY <1>4, <3>1 DEF Iterates
    <3>2. CASE i # 0
      <4>1. i \in 1..n /\ f[i - 1] \in Seq(Byte)
        BY <3>2
      <4>2. f[i] = step[i][f[i - 1]]
        BY <1>4, <4>1 DEF Iterates
      <4>3. step[i][f[i - 1]] = LineBehind(f[i - 1], fields[i])
        BY <4>1
      <4> HIDE DEF step
      <4> QED BY <3>2, <4>2, <4>3
    <3> QED BY <3>1, <3>2
  <2>2. DOMAIN f = 0..n
    OBVIOUS
  <2>3. \A i \in 0..n : f[i] = G(f)[i]
    BY <2>1
  <2> HIDE DEF n
  <2>4. G(f) = [i \in 0..n |-> G(f)[i]]
    OBVIOUS
  <2> QED BY <2>2, <2>3, <2>4
<1> DEFINE upto == CHOOSE h : h = G(h)
<1>6. upto = G(upto)
  BY <1>5
<1>7. Lines(fields) = upto[n]
  BY DEF Lines, LineBehind
<1> HIDE DEF upto
<1>8. upto[0] = <<>> /\ \A i \in 1..n : upto[i] = LineBehind(upto[i - 1], fields[i])
  <2> HIDE DEF n
  <2>1. \A i \in 0..n : upto[i] = IF i = 0 THEN <<>> ELSE LineBehind(upto[i - 1], fields[i])
    BY <1>6
  <2>2. 0 \in 0..n /\ \A i \in 1..n : i \in 0..n /\ i # 0
    BY <1>1
  <2> QED BY <2>1, <2>2, Zenon
<1>9. ASSUME NEW k \in 0..n PROVE upto[k] \in Seq(Byte)
  <2>1. \A i \in 1..k : upto[i - 1] \in Seq(Byte) => upto[i] \in Seq(Byte)
    <3> SUFFICES ASSUME NEW i \in 1..k, upto[i - 1] \in Seq(Byte) PROVE upto[i] \in Seq(Byte)
      OBVIOUS
    <3>1. i \in 1..n
      BY <1>1
    <3> QED BY <1>2, <1>8, <3>1
  <2>2. k \in Nat /\ upto[0] \in Seq(Byte)
    BY <1>1, <1>8
  <2> QED BY <2>1, <2>2, IterationStays, Zenon
<1>10. upto \in [0..n -> Seq(Byte)]
  <2> HIDE DEF n
  <2>1. DOMAIN upto = 0..n /\ upto = [i \in 0..n |-> upto[i]]
    BY <1>6
  <2> QED BY <1>9, <2>1
<1> QED BY <1>7, <1>8, <1>10

\* Each line takes three bytes.
LEMMA LinesPlaces ==
    ASSUME NEW fields \in Seq(Text)
    PROVE  /\ Lines(fields) \in Seq(Byte) /\ Len(Lines(fields)) = 3 * Len(fields)
           /\ \A j \in 1..Len(fields) :
                /\ Lines(fields)[3 * (j - 1) + 1] = fields[j]
                /\ Lines(fields)[3 * (j - 1) + 2] = CR /\ Lines(fields)[3 * (j - 1) + 3] = LF
<1>0. PICK n \in Nat : n = Len(fields)
  OBVIOUS
<1>1. PICK upto \in [0..n -> Seq(Byte)] :
         /\ Lines(fields) = upto[n] /\ upto[0] = <<>>
         /\ \A i \in 1..n : upto[i] = LineBehind(upto[i - 1], fields[i])
  BY <1>0, LinesRead
<1> DEFINE Good(i) ==
             /\ Len(upto[i]) = 3 * i
             /\ \A j \in 1..i : /\ upto[i][3 * (j - 1) + 1] = fields[j]
                                /\ upto[i][3 * (j - 1) + 2] = CR /\ upto[i][3 * (j - 1) + 3] = LF
           P == {i \in Nat : i <= n => Good(i)}
<1>2. 0 \in P
  BY <1>1
<1>3. ASSUME NEW i \in Nat, i \in P PROVE i + 1 \in P
  <2> SUFFICES ASSUME i + 1 <= n PROVE Good(i + 1)
    OBVIOUS
  <2>1. Good(i) /\ i \in 0..n /\ i + 1 \in 1..n /\ (i + 1) - 1 = i
    BY <1>3
  <2>2. PICK s : s = upto[i]
    OBVIOUS
  <2>3. PICK u : u = upto[i + 1]
    OBVIOUS
  <2>8. PICK t \in Text : t = fields[i + 1]
    BY <1>0, <2>1
  <2>4. s \in Seq(Byte) /\ u = LineBehind(s, t)
    <3>1. upto[i + 1] = LineBehind(upto[(i + 1) - 1], fields[i + 1])
      BY <1>1, <2>1, Zenon
    <3>2. upto[i] \in Seq(Byte)
      BY <2>1
    <3> QED BY <2>1, <2>2, <2>3, <2>8, <3>1, <3>2
  <2>5. /\ Len(u) = Len(s) + 3
        /\ \A l \in 1..Len(s) : u[l] = s[l]
        /\ u[Len(s) + 1] = fields[i + 1] /\ u[Len(s) + 2] = CR /\ u[Len(s) + 3] = LF
    <3>1. LineJoins(u, s, t)
      BY <2>4, LineAdded
    <3> QED BY <2>8, <3>1 DEF LineJoins
  <2>6. /\ Len(s) = 3 * i
        /\ \A j \in 1..i : s[3 * (j - 1) + 1] = fields[j] /\ s[3 * (j - 1) + 2] = CR /\ s[3 * (j - 1) + 3] = LF
    BY <2>1, <2>2
  <2>7. /\ Len(u) = 3 * (i + 1)
        /\ \A j \in 1..(i + 1) : u[3 * (j - 1) + 1] = fields[j] /\ u[3 * (j - 1) + 2] = CR /\ u[3 * (j - 1) + 3] = LF
    <3>1. Len(u) = 3 * (i + 1)
      BY <2>5, <2>6
    <3>2. ASSUME NEW j \in 1..(i + 1)
          PROVE  u[3 * (j - 1) + 1] = fields[j] /\ u[3 * (j - 1) + 2] = CR /\ u[3 * (j - 1) + 3] = LF
      <4>1. CASE j = i + 1
        <5>1. 3 * (j - 1) = Len(s)
          BY <2>6, <4>1
        <5> QED BY <2>5, <4>1, <5>1
      <4>2. CASE j # i + 1
        <5>1. PICK l \in Nat : l = 3 * (j - 1)
          BY <4>2
        <5>2. l + 1 \in 1..Len(s) /\ l + 2 \in 1..Len(s) /\ l + 3 \in 1..Len(s) /\ j \in 1..i
          BY <2>6, <4>2, <5>1
        <5>3. s[l + 1] = fields[j] /\ s[l + 2] = CR /\ s[l + 3] = LF
          BY <2>6, <5>1, <5>2
        <5>4. u[l + 1] = fields[j] /\ u[l + 2] = CR /\ u[l + 3] = LF
          BY <2>5, <5>2, <5>3
        <5> QED BY <5>1, <5>4
      <4> QED BY <4>1, <4>2
    <3> QED BY <3>1, <3>2
  <2> QED BY <2>3, <2>7
<1>4. Nat \subseteq P
  <2> HIDE DEF P
  <2>1. \A i \in Nat : i \in P => i + 1 \in P
    BY <1>3
  <2> QED BY <1>2, <2>1, InductionOnSet
<1>5. Good(n)
  <2>1. n \in P
    <3> HIDE DEF P
    <3> QED BY <1>4
  <2> HIDE DEF Good
  <2> QED BY <2>1
<1> QED BY <1>0, <1>1, <1>5

\* u is the message m, byte for byte.
Spells(u, m) ==
    /\ Len(u) = 3 * Len(m.fields) + 5 + Len(m.body)
    /\ u[1] = m.line /\ u[2] = CR /\ u[3] = LF
    /\ \A j \in 1..Len(m.fields) : u[3 * j + 1] = m.fields[j] /\ u[3 * j + 2] = CR /\ u[3 * j + 3] = LF
    /\ u[3 * Len(m.fields) + 4] = CR /\ u[3 * Len(m.fields) + 5] = LF
    /\ \A i \in 1..Len(m.body) : u[3 * Len(m.fields) + 5 + i] = m.body[i]

LEMMA EncodeSpells ==
    ASSUME NEW m \in Message
    PROVE  Encode(m) \in Seq(Byte) /\ Spells(Encode(m), m)
<1>0. m.line \in Text /\ m.fields \in Seq(Text) /\ m.body \in Seq(Byte)
  BY DEF Message
<1>1. CRLF \in Seq(Byte) /\ Len(CRLF) = 2 /\ CRLF[1] = CR /\ CRLF[2] = LF
  BY DEF CRLF, Byte
<1>2. PICK c \in Seq(Byte) : c = CRLF /\ Len(c) = 2 /\ c[1] = CR /\ c[2] = LF
  BY <1>1, Zenon
<1>3. <<m.line>> \in Seq(Byte) /\ Len(<<m.line>>) = 1 /\ <<m.line>>[1] = m.line
  BY <1>0 DEF Byte
<1>4. PICK w \in Seq(Byte) : w = <<m.line>> /\ Len(w) = 1 /\ w[1] = m.line
  BY <1>3, Zenon
<1>5. PICK f \in Nat : f = Len(m.fields)
  BY <1>0
<1>6. PICK lines \in Seq(Byte) :
         /\ lines = Lines(m.fields) /\ Len(lines) = 3 * f
         /\ \A j \in 1..f : /\ lines[3 * (j - 1) + 1] = m.fields[j]
                            /\ lines[3 * (j - 1) + 2] = CR /\ lines[3 * (j - 1) + 3] = LF
  BY <1>0, <1>5, LinesPlaces
<1>7. PICK content \in Seq(Byte) : content = m.body
  BY <1>0
<1>8. PICK a \in Seq(Byte) : a = w \o c /\ Joins(a, w, c)
  BY Joined
<1>9. PICK b \in Seq(Byte) : b = a \o lines /\ Joins(b, a, lines)
  BY Joined
<1>10. PICK d \in Seq(Byte) : d = b \o c /\ Joins(d, b, c)
  BY Joined
<1>11. PICK u \in Seq(Byte) : u = d \o content /\ Joins(u, d, content)
  BY Joined
<1>12. u = Encode(m)
  BY <1>2, <1>4, <1>6, <1>7, <1>8, <1>9, <1>10, <1>11 DEF Encode
<1>13. Len(a) = 3 /\ a[1] = m.line /\ a[2] = CR /\ a[3] = LF
  BY <1>2, <1>4, <1>8 DEF Joins
<1>14. /\ Len(b) = 3 * f + 3 /\ b[1] = m.line /\ b[2] = CR /\ b[3] = LF
       /\ \A i \in 1..(3 * f) : b[3 + i] = lines[i]
  <2>1. Len(lines) = 3 * f
    BY <1>6
  <2>2. /\ Len(b) = Len(a) + Len(lines) /\ \A i \in 1..Len(a) : b[i] = a[i]
        /\ \A i \in 1..Len(lines) : b[Len(a) + i] = lines[i]
    BY <1>9 DEF Joins
  <2> QED BY <1>13, <2>1, <2>2
<1>15. Len(d) = 3 * f + 5 /\ d[3 * f + 4] = CR /\ d[3 * f + 5] = LF /\ \A i \in 1..(3 * f + 3) : d[i] = b[i]
  BY <1>2, <1>10, <1>14 DEF Joins
<1>16. /\ Len(u) = 3 * f + 5 + Len(content) /\ \A i \in 1..(3 * f + 5) : u[i] = d[i]
       /\ \A i \in 1..Len(content) : u[3 * f + 5 + i] = content[i]
  BY <1>11, <1>15 DEF Joins
<1>17. \A i \in 1..(3 * f + 3) : u[i] = b[i]
  BY <1>15, <1>16
<1>18. ASSUME NEW j \in 1..f
       PROVE  u[3 * j + 1] = m.fields[j] /\ u[3 * j + 2] = CR /\ u[3 * j + 3] = LF
  <2>1. PICK p \in Nat : p = 3 * (j - 1)
    OBVIOUS
  <2>2. /\ p + 1 \in 1..(3 * f) /\ p + 2 \in 1..(3 * f) /\ p + 3 \in 1..(3 * f)
        /\ 3 + (p + 1) \in 1..(3 * f + 3) /\ 3 + (p + 2) \in 1..(3 * f + 3) /\ 3 + (p + 3) \in 1..(3 * f + 3)
    BY <2>1
  <2>3. lines[p + 1] = m.fields[j] /\ lines[p + 2] = CR /\ lines[p + 3] = LF
    BY <1>6, <2>1
  <2>4. u[3 + (p + 1)] = m.fields[j] /\ u[3 + (p + 2)] = CR /\ u[3 + (p + 3)] = LF
    BY <1>14, <1>17, <2>2, <2>3
  <2>5. 3 + (p + 1) = 3 * j + 1 /\ 3 + (p + 2) = 3 * j + 2 /\ 3 + (p + 3) = 3 * j + 3
    BY <2>1
  <2> QED BY <2>4, <2>5
<1>19. u[1] = m.line /\ u[2] = CR /\ u[3] = LF
  <2>1. 1 \in 1..(3 * f + 3) /\ 2 \in 1..(3 * f + 3) /\ 3 \in 1..(3 * f + 3)
    OBVIOUS
  <2> QED BY <1>14, <1>17, <2>1
<1>20. u[3 * f + 4] = CR /\ u[3 * f + 5] = LF
  <2>1. 3 * f + 4 \in 1..(3 * f + 5) /\ 3 * f + 5 \in 1..(3 * f + 5)
    OBVIOUS
  <2> QED BY <1>15, <1>16, <2>1
<1>21. Spells(u, m)
  BY <1>5, <1>7, <1>16, <1>18, <1>19, <1>20 DEF Spells
<1> QED BY <1>12, <1>21

\* The recursion of Wire.
LEMMA WireRead ==
    ASSUME plan \in Seq(Message)
    PROVE  /\ Wire(0) = <<>> /\ \A k \in 0..Len(plan) : Wire(k) \in Seq(Byte)
           /\ \A k \in 1..Len(plan) : Wire(k) = Wire(k - 1) \o Encode(plan[k])
<1> DEFINE n == Len(plan)
           G(f) == [i \in 0..n |-> IF i = 0 THEN <<>> ELSE f[i - 1] \o Encode(plan[i])]
           step == [i \in 1..n |-> [s \in Seq(Byte) |-> s \o Encode(plan[i])]]
<1>1. n \in Nat /\ \A i \in 1..n : plan[i] \in Message
  OBVIOUS
<1>2. ASSUME NEW i \in 1..n, NEW s \in Seq(Byte) PROVE s \o Encode(plan[i]) \in Seq(Byte)
  <2>1. Encode(plan[i]) \in Seq(Byte)
    BY <1>1, EncodeSpells
  <2> QED BY <2>1, Joined
<1>3. step \in [1..n -> [Seq(Byte) -> Seq(Byte)]]
  BY <1>2
<1>4. PICK f \in [0..n -> Seq(Byte)] : Iterates(f, n, <<>>, step)
  <2>1. <<>> \in Seq(Byte)
    OBVIOUS
  <2> HIDE DEF step, n
  <2> QED BY <1>1, <1>3, <2>1, IterationExists
<1>5. f = G(f)
  <2>1. ASSUME NEW i \in 0..n PROVE f[i] = G(f)[i]
    <3>1. CASE i = 0
      BY <1>4, <3>1 DEF Iterates
    <3>2. CASE i # 0
      <4>1. i \in 1..n /\ f[i - 1] \in Seq(Byte)
        BY <3>2
      <4>2. f[i] = step[i][f[i - 1]]
        BY <1>4, <4>1 DEF Iterates
      <4>3. step[i][f[i - 1]] = f[i - 1] \o Encode(plan[i])
        BY <4>1
      <4> HIDE DEF step
      <4> QED BY <3>2, <4>2, <4>3
    <3> QED BY <3>1, <3>2
  <2>2. DOMAIN f = 0..n
    OBVIOUS
  <2>3. \A i \in 0..n : f[i] = G(f)[i]
    BY <2>1
  <2> HIDE DEF n
  <2>4. G(f) = [i \in 0..n |-> G(f)[i]]
    OBVIOUS
  <2> QED BY <2>2, <2>3, <2>4
<1> DEFINE upto == CHOOSE h : h = G(h)
<1>6. upto = G(upto)
  BY <1>5
<1>7. \A k : Wire(k) = upto[k]
  BY DEF Wire
<1> HIDE DEF upto
<1>8. upto[0] = <<>> /\ \A i \in 1..n : upto[i] = upto[i - 1] \o Encode(plan[i])
  <2> HIDE DEF n
  <2>1. \A i \in 0..n : upto[i] = IF i = 0 THEN <<>> ELSE upto[i - 1] \o Encode(plan[i])
    BY <1>6
  <2>2. 0 \in 0..n /\ \A i \in 1..n : i \in 0..n /\ i # 0
    BY <1>1
  <2> QED BY <2>1, <2>2, Zenon
<1>9. ASSUME NEW k \in 0..n PROVE upto[k] \in Seq(Byte)
  <2>1. \A i \in 1..k : upto[i - 1] \in Seq(Byte) => upto[i] \in Seq(Byte)
    <3> SUFFICES ASSUME NEW i \in 1..k, upto[i - 1] \in Seq(Byte) PROVE upto[i] \in Seq(Byte)
      OBVIOUS
    <3>1. i \in 1..n
      BY <1>1
    <3> QED BY <1>2, <1>8, <3>1
  <2>2. k \in Nat /\ upto[0] \in Seq(Byte)
    BY <1>1, <1>8
  <2> QED BY <2>1, <2>2, IterationStays, Zenon
<1> QED BY <1>7, <1>8, <1>9

\* What was sent stays where it is when more is sent.
LEMMA WirePrefix ==
    ASSUME plan \in Seq(Message), NEW k \in 0..Len(plan), NEW l \in k..Len(plan)
    PROVE  Len(Wire(k)) <= Len(Wire(l)) /\ \A i \in 1..Len(Wire(k)) : Wire(l)[i] = Wire(k)[i]
<1>0. PICK n \in Nat : n = Len(plan)
  OBVIOUS
<1> DEFINE Good(j) == Len(Wire(k)) <= Len(Wire(j)) /\ \A i \in 1..Len(Wire(k)) : Wire(j)[i] = Wire(k)[i]
           P == {j \in Nat : k + j <= n => Good(k + j)}
<1>1. k \in Nat /\ k <= n /\ Wire(k) \in Seq(Byte) /\ Len(Wire(k)) \in Nat
  <2>1. Wire(k) \in Seq(Byte)
    BY WireRead
  <2> QED BY <1>0, <2>1
<1>2. 0 \in P
  <2>1. k + 0 = k /\ Good(k)
    BY <1>1
  <2> HIDE DEF Good
  <2> QED BY <2>1
<1>3. ASSUME NEW j \in Nat, j \in P PROVE j + 1 \in P
  <2> SUFFICES ASSUME k + (j + 1) <= n PROVE Good(k + (j + 1))
    OBVIOUS
  <2>1. PICK h \in Nat : h = k + j /\ h + 1 = k + (j + 1) /\ h \in 0..n /\ h + 1 \in 1..n /\ Good(h)
    <3>1. k + j <= n /\ k + j \in Nat
      BY <1>1
    <3>2. Good(k + j)
      BY <1>3, <3>1
    <3> HIDE DEF Good
    <3> QED BY <1>1, <3>1, <3>2
  <2>2. PICK s \in Seq(Byte) : s = Wire(h)
    BY <1>0, <2>1, WireRead
  <2>3. PICK e \in Seq(Byte) : e = Encode(plan[h + 1])
    <3>1. plan[h + 1] \in Message
      BY <1>0, <2>1
    <3> QED BY <3>1, EncodeSpells
  <2>4. Wire(h + 1) = s \o e
    <3>1. Wire(h + 1) = Wire((h + 1) - 1) \o Encode(plan[h + 1]) /\ (h + 1) - 1 = h
      BY <1>0, <2>1, WireRead
    <3> QED BY <2>2, <2>3, <3>1
  <2>5. PICK u : u = Wire(h + 1) /\ Joins(u, s, e)
    BY <2>4, Joined
  <2>6. Len(s) <= Len(u) /\ \A i \in 1..Len(s) : u[i] = s[i]
    BY <2>5 DEF Joins
  <2>7. Len(Wire(k)) <= Len(s) /\ \A i \in 1..Len(Wire(k)) : s[i] = Wire(k)[i]
    BY <2>1, <2>2
  <2>8. PICK c \in Nat : c = Len(Wire(k))
    BY <1>1
  <2>9. c <= Len(u) /\ \A i \in 1..c : u[i] = Wire(k)[i]
    <3>1. Len(u) \in Nat /\ Len(s) \in Nat
      BY <2>5 DEF Joins
    <3>2. \A i \in 1..c : i \in 1..Len(s)
      BY <2>7, <2>8, <3>1
    <3> QED BY <2>6, <2>7, <2>8, <3>1, <3>2
  <2>10. Good(h + 1)
    BY <2>5, <2>8, <2>9
  <2> HIDE DEF Good
  <2> QED BY <2>1, <2>10
<1>4. Nat \subseteq P
  <2> HIDE DEF P
  <2>1. \A i \in Nat : i \in P => i + 1 \in P
    BY <1>3
  <2> QED BY <1>2, <2>1, InductionOnSet
<1>5. PICK j \in Nat : l = k + j /\ k + j <= n
  <2>1. l - k \in Nat /\ l = k + (l - k)
    BY <1>0, <1>1
  <2> QED BY <1>0, <2>1
<1>6. j \in P
  <2> HIDE DEF P
  <2> QED BY <1>4
<1>7. Good(l)
  <2> HIDE DEF Good
  <2> QED BY <1>5, <1>6
<1> QED BY <1>7

All == Wire(Len(plan))

\* Where the bytes of a message are among all that is sent.
LEMMA OnTheWire ==
    ASSUME plan \in Seq(Message), NEW k \in Nat, k < Len(plan)
    PROVE  /\ plan[k + 1] \in Message /\ Spells(Encode(plan[k + 1]), plan[k + 1])
           /\ Len(Wire(k)) \in Nat /\ Len(All) \in Nat
           /\ Len(Wire(k + 1)) = Len(Wire(k)) + Len(Encode(plan[k + 1]))
           /\ Len(Wire(k + 1)) <= Len(All)
           /\ \A i \in 1..Len(Encode(plan[k + 1])) : All[Len(Wire(k)) + i] = Encode(plan[k + 1])[i]
<1>0. PICK n \in Nat : n = Len(plan) /\ k \in 0..n /\ k + 1 \in 1..n /\ k + 1 \in 0..n /\ n \in (k + 1)..n
  OBVIOUS
<1>1. plan[k + 1] \in Message
  BY <1>0
<1>2. PICK e \in Seq(Byte) : e = Encode(plan[k + 1]) /\ Spells(e, plan[k + 1])
  BY <1>1, EncodeSpells
<1>3. PICK s \in Seq(Byte) : s = Wire(k)
  BY <1>0, WireRead
<1>4. Wire(k + 1) = s \o e
  <2>1. Wire(k + 1) = Wire((k + 1) - 1) \o Encode(plan[k + 1]) /\ (k + 1) - 1 = k
    BY <1>0, WireRead
  <2> QED BY <1>2, <1>3, <2>1
<1>5. PICK u : u = Wire(k + 1) /\ Joins(u, s, e)
  BY <1>4, Joined
<1>6. Len(All) \in Nat
  <2>1. All \in Seq(Byte)
    BY <1>0, WireRead DEF All
  <2> QED BY <2>1
<1>7. PICK w : w = All
  OBVIOUS
<1>8. Len(u) <= Len(w) /\ \A i \in 1..Len(u) : w[i] = u[i]
  <2>1. Len(Wire(k + 1)) <= Len(Wire(n)) /\ \A i \in 1..Len(Wire(k + 1)) : Wire(n)[i] = Wire(k + 1)[i]
    BY <1>0, WirePrefix
  <2> QED BY <1>0, <1>5, <1>7, <2>1 DEF All
<1>9. /\ Len(s) \in Nat /\ Len(u) = Len(s) + Len(e)
      /\ \A i \in 1..Len(e) : Len(s) + i \in 1..Len(u) /\ u[Len(s) + i] = e[i]
  BY <1>5 DEF Joins
<1>10. \A i \in 1..Len(e) : w[Len(s) + i] = e[i]
  BY <1>8, <1>9
<1> QED BY <1>1, <1>2, <1>3, <1>5, <1>6, <1>7, <1>8, <1>9, <1>10

-----------------------------------------------------------------------------
(* The length that digits declare *)

LEMMA IsSequenceSeq ==
    ASSUME NEW v, IsSequence(v)
    PROVE  \E S : v \in Seq(S)
<1>1. PICK n \in Nat : n = Len(v) /\ v = [i \in 1..n |-> v[i]]
  BY DEF IsSequence
<1> DEFINE S == {v[i] : i \in 1..n}
<1>2. \A i \in 1..n : v[i] \in S
  OBVIOUS
<1> HIDE DEF S
<1>3. v \in [1..n -> S]
  BY <1>1, <1>2
<1>4. v \in Seq(S)
  BY <1>3
<1> QED BY <1>4

\* One digit more.
NextValue(x, d) ==
    IF x = -1 \/ d \notin 0..9 \/ x > (maxBodyLength - d) \div 10 THEN -1 ELSE x * 10 + d

LEMMA NextValueType ==
    ASSUME NEW x \in Int, NEW d
    PROVE  NextValue(x, d) \in Int
<1>1. CASE d \in 0..9
  BY <1>1 DEF NextValue
<1>2. CASE d \notin 0..9
  BY <1>2 DEF NextValue
<1> QED BY <1>1, <1>2

\* The recursion of Decimal.
LEMMA DecimalRead ==
    ASSUME NEW digits, NEW n \in Nat, n = Len(digits), digits # <<>>
    PROVE  \E value \in [0..n -> Int] :
             /\ Decimal(digits) = value[n] /\ value[0] = 0
             /\ \A i \in 1..n : value[i] = NextValue(value[i - 1], digits[i])
<1> DEFINE G(f) == [i \in 0..n |-> IF i = 0 THEN 0 ELSE NextValue(f[i - 1], digits[i])]
           step == [i \in 1..n |-> [x \in Int |-> NextValue(x, digits[i])]]
<1>1. step \in [1..n -> [Int -> Int]]
  BY NextValueType
<1>2. PICK f \in [0..n -> Int] : Iterates(f, n, 0, step)
  <2>1. 0 \in Int
    OBVIOUS
  <2> HIDE DEF step
  <2> QED BY <1>1, <2>1, IterationExists, Zenon
<1>3. f = G(f)
  <2>1. ASSUME NEW i \in 0..n PROVE f[i] = G(f)[i]
    <3>1. CASE i = 0
      BY <1>2, <3>1 DEF Iterates
    <3>2. CASE i # 0
      <4>1. i \in 1..n /\ f[i - 1] \in Int
        BY <3>2
      <4>2. f[i] = step[i][f[i - 1]]
        BY <1>2, <4>1 DEF Iterates
      <4>3. step[i][f[i - 1]] = NextValue(f[i - 1], digits[i])
        BY <4>1
      <4> HIDE DEF step
      <4> QED BY <3>2, <4>2, <4>3
    <3> QED BY <3>1, <3>2
  <2>2. DOMAIN f = 0..n
    OBVIOUS
  <2>3. \A i \in 0..n : f[i] = G(f)[i]
    BY <2>1
  <2>4. G(f) = [i \in 0..n |-> G(f)[i]]
    OBVIOUS
  <2> QED BY <2>2, <2>3, <2>4
<1> DEFINE value == CHOOSE h : h = G(h)
<1>4. value = G(value)
  BY <1>3
<1>5. Decimal(digits) = value[n]
  BY DEF Decimal, NextValue
<1> HIDE DEF value
<1>6. value[0] = 0 /\ \A i \in 1..n : value[i] = NextValue(value[i - 1], digits[i])
  <2>1. \A i \in 0..n : value[i] = IF i = 0 THEN 0 ELSE NextValue(value[i - 1], digits[i])
    BY <1>4
  <2>2. 0 \in 0..n /\ \A i \in 1..n : i \in 0..n /\ i # 0
    OBVIOUS
  <2> QED BY <2>1, <2>2, Zenon
<1>7. ASSUME NEW k \in 0..n PROVE value[k] \in Int
  <2>1. \A i \in 1..k : value[i - 1] \in Int => value[i] \in Int
    <3> SUFFICES ASSUME NEW i \in 1..k, value[i - 1] \in Int PROVE value[i] \in Int
      OBVIOUS
    <3>1. i \in 1..n
      OBVIOUS
    <3> QED BY <1>6, <3>1, NextValueType
  <2>2. k \in Nat /\ value[0] \in Int
    BY <1>6
  <2> QED BY <2>1, <2>2, IterationStays, Zenon
<1>8. value \in [0..n -> Int]
  <2>1. DOMAIN value = 0..n /\ value = [i \in 0..n |-> value[i]]
    BY <1>4
  <2> QED BY <1>7, <2>1
<1> QED BY <1>5, <1>6, <1>8

Digits(digits) == \A i \in 1..Len(digits) : digits[i] \in 0..9

\* The recursions of Number: the places, and what the last i digits count for.
Counts(digits, n, place, tail) ==
    /\ Number(digits) = tail[n] /\ place[0] = 1 /\ tail[0] = 0
    /\ \A i \in 1..n : /\ place[i] = 10 * place[i - 1]
                       /\ tail[i] = digits[n + 1 - i] * place[i - 1] + tail[i - 1]

LEMMA NumberRead ==
    ASSUME NEW digits, NEW n \in Nat, n = Len(digits), Digits(digits)
    PROVE  \E place \in [0..n -> Nat], tail \in [0..n -> Nat] : Counts(digits, n, place, tail)
<1> DEFINE GP(f) == [i \in 0..n |-> IF i = 0 THEN 1 ELSE 10 * f[i - 1]]
           stepP == [i \in 1..n |-> [x \in Nat |-> 10 * x]]
<1>1. PICK p \in [0..n -> Nat] : Iterates(p, n, 1, stepP)
  <2>1. stepP \in [1..n -> [Nat -> Nat]]
    OBVIOUS
  <2> HIDE DEF stepP
  <2> QED BY <2>1, IterationExists
<1>2. p = GP(p)
  <2>1. ASSUME NEW i \in 0..n PROVE p[i] = GP(p)[i]
    <3>1. CASE i = 0
      BY <1>1, <3>1 DEF Iterates
    <3>2. CASE i # 0
      <4>1. i \in 1..n /\ p[i - 1] \in Nat
        BY <3>2
      <4>2. p[i] = stepP[i][p[i - 1]]
        BY <1>1, <4>1 DEF Iterates
      <4>3. stepP[i][p[i - 1]] = 10 * p[i - 1]
        BY <4>1
      <4> HIDE DEF stepP
      <4> QED BY <3>2, <4>2, <4>3
    <3> QED BY <3>1, <3>2
  <2>2. DOMAIN p = 0..n
    OBVIOUS
  <2> QED BY <2>1, <2>2
<1> DEFINE place == CHOOSE h : h = GP(h)
<1>3. place = GP(place)
  BY <1>2
<1> DEFINE GT(f) == [i \in 0..n |-> IF i = 0 THEN 0 ELSE digits[n + 1 - i] * place[i - 1] + f[i - 1]]
           tail == CHOOSE h : h = GT(h)
<1>4. Number(digits) = tail[n]
  BY DEF Number
<1> HIDE DEF place
<1>5. place[0] = 1 /\ \A i \in 1..n : place[i] = 10 * place[i - 1]
  <2>1. \A i \in 0..n : place[i] = IF i = 0 THEN 1 ELSE 10 * place[i - 1]
    BY <1>3
  <2>2. 0 \in 0..n /\ \A i \in 1..n : i \in 0..n /\ i # 0
    OBVIOUS
  <2> QED BY <2>1, <2>2, Zenon
<1>6. place \in [0..n -> Nat]
  <2>1. ASSUME NEW k \in 0..n PROVE place[k] \in Nat
    <3>1. \A i \in 1..k : place[i - 1] \in Nat => place[i] \in Nat
      BY <1>5
    <3>2. k \in Nat /\ place[0] \in Nat
      BY <1>5
    <3> QED BY <3>1, <3>2, IterationStays, Zenon
  <2>2. DOMAIN place = 0..n /\ place = [i \in 0..n |-> place[i]]
    BY <1>3
  <2> QED BY <2>1, <2>2
<1> DEFINE stepT == [i \in 1..n |-> [x \in Nat |-> digits[n + 1 - i] * place[i - 1] + x]]
<1>7. ASSUME NEW i \in 1..n, NEW x \in Nat PROVE digits[n + 1 - i] * place[i - 1] + x \in Nat
  <2>1. n + 1 - i \in 1..n /\ i - 1 \in 0..n
    OBVIOUS
  <2>2. PICK d \in Nat : d = digits[n + 1 - i]
    BY <2>1 DEF Digits
  <2>3. PICK q \in Nat : q = place[i - 1]
    BY <1>6, <2>1
  <2>4. d * q + x \in Nat
    OBVIOUS
  <2> QED BY <2>2, <2>3, <2>4
<1>8. PICK t \in [0..n -> Nat] : Iterates(t, n, 0, stepT)
  <2>1. stepT \in [1..n -> [Nat -> Nat]]
    BY <1>7
  <2> HIDE DEF stepT
  <2> QED BY <2>1, IterationExists
<1>9. t = GT(t)
  <2>1. ASSUME NEW i \in 0..n PROVE t[i] = GT(t)[i]
    <3>1. CASE i = 0
      BY <1>8, <3>1 DEF Iterates
    <3>2. CASE i # 0
      <4>1. i \in 1..n /\ t[i - 1] \in Nat
        BY <3>2
      <4>2. t[i] = stepT[i][t[i - 1]]
        BY <1>8, <4>1 DEF Iterates
      <4>3. stepT[i][t[i - 1]] = digits[n + 1 - i] * place[i - 1] + t[i - 1]
        BY <4>1
      <4>4. GT(t)[i] = digits[n + 1 - i] * place[i - 1] + t[i - 1]
        BY <3>2
      <4> HIDE DEF stepT, GT
      <4> QED BY <4>2, <4>3, <4>4
    <3> QED BY <3>1, <3>2
  <2>2. DOMAIN t = 0..n
    OBVIOUS
  <2>3. DOMAIN GT(t) = 0..n /\ GT(t) = [i \in 0..n |-> GT(t)[i]] /\ t = [i \in 0..n |-> t[i]]
    OBVIOUS
  <2> HIDE DEF GT
  <2> QED BY <2>1, <2>3
<1>10. tail = GT(tail)
  BY <1>9
<1> HIDE DEF tail
<1>11. tail[0] = 0 /\ \A i \in 1..n : tail[i] = digits[n + 1 - i] * place[i - 1] + tail[i - 1]
  <2>1. \A i \in 0..n : tail[i] = IF i = 0 THEN 0 ELSE digits[n + 1 - i] * place[i - 1] + tail[i - 1]
    BY <1>10
  <2>2. 0 \in 0..n /\ \A i \in 1..n : i \in 0..n /\ i # 0
    OBVIOUS
  <2> QED BY <2>1, <2>2, Zenon
<1>12. tail \in [0..n -> Nat]
  <2>1. ASSUME NEW k \in 0..n PROVE tail[k] \in Nat
    <3>1. \A i \in 1..k : tail[i - 1] \in Nat => tail[i] \in Nat
      <4> SUFFICES ASSUME NEW i \in 1..k, tail[i - 1] \in Nat PROVE tail[i] \in Nat
        OBVIOUS
      <4>1. i \in 1..n
        OBVIOUS
      <4> QED BY <1>7, <1>11, <4>1
    <3>2. k \in Nat /\ tail[0] \in Nat
      BY <1>11
    <3> QED BY <3>1, <3>2, IterationStays, Zenon
  <2>2. DOMAIN tail = 0..n /\ tail = [i \in 0..n |-> tail[i]]
    BY <1>10
  <2> QED BY <2>1, <2>2
<1>13. Counts(digits, n, place, tail)
  BY <1>4, <1>5, <1>11 DEF Counts
<1> QED BY <1>6, <1>12, <1>13

\* Decimal accepts the digits of a number up to the limit, and returns it: an overflow
\* seen at a prefix is an overflow of the whole.
LEMMA DecimalIs ==
    ASSUME NEW digits, NEW n \in Nat, n = Len(digits), digits # <<>>
    PROVE  /\ Digits(digits) => Number(digits) \in Nat
           /\ Decimal(digits) =
                IF Digits(digits) /\ Number(digits) <= maxBodyLength THEN Number(digits) ELSE -1
<1>1. PICK value \in [0..n -> Int] :
         /\ Decimal(digits) = value[n] /\ value[0] = 0
         /\ \A i \in 1..n : value[i] = NextValue(value[i - 1], digits[i])
  BY DecimalRead
<1>2. CASE ~Digits(digits)
  <2>1. PICK j \in 1..n : digits[j] \notin 0..9
    BY <1>2 DEF Digits
  <2> DEFINE P == {i \in Nat : j + i <= n => value[j + i] = -1}
  <2>2. 0 \in P
    <3>1. value[j] = NextValue(value[j - 1], digits[j])
      BY <1>1
    <3>2. value[j] = -1
      BY <2>1, <3>1 DEF NextValue
    <3> QED BY <3>2
  <2>3. ASSUME NEW i \in Nat, i \in P PROVE i + 1 \in P
    <3> SUFFICES ASSUME j + (i + 1) <= n PROVE value[j + (i + 1)] = -1
      OBVIOUS
    <3>1. PICK h \in 0..n : h = j + i /\ h + 1 = j + (i + 1) /\ h + 1 \in 1..n /\ (h + 1) - 1 = h
      OBVIOUS
    <3>2. value[h] = -1
      BY <2>3, <3>1
    <3>3. value[h + 1] = NextValue(value[(h + 1) - 1], digits[h + 1])
      BY <1>1, <3>1, Zenon
    <3>4. value[h + 1] = -1
      BY <3>1, <3>2, <3>3 DEF NextValue
    <3> QED BY <3>1, <3>4
  <2>4. Nat \subseteq P
    <3> HIDE DEF P
    <3>1. \A i \in Nat : i \in P => i + 1 \in P
      BY <2>3
    <3> QED BY <2>2, <3>1, InductionOnSet
  <2>5. n - j \in Nat /\ j + (n - j) = n
    OBVIOUS
  <2>6. value[n] = -1
    BY <2>4, <2>5
  <2> QED BY <1>1, <1>2, <2>6
<1>3. CASE Digits(digits)
  <2>9. PICK place \in [0..n -> Nat], tail \in [0..n -> Nat] : Counts(digits, n, place, tail)
    BY <1>3, NumberRead
  <2>1. /\ Number(digits) = tail[n] /\ place[0] = 1 /\ tail[0] = 0
        /\ \A i \in 1..n : /\ place[i] = 10 * place[i - 1]
                           /\ tail[i] = digits[n + 1 - i] * place[i - 1] + tail[i - 1]
    BY <2>9 DEF Counts
  <2>2. PICK number \in Nat : number = tail[n]
    OBVIOUS
  <2>3. ASSUME NEW k \in 0..n PROVE place[k] >= 1
    <3> DEFINE S == {x \in Nat : x >= 1}
    <3>1. \A i \in 1..k : place[i - 1] \in S => place[i] \in S
      BY <2>1
    <3>2. k \in Nat /\ place[0] \in S
      BY <2>1
    <3>3. place[k] \in S
      <4> HIDE DEF S
      <4> QED BY <3>1, <3>2, IterationStays, Zenon
    <3> QED BY <3>3
  \* What is left of the number once the first k digits are read.
  <2> DEFINE Left(k) ==
               \/ value[k] = -1 /\ number > maxBodyLength
               \/ /\ value[k] \in Nat /\ value[k] <= maxBodyLength
                  /\ value[k] * place[n - k] + tail[n - k] = number
             P == {k \in Nat : k <= n => Left(k)}
  <2>4. 0 \in P
    <3>1. n - 0 = n /\ place[n] \in Nat /\ 0 * place[n] + tail[n] = number
      BY <2>2
    <3>2. value[0] = 0 /\ 0 <= maxBodyLength
      BY <1>1, LengthAssumption
    <3>3. Left(0)
      BY <3>1, <3>2
    <3> HIDE DEF Left
    <3> QED BY <3>3
  <2>5. ASSUME NEW k \in Nat, k \in P PROVE k + 1 \in P
    <3> SUFFICES ASSUME k + 1 <= n PROVE Left(k + 1)
      OBVIOUS
    <3>1. Left(k) /\ k + 1 \in 1..n /\ (k + 1) - 1 = k /\ k \in 0..n
      BY <2>5
    <3>2. PICK d \in 0..9 : d = digits[k + 1]
      BY <1>3, <3>1 DEF Digits
    <3>3. PICK v \in Int : v = value[k]
      BY <3>1
    <3>4. value[k + 1] = NextValue(v, d)
      <4>1. value[k + 1] = NextValue(value[(k + 1) - 1], digits[k + 1])
        BY <1>1, <3>1, Zenon
      <4> QED BY <3>1, <3>2, <3>3, <4>1
    <3>13. PICK l \in Nat : l = n - (k + 1)
      <4>1. n - (k + 1) \in Nat
        OBVIOUS
      <4> QED BY <4>1
    <3>5. /\ l = n - (k + 1) /\ l + 1 = n - k /\ n + 1 - (l + 1) = k + 1
          /\ l + 1 \in 1..n /\ l \in 0..n /\ (l + 1) - 1 = l
      BY <3>13
    <3>6. PICK q \in Nat : q = place[l]
      BY <3>5
    <3>7. PICK r \in Nat : r = tail[l]
      BY <3>5
    <3>8. q >= 1
      BY <2>3, <3>5, <3>6
    <3>9. place[n - k] = 10 * q /\ tail[n - k] = d * q + r
      <4>1. /\ place[l + 1] = 10 * place[(l + 1) - 1]
            /\ tail[l + 1] = digits[n + 1 - (l + 1)] * place[(l + 1) - 1] + tail[(l + 1) - 1]
        BY <2>1, <3>5, Zenon
      <4> QED BY <3>2, <3>5, <3>6, <3>7, <4>1
    <3>10. \/ v = -1 /\ number > maxBodyLength
           \/ v \in Nat /\ v <= maxBodyLength /\ v * (10 * q) + (d * q + r) = number
      BY <3>1, <3>3, <3>9
    <3>11. CASE v = -1
      <4>1. value[k + 1] = -1 /\ number > maxBodyLength
        BY <3>4, <3>10, <3>11 DEF NextValue
      <4> QED BY <4>1
    <3>12. CASE v # -1
      <4>1. v \in Nat /\ v * (10 * q) + (d * q + r) = number
        BY <3>10, <3>12
      <4>2. PICK x \in Nat : x = v * 10 + d
        BY <4>1
      <4>3. number = x * q + r
        BY <4>1, <4>2
      <4>4. x > maxBodyLength <=> v > (maxBodyLength - d) \div 10
        BY <4>1, <4>2, LengthAssumption
      <4>5. CASE x > maxBodyLength
        <5>1. value[k + 1] = -1
          BY <3>4, <4>4, <4>5 DEF NextValue
        <5>2. x * q >= x
          BY <3>8
        <5>3. x * q \in Nat
          OBVIOUS
        <5>4. number > maxBodyLength
          BY <4>3, <4>5, <5>2, <5>3, LengthAssumption
        <5> QED BY <5>1, <5>4
      <4>6. CASE ~(x > maxBodyLength)
        <5>1. NextValue(v, d) = x
          BY <3>12, <4>1, <4>2, <4>4, <4>6 DEF NextValue
        <5>2. value[k + 1] \in Nat /\ value[k + 1] <= maxBodyLength
          BY <3>4, <4>6, <5>1, LengthAssumption
        <5>3. value[k + 1] * place[n - (k + 1)] + tail[n - (k + 1)] = number
          BY <3>4, <3>5, <3>6, <3>7, <4>3, <5>1
        <5> QED BY <5>2, <5>3
      <4> QED BY <4>5, <4>6
    <3> QED BY <3>11, <3>12
  <2>6. Nat \subseteq P
    <3> HIDE DEF P
    <3>1. \A i \in Nat : i \in P => i + 1 \in P
      BY <2>5
    <3> QED BY <2>4, <3>1, InductionOnSet
  <2>7. Left(n)
    <3>1. n \in P
      <4> HIDE DEF P
      <4> QED BY <2>6
    <3> HIDE DEF Left
    <3> QED BY <3>1
  <2>8. \/ value[n] = -1 /\ number > maxBodyLength
        \/ value[n] \in Nat /\ value[n] <= maxBodyLength /\ value[n] = number
    <3>1. n - n = 0 /\ place[0] = 1 /\ tail[0] = 0
      BY <2>1
    <3>2. value[n] \in Nat => value[n] * place[n - n] + tail[n - n] = value[n]
      BY <3>1
    <3> QED BY <2>7, <3>2
  <2> QED BY <1>1, <1>3, <2>1, <2>2, <2>8, LengthAssumption
<1> QED BY <1>2, <1>3

-----------------------------------------------------------------------------
(* What the header lines read so far say *)

FieldAt(m, i) == FieldOf[m.fields[i]]
Contains(s, x) == \E i \in 1..Len(s) : s[i] = x

\* Some of the first j header lines has this name and its value contains x.
Mentions(m, j, name, x) == \E i \in 1..j : FieldAt(m, i).name = name /\ Contains(FieldAt(m, i).value, x)

RequestFields == {"method", "version", "path", "headers", "contentLength", "content"}

\* The request says what the request line and the first j header lines say.
ReadHead(r, m, j) ==
    /\ DOMAIN r = RequestFields /\ r.content = <<>>
    /\ LineOf[m.line] # Malformed
    /\ r.method = LineOf[m.line].method /\ r.path = LineOf[m.line].path
    /\ r.version = LineOf[m.line].version
    /\ \A i \in 1..j : FieldAt(m, i) # Malformed
    /\ DOMAIN r.headers = {FieldAt(m, i).name : i \in 1..j}
    /\ \A i \in 1..j : FieldAt(m, i).name = "content-length" => r.headers["content-length"] = FieldAt(m, i).value
    /\ IsSequence(Header(r, "connection"))
    /\ \A x : Contains(Header(r, "connection"), x) <=> Mentions(m, j, "connection", x)

LEMMA SequencesJoin ==
    ASSUME NEW s, NEW t, IsSequence(s), IsSequence(t)
    PROVE  IsSequence(s \o t) /\ \A x : Contains(s \o t, x) <=> Contains(s, x) \/ Contains(t, x)
<1>1. PICK A : s \in Seq(A)
  BY IsSequenceSeq
<1>2. PICK B : t \in Seq(B)
  BY IsSequenceSeq
<1>3. PICK S : S = A \cup B
  OBVIOUS
<1>4. s \in Seq(S) /\ t \in Seq(S)
  BY <1>1, <1>2, <1>3
<1>5. PICK u \in Seq(S) : u = s \o t /\ Joins(u, s, t)
  BY <1>4, Joined
<1>6. IsSequence(u)
  BY DEF IsSequence
<1>7. ASSUME NEW x PROVE Contains(u, x) <=> Contains(s, x) \/ Contains(t, x)
  <2>0. PICK a \in Nat, b \in Nat : a = Len(s) /\ b = Len(t) /\ Len(u) = a + b
    BY <1>5 DEF Joins
  <2>1. (\A i \in 1..a : u[i] = s[i]) /\ (\A i \in 1..b : u[a + i] = t[i])
    BY <1>5, <2>0 DEF Joins
  <2>2. ASSUME NEW i \in 1..(a + b), u[i] = x PROVE Contains(s, x) \/ Contains(t, x)
    <3>1. CASE i <= a
      <4>1. i \in 1..a /\ s[i] = x
        BY <2>1, <2>2, <3>1
      <4> QED BY <2>0, <4>1 DEF Contains
    <3>2. CASE ~(i <= a)
      <4>1. PICK l \in 1..b : i = a + l
        <5>1. i - a \in 1..b /\ i = a + (i - a)
          BY <3>2
        <5> QED BY <5>1
      <4>2. t[l] = x
        BY <2>1, <2>2, <4>1
      <4> QED BY <2>0, <4>2 DEF Contains
    <3> QED BY <3>1, <3>2
  <2>3. ASSUME NEW i \in 1..a, s[i] = x PROVE Contains(u, x)
    <3>1. i \in 1..Len(u) /\ u[i] = x
      BY <2>0, <2>1, <2>3
    <3> QED BY <3>1 DEF Contains
  <2>4. ASSUME NEW i \in 1..b, t[i] = x PROVE Contains(u, x)
    <3>1. a + i \in 1..Len(u) /\ u[a + i] = x
      BY <2>0, <2>1, <2>4
    <3> QED BY <3>1 DEF Contains
  <2>5. (Contains(s, x) <=> \E i \in 1..a : s[i] = x) /\ (Contains(t, x) <=> \E i \in 1..b : t[i] = x)
    BY <2>0 DEF Contains
  <2>6. Contains(u, x) <=> \E i \in 1..(a + b) : u[i] = x
    BY <2>0 DEF Contains
  <2> QED BY <2>2, <2>3, <2>4, <2>5, <2>6
<1> QED BY <1>5, <1>6, <1>7

\* Behind the request line nothing is known of the fields.
LEMMA HeadStarts ==
    ASSUME NEW r, NEW m, DOMAIN r = RequestFields, LineOf[m.line] # Malformed,
           r.method = LineOf[m.line].method, r.path = LineOf[m.line].path,
           r.version = LineOf[m.line].version, r.content = <<>>, r.headers = EmptyRequest.headers
    PROVE  ReadHead(r, m, 0)
<1>1. DOMAIN r.headers = {}
  BY DEF EmptyRequest
<1>2. Header(r, "connection") = <<>>
  BY <1>1 DEF Header, Has
<1>3. IsSequence(<<>>) /\ \A x : ~Contains(<<>>, x)
  BY DEF IsSequence, Contains
<1>4. \A i \in 1..0 : FALSE
  OBVIOUS
<1>5. {FieldAt(m, i).name : i \in 1..0} = {}
  BY <1>4
<1>6. \A x : Contains(Header(r, "connection"), x) <=> Mentions(m, 0, "connection", x)
  BY <1>2, <1>3, <1>4 DEF Mentions
<1> QED BY <1>1, <1>2, <1>3, <1>4, <1>5, <1>6 DEF ReadHead

LEMMA HeadOfOther ==
    ASSUME NEW r, NEW q, NEW m, NEW j, ReadHead(r, m, j), DOMAIN q = RequestFields,
           q.method = r.method, q.path = r.path, q.version = r.version, q.content = r.content,
           q.headers = r.headers
    PROVE  ReadHead(q, m, j)
<1>1. Header(q, "connection") = Header(r, "connection")
  BY DEF Header, Has
<1> QED BY <1>1 DEF ReadHead

\* One header line more.
LEMMA HeadGrows ==
    ASSUME NEW m \in Message, NEW j \in Nat, j < Len(m.fields), NEW r, ReadHead(r, m, j),
           FieldAt(m, j + 1) # Malformed, ~Conflict(r, FieldAt(m, j + 1)),
           IsSequence(FieldAt(m, j + 1).value)
    PROVE  ReadHead(WithHeader(r, FieldAt(m, j + 1)), m, j + 1)
<1>1. PICK f : f = FieldAt(m, j + 1)
  OBVIOUS
<1>2. PICK value : value = IF f.name = "connection" THEN Header(r, f.name) \o f.value ELSE f.value
  OBVIOUS
<1>3. PICK h : h = [n \in DOMAIN r.headers \cup {f.name} |-> IF n = f.name THEN value ELSE r.headers[n]]
  OBVIOUS
<1>4. PICK q : q = [r EXCEPT !.headers = h]
  OBVIOUS
<1>5. q = WithHeader(r, f)
  BY <1>2, <1>3, <1>4 DEF WithHeader
<1>6. DOMAIN r = RequestFields
  BY DEF ReadHead
<1>7. /\ DOMAIN q = RequestFields /\ q.headers = h /\ q.method = r.method /\ q.path = r.path
      /\ q.version = r.version /\ q.content = r.content
  BY <1>4, <1>6 DEF RequestFields
<1>8. /\ DOMAIN h = DOMAIN r.headers \cup {f.name} /\ h[f.name] = value
      /\ \A n \in DOMAIN r.headers : n # f.name => h[n] = r.headers[n]
  BY <1>3
<1>9. \A i \in 1..(j + 1) : i \in 1..j \/ i = j + 1
  OBVIOUS
<1>10. \A i \in 1..j : i \in 1..(j + 1)
  OBVIOUS
<1>11. j + 1 \in 1..(j + 1)
  OBVIOUS
<1>12. \A i \in 1..(j + 1) : FieldAt(m, i) # Malformed
  BY <1>9 DEF ReadHead
<1>13. DOMAIN h = {FieldAt(m, i).name : i \in 1..(j + 1)}
  <2>1. DOMAIN r.headers = {FieldAt(m, i).name : i \in 1..j}
    BY DEF ReadHead
  <2> QED BY <1>1, <1>8, <1>9, <1>10, <1>11, <2>1
<1>14. ASSUME NEW i \in 1..(j + 1), FieldAt(m, i).name = "content-length"
       PROVE  h["content-length"] = FieldAt(m, i).value
  <2>1. CASE i = j + 1
    <3>1. f.name = "content-length" /\ value = f.value
      BY <1>1, <1>2, <1>14, <2>1
    <3> QED BY <1>1, <1>8, <2>1, <3>1
  <2>2. CASE i \in 1..j
    <3>1. "content-length" \in DOMAIN r.headers /\ r.headers["content-length"] = FieldAt(m, i).value
      BY <1>14, <2>2 DEF ReadHead
    <3>2. CASE f.name # "content-length"
      BY <1>8, <3>1, <3>2
    <3>3. CASE f.name = "content-length"
      <4>1. r.headers["content-length"] = f.value
        BY <1>1, <3>1, <3>3 DEF Conflict, Has
      <4>2. value = f.value
        BY <1>2, <3>3
      <4> QED BY <1>8, <3>1, <3>3, <4>1, <4>2
    <3> QED BY <3>2, <3>3
  <2> QED BY <1>9, <2>1, <2>2
<1>15. \A x : Mentions(m, j + 1, "connection", x) <=>
                Mentions(m, j, "connection", x) \/ (f.name = "connection" /\ Contains(f.value, x))
  BY <1>1, <1>9, <1>10, <1>11 DEF Mentions
<1>16. /\ IsSequence(Header(r, "connection"))
       /\ \A x : Contains(Header(r, "connection"), x) <=> Mentions(m, j, "connection", x)
  BY DEF ReadHead
<1>17. /\ IsSequence(Header(q, "connection"))
       /\ \A x : Contains(Header(q, "connection"), x) <=> Mentions(m, j + 1, "connection", x)
  <2>1. CASE f.name = "connection"
    <3>1. Header(q, "connection") = Header(r, "connection") \o f.value
      BY <1>2, <1>7, <1>8, <2>1 DEF Header, Has
    <3>2. IsSequence(f.value)
      BY <1>1
    <3>3. PICK s : s = Header(r, "connection")
      OBVIOUS
    <3>4. PICK t : t = f.value
      OBVIOUS
    <3>5. IsSequence(s \o t) /\ \A x : Contains(s \o t, x) <=> Contains(s, x) \/ Contains(t, x)
      BY <1>16, <3>2, <3>3, <3>4, SequencesJoin
    <3>6. Header(q, "connection") = s \o t
      BY <3>1, <3>3, <3>4
    <3> QED BY <1>15, <1>16, <2>1, <3>3, <3>4, <3>5, <3>6, Zenon
  <2>2. CASE f.name # "connection"
    <3>1. Header(q, "connection") = Header(r, "connection")
      BY <1>7, <1>8, <2>2 DEF Header, Has
    <3> QED BY <1>15, <1>16, <2>2, <3>1, Zenon
  <2> QED BY <2>1, <2>2
<1>18. ReadHead(q, m, j + 1)
  BY <1>7, <1>12, <1>13, <1>14, <1>17 DEF ReadHead
<1> QED BY <1>1, <1>5, <1>18

LEMMA ValuesHas ==
    ASSUME NEW m, NEW name
    PROVE  \A x : x \in Values(m, name) <=>
                    \E i \in 1..Len(m.fields) : FieldAt(m, i).name = name /\ x = FieldAt(m, i).value
BY DEF Values, FieldAt

\* What a well-formed message says of its length.
Stated(m, digits) ==
    /\ Values(m, "content-length") = {digits} /\ digits # <<>>
    /\ Digits(digits) /\ Number(digits) <= maxBodyLength

LEMMA WellFormedIs ==
    ASSUME NEW m
    PROVE  WellFormed(m) <=>
             /\ LineOf[m.line] # Malformed
             /\ \A i \in 1..Len(m.fields) : FieldAt(m, i) # Malformed
             /\ Values(m, "transfer-encoding") = {}
             /\ \/ Values(m, "content-length") = {} /\ LineOf[m.line].method \notin {"POST", "PUT"}
                \/ \E digits : Stated(m, digits)
<1>1. ASSUME NEW digits PROVE Stated(m, digits) <=>
        /\ digits \in Values(m, "content-length")
        /\ Values(m, "content-length") = {digits} /\ digits # <<>>
        /\ \A i \in 1..Len(digits) : digits[i] \in 0..9
        /\ Number(digits) <= maxBodyLength
  BY DEF Stated, Digits
<1>2. (\E digits : Stated(m, digits)) => Values(m, "content-length") # {}
  BY DEF Stated
<1> QED BY <1>1, <1>2 DEF WellFormed, FieldAt

\* Two lengths that differ.
LEMMA ConflictRefused ==
    ASSUME NEW m, NEW j \in Nat, Len(m.fields) \in Nat, j < Len(m.fields), NEW r, ReadHead(r, m, j),
           Conflict(r, FieldAt(m, j + 1))
    PROVE  ~WellFormed(m)
<1>1. PICK f : f = FieldAt(m, j + 1)
  OBVIOUS
<1>2. f.name = "content-length" /\ "content-length" \in DOMAIN r.headers /\ r.headers["content-length"] # f.value
  BY <1>1 DEF Conflict, Has
<1>3. PICK i \in 1..j : FieldAt(m, i).name = "content-length"
  BY <1>2 DEF ReadHead
<1>4. FieldAt(m, i).value # f.value
  BY <1>2, <1>3 DEF ReadHead
<1>5. i \in 1..Len(m.fields) /\ j + 1 \in 1..Len(m.fields)
  OBVIOUS
<1>6. FieldAt(m, i).value \in Values(m, "content-length") /\ f.value \in Values(m, "content-length")
  BY <1>1, <1>2, <1>3, <1>5, ValuesHas
<1>7. ~\E digits : Stated(m, digits)
  BY <1>4, <1>6 DEF Stated
<1> QED BY <1>6, <1>7, WellFormedIs

\* At the end of the head the server accepts the messages it must accept, and knows how
\* much follows.
LEMMA BodyLengthIs ==
    ASSUME NEW m \in Message, NEW r, ReadHead(r, m, Len(m.fields)), WellFormed(m) => Framed(m),
           \A t \in Text : FieldOf[t] # Malformed => IsSequence(FieldOf[t].value)
    PROVE  BodyLength(r) = IF WellFormed(m) THEN Len(m.body) ELSE -1
<1>0. PICK n \in Nat : n = Len(m.fields) /\ m.fields \in Seq(Text) /\ m.body \in Seq(Byte) /\ Len(m.body) \in Nat
  BY DEF Message
<1>1. /\ LineOf[m.line] # Malformed /\ r.method = LineOf[m.line].method
      /\ \A i \in 1..n : FieldAt(m, i) # Malformed
      /\ DOMAIN r.headers = {FieldAt(m, i).name : i \in 1..n}
      /\ \A i \in 1..n : FieldAt(m, i).name = "content-length" => r.headers["content-length"] = FieldAt(m, i).value
  BY <1>0 DEF ReadHead
<1>2. \A name : Has(r, name) <=> Values(m, name) # {}
  <2> TAKE name
  <2>1. \A x : x \in Values(m, name) <=> \E i \in 1..n : FieldAt(m, i).name = name /\ x = FieldAt(m, i).value
    BY <1>0, ValuesHas
  <2>2. Has(r, name) <=> \E i \in 1..n : FieldAt(m, i).name = name
    BY <1>1 DEF Has
  <2> QED BY <2>1, <2>2, Zenon
<1>3. WellFormed(m) <=>
        /\ Values(m, "transfer-encoding") = {}
        /\ \/ Values(m, "content-length") = {} /\ r.method \notin {"POST", "PUT"}
           \/ \E digits : Stated(m, digits)
  BY <1>0, <1>1, WellFormedIs
<1>4. CASE Has(r, "transfer-encoding")
  <2>1. ~WellFormed(m)
    BY <1>2, <1>3, <1>4
  <2> QED BY <1>4, <2>1 DEF BodyLength
<1>5. CASE ~Has(r, "transfer-encoding") /\ Has(r, "content-length")
  <2>1. PICK digits : digits = r.headers["content-length"]
    OBVIOUS
  <2>2. Values(m, "content-length") = {digits}
    <3>1. \A x \in Values(m, "content-length") : x = digits
      BY <1>0, <1>1, <2>1, ValuesHas
    <3>2. Values(m, "content-length") # {}
      BY <1>2, <1>5
    <3> QED BY <3>1, <3>2
  <2>3. IsSequence(digits)
    <3>1. PICK i \in 1..n : FieldAt(m, i).name = "content-length" /\ digits = FieldAt(m, i).value
      <4>1. digits \in Values(m, "content-length")
        BY <2>2
      <4>2. \A x : x \in Values(m, "content-length") <=>
                     \E i \in 1..n : FieldAt(m, i).name = "content-length" /\ x = FieldAt(m, i).value
        BY <1>0, ValuesHas
      <4> QED BY <4>1, <4>2, Zenon
    <3>2. m.fields[i] \in Text
      BY <1>0
    <3> QED BY <1>1, <3>1, <3>2 DEF FieldAt
  <2>4. BodyLength(r) = Decimal(digits)
    BY <1>5, <2>1 DEF BodyLength
  <2>5. WellFormed(m) <=> digits # <<>> /\ Digits(digits) /\ Number(digits) <= maxBodyLength
    <3>1. \A d : Stated(m, d) => d = digits
      BY <2>2 DEF Stated
    <3>2. Stated(m, digits) <=> digits # <<>> /\ Digits(digits) /\ Number(digits) <= maxBodyLength
      BY <2>2 DEF Stated
    <3> QED BY <1>2, <1>3, <1>5, <3>1, <3>2
  <2>6. WellFormed(m) => Len(m.body) = Number(digits)
    BY <2>2 DEF Framed
  <2>7. CASE digits = <<>>
    <3>1. Decimal(digits) = -1
      BY <2>7 DEF Decimal
    <3> QED BY <2>4, <2>5, <2>7, <3>1
  <2>8. CASE digits # <<>>
    <3>1. PICK l \in Nat : l = Len(digits)
      BY <2>3 DEF IsSequence
    <3>2. Decimal(digits) = IF Digits(digits) /\ Number(digits) <= maxBodyLength THEN Number(digits) ELSE -1
      BY <2>8, <3>1, DecimalIs
    <3> QED BY <2>4, <2>5, <2>6, <2>8, <3>2
  <2> QED BY <2>7, <2>8
<1>6. CASE ~Has(r, "transfer-encoding") /\ ~Has(r, "content-length")
  <2>1. Values(m, "transfer-encoding") = {} /\ Values(m, "content-length") = {}
    BY <1>2, <1>6
  <2>2. ~\E digits : Stated(m, digits)
    BY <2>1 DEF Stated
  <2>3. WellFormed(m) <=> r.method \notin {"POST", "PUT"}
    BY <1>3, <2>1, <2>2
  <2>4. WellFormed(m) => Len(m.body) = 0
    <3>1. WellFormed(m) => m.body = <<>>
      BY <2>1 DEF Framed
    <3> QED BY <3>1
  <2>5. BodyLength(r) = IF r.method \in {"POST", "PUT"} THEN -1 ELSE 0
    BY <1>6 DEF BodyLength
  <2> QED BY <2>3, <2>4, <2>5
<1> QED BY <1>4, <1>5, <1>6

\* The complete request is the message.
LEMMA HeadMatches ==
    ASSUME NEW m, NEW r, NEW q, ReadHead(r, m, Len(m.fields)), q.content = m.body,
           q.method = r.method, q.path = r.path, q.version = r.version, q.headers = r.headers
    PROVE  Matches(q, m)
<1>0. PICK n : n = Len(m.fields)
  OBVIOUS
<1>1. /\ r.method = LineOf[m.line].method /\ r.path = LineOf[m.line].path
      /\ r.version = LineOf[m.line].version
      /\ DOMAIN r.headers = {FieldAt(m, i).name : i \in 1..n}
      /\ \A x : Contains(Header(r, "connection"), x) <=> Mentions(m, n, "connection", x)
  BY <1>0 DEF ReadHead
<1>2. Header(q, "connection") = Header(r, "connection")
  BY DEF Header, Has
<1>3. \A x : HasToken(q, x) <=> Mentions(m, n, "connection", x)
  BY <1>1, <1>2 DEF HasToken, Contains
<1> DEFINE tokens == UNION {{v[i] : i \in 1..Len(v)} : v \in Values(m, "connection")}
<1>4. ASSUME NEW x PROVE x \in tokens <=> Mentions(m, n, "connection", x)
  <2>1. x \in tokens <=> \E v \in Values(m, "connection") : Contains(v, x)
    BY DEF Contains
  <2>2. (\E v \in Values(m, "connection") : Contains(v, x)) <=> Mentions(m, n, "connection", x)
    BY <1>0, ValuesHas DEF Mentions
  <2> QED BY <2>1, <2>2
<1>5. WantsClose(m) <=> "close" \in tokens \/ (LineOf[m.line].version = "HTTP/1.0" /\ "keep-alive" \notin tokens)
  BY DEF WantsClose
<1> HIDE DEF tokens
<1>6. CloseAsked(q) <=> HasToken(q, "close") \/ (q.version = "HTTP/1.0" /\ ~HasToken(q, "keep-alive"))
  BY DEF CloseAsked
<1>7. CloseAsked(q) <=> WantsClose(m)
  BY <1>1, <1>3, <1>4, <1>5, <1>6
<1>8. CloseAsked(q) = WantsClose(m)
  BY <1>7 DEF CloseAsked, WantsClose
<1>9. DOMAIN q.headers = {FieldOf[m.fields[i]].name : i \in 1..Len(m.fields)}
  BY <1>0, <1>1 DEF FieldAt
<1> QED BY <1>1, <1>8, <1>9 DEF Matches

-----------------------------------------------------------------------------
(* The first line of the buffer *)

\* Where the first line ends, if it ends behind the n-th byte.
LEMMA FirstLineEnds ==
    ASSUME NEW b \in Seq(Byte), NEW n \in Nat, n + 2 <= Len(b), b[n + 1] = CR, b[n + 2] = LF,
           \A i \in 1..n : b[i] # CR
    PROVE  HasLine(b) /\ FirstLine(b) = SubSeq(b, 1, n) /\ Len(FirstLine(b)) = n
<1>1. n + 1 \in LineEnds(b)
  <2>1. n + 1 \in 1..(Len(b) - 1) /\ (n + 1) + 1 = n + 2
    OBVIOUS
  <2> QED BY <2>1 DEF LineEnds
<1>2. \A i \in LineEnds(b) : i \in Int /\ n + 1 <= i
  <2> TAKE i \in LineEnds(b)
  <2>1. i \in 1..(Len(b) - 1) /\ b[i] = CR
    BY DEF LineEnds
  <2> QED BY <2>1
<1>3. PICK c : c = CHOOSE i \in LineEnds(b) : \A j \in LineEnds(b) : i <= j
  OBVIOUS
<1>6. c = n + 1 /\ c - 1 = n
  <2>1. c \in LineEnds(b) /\ \A j \in LineEnds(b) : c <= j
    BY <1>1, <1>2, <1>3
  <2>2. c \in Int /\ n + 1 <= c /\ c <= n + 1
    BY <1>1, <1>2, <2>1
  <2> QED BY <2>2
<1>7. FirstLine(b) = SubSeq(b, 1, c - 1)
  BY <1>3, Zenon DEF FirstLine
<1>4. FirstLine(b) = SubSeq(b, 1, n)
  BY <1>6, <1>7
<1>5. Len(SubSeq(b, 1, n)) = n
  OBVIOUS
<1> QED BY <1>1, <1>4, <1>5 DEF HasLine

\* A line of one symbol, or what has been read of it.
LEMMA TextLine ==
    ASSUME NEW b \in Seq(Byte), NEW t \in Text,
           1 <= Len(b) => b[1] = t, 2 <= Len(b) => b[2] = CR, 3 <= Len(b) => b[3] = LF
    PROVE  /\ HasLine(b) <=> 3 <= Len(b)
           /\ HasLine(b) => /\ FirstLine(b) # <<>> /\ AfterLine(b) = SubSeq(b, 4, Len(b))
                            /\ \A table : Meaning(table, FirstLine(b)) = table[t]
<1>1. CR \notin Text
  BY SymbolAssumption
<1>2. ASSUME HasLine(b) PROVE 3 <= Len(b)
  <2>1. PICK i \in 1..(Len(b) - 1) : b[i] = CR
    BY <1>2 DEF HasLine, LineEnds
  <2> QED BY <1>1, <2>1
<1>3. ASSUME 3 <= Len(b)
      PROVE  /\ HasLine(b) /\ FirstLine(b) # <<>> /\ AfterLine(b) = SubSeq(b, 4, Len(b))
             /\ \A table : Meaning(table, FirstLine(b)) = table[t]
  <2>0. PICK n \in Nat : n = 1
    OBVIOUS
  <2>1. b[1] = t /\ n + 2 <= Len(b) /\ b[n + 1] = CR /\ b[n + 2] = LF /\ \A i \in 1..n : b[i] # CR
    BY <1>1, <1>3, <2>0
  <2>8. HasLine(b) /\ FirstLine(b) = SubSeq(b, 1, n) /\ Len(FirstLine(b)) = n
    BY <2>1, FirstLineEnds
  <2>2. HasLine(b) /\ FirstLine(b) = SubSeq(b, 1, 1) /\ Len(FirstLine(b)) = 1
    BY <2>0, <2>8
  <2>3. SubSeq(b, 1, 1)[1] = t
    BY <1>3, <2>1
  <2>4. FirstLine(b)[1] = t
    BY <2>2, <2>3
  <2>5. PICK line : line = FirstLine(b)
    OBVIOUS
  <2>6. line # <<>>
    <3>1. Len(line) = 1 /\ Len(<<>>) = 0
      BY <2>2, <2>5
    <3> QED BY <3>1
  <2>7. \A table : Meaning(table, line) = table[t]
    BY <2>2, <2>4, <2>5 DEF Meaning
  <2> QED BY <2>2, <2>5, <2>6, <2>7 DEF AfterLine
<1> QED BY <1>2, <1>3

\* The empty line, or what has been read of it.
LEMMA EmptyLine ==
    ASSUME NEW b \in Seq(Byte), 1 <= Len(b) => b[1] = CR, 2 <= Len(b) => b[2] = LF
    PROVE  /\ HasLine(b) <=> 2 <= Len(b)
           /\ HasLine(b) => FirstLine(b) = <<>> /\ AfterLine(b) = SubSeq(b, 3, Len(b))
<1>1. ASSUME HasLine(b) PROVE 2 <= Len(b)
  <2>1. PICK i \in 1..(Len(b) - 1) : b[i] = CR
    BY <1>1 DEF HasLine, LineEnds
  <2> QED BY <2>1
<1>2. ASSUME 2 <= Len(b)
      PROVE  HasLine(b) /\ FirstLine(b) = <<>> /\ AfterLine(b) = SubSeq(b, 3, Len(b))
  <2>1. b[0 + 1] = CR /\ b[0 + 2] = LF /\ \A i \in 1..0 : b[i] # CR
    BY <1>2
  <2>2. HasLine(b) /\ FirstLine(b) = SubSeq(b, 1, 0) /\ Len(FirstLine(b)) = 0
    BY <1>2, <2>1, FirstLineEnds
  <2>3. SubSeq(b, 1, 0) = <<>>
    OBVIOUS
  <2> QED BY <2>2, <2>3 DEF AfterLine
<1> QED BY <1>1, <1>2

-----------------------------------------------------------------------------
(* The place of the parser on the wire *)

\* The buffer holds what has been read behind the place `at`.
Window(at) ==
    /\ at \in Nat /\ delivered \in Nat /\ at <= delivered /\ delivered <= Len(All)
    /\ buf \in Seq(Byte) /\ Len(buf) = delivered - at
    /\ \A i \in 1..Len(buf) : buf[i] = All[at + i]

\* The message in work, and where it starts.
Current == plan[Len(handled) + 1]
Start == Len(Wire(Len(handled)))

AtLine == context.state = "line" /\ context.request = EmptyRequest /\ Window(Start)

AtField(j) ==
    /\ context.state = "headers" /\ Len(handled) < Len(plan)
    /\ j <= Len(Current.fields) /\ ReadHead(context.request, Current, j) /\ Window(Start + 3 * j + 3)

AtBody ==
    /\ context.state = "body" /\ Len(handled) < Len(plan) /\ WellFormed(Current)
    /\ ReadHead(context.request, Current, Len(Current.fields))
    /\ context.request.contentLength = Len(Current.body)
    /\ Window(Start + 3 * Len(Current.fields) + 5)

AtEnd ==
    /\ context.state = "gotAll" /\ Len(handled) < Len(plan) /\ WellFormed(Current)
    /\ Matches(context.request, Current) /\ Window(Len(Wire(Len(handled) + 1)))

\* While requests are taken, the parser has read the head or the whole of the message
\* that follows the ones handled, and the buffer begins there.
Parsing ==
    /\ plan \in Plans /\ Len(handled) <= Len(plan) /\ delivered \in Nat
    /\ ~context.stopped =>
         IF pc = "request" THEN AtEnd ELSE AtLine \/ AtBody \/ \E j \in Nat : AtField(j)

\* RequestsAsSent, of one request and of one refusal.
Handled(k) == Arrived(k) /\ WellFormed(plan[k]) /\ Matches(handled[k], plan[k])

Rightly(i) ==
    sent[i].kind = "refusal" /\ sent[i].request > Len(handled) =>
      Len(handled) < Len(plan) /\ ~WellFormed(plan[Len(handled) + 1])

PlaceInv ==
    /\ Parsing
    /\ \A k \in 1..Len(handled) : Handled(k)
    /\ (pc = "idle" /\ ~context.stopped) => ~Arrived(Len(handled) + 1)
    /\ \A i \in 1..Len(sent) : Rightly(i)

\* The messages of the plan.
LEMMA PlanTypes ==
    ASSUME plan \in Plans
    PROVE  /\ plan \in Seq(Message) /\ Len(plan) \in Nat
           /\ \A k \in 1..Len(plan) : WellFormed(plan[k]) => Framed(plan[k])
           /\ \A t \in Text : FieldOf[t] # Malformed => IsSequence(FieldOf[t].value)
<1>1. plan \in Seq(Message)
  BY PlanAssumption DEF Message, Byte
<1> QED BY <1>1, PlanAssumption

LEMMA AllLen ==
    ASSUME plan \in Seq(Message)
    PROVE  All \in Seq(Byte) /\ Len(All) \in Nat /\ \A k \in 0..Len(plan) : Len(Wire(k)) \in Nat /\ Len(Wire(k)) <= Len(All)
<1>1. PICK n \in Nat : n = Len(plan) /\ n \in 0..n
  OBVIOUS
<1>2. All \in Seq(Byte) /\ \A k \in 0..n : Wire(k) \in Seq(Byte)
  BY <1>1, WireRead DEF All
<1>3. ASSUME NEW k \in 0..n PROVE Len(Wire(k)) <= Len(All)
  <2>1. n \in k..n
    OBVIOUS
  <2> QED BY <1>1, <2>1, WirePrefix DEF All
<1> QED BY <1>1, <1>2, <1>3

\* What is consumed leaves a window behind it.
LEMMA WindowMoves ==
    ASSUME NEW at, Window(at), NEW c \in Nat, c <= Len(buf), buf' = SubSeq(buf, c + 1, Len(buf)),
           UNCHANGED <<plan, delivered>>, Len(All) \in Nat
    PROVE  Window(at + c)'
<1>1. All' = All
  BY DEF All, Wire
<1>2. PICK n \in Nat : n = Len(buf) /\ buf \in Seq(Byte) /\ n = delivered - at
  BY DEF Window
<1>3. buf' \in Seq(Byte) /\ Len(buf') = n - c /\ \A i \in 1..(n - c) : buf'[i] = buf[c + i]
  <2>1. PICK b : b = buf
    OBVIOUS
  <2>2. b \in Seq(Byte) /\ n = Len(b) /\ buf' = SubSeq(b, c + 1, n) /\ c <= n
    BY <1>2, <2>1
  <2>3. SubSeq(b, c + 1, n) \in Seq(Byte) /\ Len(SubSeq(b, c + 1, n)) = n - c
    BY <2>2
  <2>4. \A i \in 1..(n - c) : SubSeq(b, c + 1, n)[i] = b[c + i]
    BY <2>2
  <2> QED BY <2>1, <2>2, <2>3, <2>4
<1>4. at \in Nat /\ delivered \in Nat /\ at <= delivered /\ delivered <= Len(All)
  BY DEF Window
<1>5. \A i \in 1..(n - c) : c + i \in 1..n /\ at + (c + i) = (at + c) + i
  BY <1>2, <1>4
<1>6. \A i \in 1..(n - c) : buf'[i] = All[(at + c) + i]
  <2>1. \A i \in 1..n : buf[i] = All[at + i]
    BY <1>2 DEF Window
  <2> QED BY <1>3, <1>5, <2>1
<1>7. n - c = delivered - (at + c) /\ at + c \in Nat /\ at + c <= delivered
  BY <1>2, <1>4
<1> QED BY <1>1, <1>3, <1>4, <1>6, <1>7 DEF Window

\* What is read makes it longer.
LEMMA WindowGrows ==
    ASSUME NEW at, Window(at), NEW n \in 1..(Len(All) - delivered), Len(All) \in Nat, All \in Seq(Byte),
           buf' = buf \o SubSeq(All, delivered + 1, delivered + n),
           delivered' = delivered + n, UNCHANGED plan
    PROVE  Window(at)'
<1>1. All' = All
  BY DEF All, Wire
<1>2. at \in Nat /\ delivered \in Nat /\ at <= delivered /\ delivered <= Len(All)
  BY DEF Window
<1>3. PICK l \in Nat : l = Len(buf) /\ buf \in Seq(Byte) /\ l = delivered - at
  BY DEF Window
<1>4. PICK bytes : bytes = SubSeq(All, delivered + 1, delivered + n)
  OBVIOUS
<1>5. bytes \in Seq(Byte) /\ Len(bytes) = n /\ \A i \in 1..n : bytes[i] = All[delivered + i]
  <2>0. PICK w : w = All
    OBVIOUS
  <2>1. PICK d \in Nat : w = All /\ d = delivered
    BY <1>2, <2>0
  <2>2. w \in Seq(Byte) /\ bytes = SubSeq(w, d + 1, d + n) /\ d + n <= Len(w) /\ n \in Nat
    BY <1>2, <1>4, <2>1
  <2>3. SubSeq(w, d + 1, d + n) \in Seq(Byte) /\ Len(SubSeq(w, d + 1, d + n)) = n
    BY <2>2
  <2>4. \A i \in 1..n : SubSeq(w, d + 1, d + n)[i] = w[d + i]
    BY <2>2
  <2> QED BY <2>1, <2>2, <2>3, <2>4
<1>6. PICK u \in Seq(Byte) : u = buf \o bytes /\ Joins(u, buf, bytes)
  BY <1>3, <1>5, Joined
<1>7. buf' = u
  BY <1>4, <1>6
<1>8. Len(u) = l + n /\ (\A i \in 1..l : u[i] = buf[i]) /\ \A i \in 1..n : u[l + i] = bytes[i]
  BY <1>3, <1>5, <1>6 DEF Joins
<1>9. ASSUME NEW i \in 1..(l + n) PROVE u[i] = All[at + i]
  <2>1. CASE i <= l
    <3>1. i \in 1..l /\ \A h \in 1..l : buf[h] = All[at + h]
      BY <1>3, <2>1 DEF Window
    <3> QED BY <1>8, <3>1
  <2>2. CASE ~(i <= l)
    <3>1. PICK h \in 1..n : i = l + h
      <4>1. i - l \in 1..n /\ i = l + (i - l)
        BY <2>2
      <4> QED BY <4>1
    <3>2. at + i = delivered + h
      BY <1>2, <1>3, <3>1
    <3> QED BY <1>5, <1>8, <3>1, <3>2
  <2> QED BY <2>1, <2>2
<1>10. l + n = (delivered + n) - at /\ at <= delivered + n /\ delivered + n <= Len(All) /\ delivered + n \in Nat
  BY <1>2, <1>3
<1> QED BY <1>1, <1>2, <1>7, <1>8, <1>9, <1>10 DEF Window

\* What is known at any step of the parser, m being the message in work.
Working(m, k) ==
    /\ k \in Nat /\ k = Len(handled) /\ k < Len(plan) /\ m = plan[k + 1] /\ m \in Message
    /\ WellFormed(m) => Framed(m)
    /\ Spells(Encode(m), m) /\ Start \in Nat /\ Len(All) \in Nat
    /\ Len(Wire(k + 1)) = Start + Len(Encode(m)) /\ Len(Wire(k + 1)) <= Len(All)
    /\ \A i \in 1..Len(Encode(m)) : All[Start + i] = Encode(m)[i]

LEMMA WorkingOn ==
    ASSUME Inv, plan \in Plans, Len(handled) < Len(plan)
    PROVE  Working(Current, Len(handled)) /\ Len(handled) + 1 \in 1..Len(plan)
<1>1. PICK k \in Nat : k = Len(handled)
  BY DEF Inv, TypeInv, IsSeq
<1>2. plan \in Seq(Message) /\ Len(plan) \in Nat /\ \A i \in 1..Len(plan) : WellFormed(plan[i]) => Framed(plan[i])
  BY PlanTypes
<1>3. k + 1 \in 1..Len(plan)
  BY <1>1, <1>2
<1>4. /\ plan[k + 1] \in Message /\ Spells(Encode(plan[k + 1]), plan[k + 1])
      /\ Len(Wire(k)) \in Nat /\ Len(All) \in Nat
      /\ Len(Wire(k + 1)) = Len(Wire(k)) + Len(Encode(plan[k + 1]))
      /\ Len(Wire(k + 1)) <= Len(All)
      /\ \A i \in 1..Len(Encode(plan[k + 1])) : All[Len(Wire(k)) + i] = Encode(plan[k + 1])[i]
  BY <1>1, <1>2, OnTheWire
<1> QED BY <1>1, <1>2, <1>3, <1>4 DEF Working, Current, Start

\* The bytes of the buffer at the place c of the message in work.
LEMMA BufferSpells ==
    ASSUME NEW m, NEW k, Working(m, k), NEW c \in Nat, Window(Start + c),
           NEW i \in 1..Len(buf), c + i <= Len(Encode(m))
    PROVE  buf[i] = Encode(m)[c + i]
<1>1. Start \in Nat /\ \A h \in 1..Len(Encode(m)) : All[Start + h] = Encode(m)[h]
  BY DEF Working
<1>2. buf[i] = All[(Start + c) + i] /\ Len(buf) \in Nat
  BY DEF Window
<1>3. Len(Encode(m)) \in Nat
  BY EncodeSpells DEF Working
<1>4. (Start + c) + i = Start + (c + i) /\ c + i \in 1..Len(Encode(m))
  BY <1>1, <1>2, <1>3
<1> QED BY <1>1, <1>2, <1>4

\* A symbol, CR and LF at the place c: the current line of the parser.
LEMMA LineHere ==
    ASSUME NEW m, NEW k, Working(m, k), NEW c \in Nat, Window(Start + c), NEW t \in Text,
           c + 3 <= Len(Encode(m)), Encode(m)[c + 1] = t, Encode(m)[c + 2] = CR, Encode(m)[c + 3] = LF
    PROVE  /\ HasLine(buf) <=> 3 <= Len(buf)
           /\ HasLine(buf) => /\ CurrentLine # <<>> /\ AfterLine(buf) = SubSeq(buf, 4, Len(buf))
                              /\ \A table : Meaning(table, CurrentLine) = table[t]
<1>1. buf \in Seq(Byte) /\ Len(buf) \in Nat /\ Len(Encode(m)) \in Nat
  BY EncodeSpells DEF Window, Working
<1>2. 1 <= Len(buf) => buf[1] = t
  <2>1. 1 <= Len(buf) => 1 \in 1..Len(buf) /\ c + 1 <= Len(Encode(m))
    BY <1>1
  <2> QED BY <2>1, BufferSpells
<1>3. 2 <= Len(buf) => buf[2] = CR
  <2>1. 2 <= Len(buf) => 2 \in 1..Len(buf) /\ c + 2 <= Len(Encode(m))
    BY <1>1
  <2> QED BY <2>1, BufferSpells
<1>4. 3 <= Len(buf) => buf[3] = LF
  <2>1. 3 <= Len(buf) => 3 \in 1..Len(buf) /\ c + 3 <= Len(Encode(m))
    BY <1>1
  <2> QED BY <2>1, BufferSpells
<1> QED BY <1>1, <1>2, <1>3, <1>4, TextLine DEF CurrentLine

\* CR and LF at the place c: the empty line.
LEMMA EmptyLineHere ==
    ASSUME NEW m, NEW k, Working(m, k), NEW c \in Nat, Window(Start + c),
           c + 2 <= Len(Encode(m)), Encode(m)[c + 1] = CR, Encode(m)[c + 2] = LF
    PROVE  /\ HasLine(buf) <=> 2 <= Len(buf)
           /\ HasLine(buf) => CurrentLine = <<>> /\ AfterLine(buf) = SubSeq(buf, 3, Len(buf))
<1>1. buf \in Seq(Byte) /\ Len(buf) \in Nat /\ Len(Encode(m)) \in Nat
  BY EncodeSpells DEF Window, Working
<1>2. 1 <= Len(buf) => buf[1] = CR
  <2>1. 1 <= Len(buf) => 1 \in 1..Len(buf) /\ c + 1 <= Len(Encode(m))
    BY <1>1
  <2> QED BY <2>1, BufferSpells
<1>3. 2 <= Len(buf) => buf[2] = LF
  <2>1. 2 <= Len(buf) => 2 \in 1..Len(buf) /\ c + 2 <= Len(Encode(m))
    BY <1>1
  <2> QED BY <2>1, BufferSpells
<1> QED BY <1>1, <1>2, <1>3, EmptyLine DEF CurrentLine

\* The bytes of the message end behind the window: it has not arrived.
LEMMA NotArrived ==
    ASSUME NEW m, NEW k, Working(m, k), NEW c \in Nat, Window(Start + c), c + Len(buf) < Len(Encode(m))
    PROVE  ~Arrived(k + 1)
<1>1. Start \in Nat /\ Len(Wire(k + 1)) = Start + Len(Encode(m)) /\ Len(Encode(m)) \in Nat
  BY EncodeSpells DEF Working
<1>2. delivered \in Nat /\ Len(buf) = delivered - (Start + c)
  BY DEF Window
<1>3. delivered < Len(Wire(k + 1))
  BY <1>1, <1>2
<1> QED BY <1>1, <1>2, <1>3 DEF Arrived

\* The layout of a message with f fields and a body of l bytes, at the places the parser
\* comes to.
LaidOut(m, e, f, l) ==
    /\ e = Encode(m) /\ f \in Nat /\ l \in Nat /\ f = Len(m.fields) /\ l = Len(m.body)
    /\ m.line \in Text /\ m.body \in Seq(Byte) /\ Len(e) = 3 * f + 5 + l
    /\ e[1] = m.line /\ e[2] = CR /\ e[3] = LF
    /\ \A j \in Nat : j < f =>
         /\ m.fields[j + 1] \in Text
         /\ e[3 * j + 3 + 1] = m.fields[j + 1] /\ e[3 * j + 3 + 2] = CR /\ e[3 * j + 3 + 3] = LF
    /\ e[3 * f + 3 + 1] = CR /\ e[3 * f + 3 + 2] = LF
    /\ \A i \in 1..l : e[3 * f + 5 + i] = m.body[i]

LEMMA Layout ==
    ASSUME NEW m, NEW k, Working(m, k)
    PROVE  \E e, f, l : LaidOut(m, e, f, l)
<1>0. PICK e : e = Encode(m)
  OBVIOUS
<1>1. m \in Message /\ Spells(e, m)
  BY <1>0 DEF Working
<1>2. m.line \in Text /\ m.fields \in Seq(Text) /\ m.body \in Seq(Byte)
  BY <1>1 DEF Message
<1>3. PICK f \in Nat : f = Len(m.fields)
  BY <1>2
<1>4. PICK l \in Nat : l = Len(m.body)
  BY <1>2
<1>5. /\ Len(e) = 3 * f + 5 + l /\ e[1] = m.line /\ e[2] = CR /\ e[3] = LF
      /\ \A j \in 1..f : e[3 * j + 1] = m.fields[j] /\ e[3 * j + 2] = CR /\ e[3 * j + 3] = LF
      /\ e[3 * f + 4] = CR /\ e[3 * f + 5] = LF
      /\ \A i \in 1..l : e[3 * f + 5 + i] = m.body[i]
  BY <1>1, <1>3, <1>4 DEF Spells
<1>6. ASSUME NEW j \in Nat, j < f
      PROVE  /\ m.fields[j + 1] \in Text
             /\ e[3 * j + 3 + 1] = m.fields[j + 1] /\ e[3 * j + 3 + 2] = CR /\ e[3 * j + 3 + 3] = LF
  <2>1. PICK h \in 1..f : h = j + 1
    BY <1>6
  <2>2. e[3 * h + 1] = m.fields[h] /\ e[3 * h + 2] = CR /\ e[3 * h + 3] = LF /\ m.fields[h] \in Text
    BY <1>2, <1>3, <1>5
  <2>3. 3 * h + 1 = 3 * j + 3 + 1 /\ 3 * h + 2 = 3 * j + 3 + 2 /\ 3 * h + 3 = 3 * j + 3 + 3
    BY <2>1
  <2> QED BY <2>1, <2>2, <2>3
<1>7. 3 * f + 3 + 1 = 3 * f + 4 /\ 3 * f + 3 + 2 = 3 * f + 5 /\ 3 * f + 5 + l \in Nat
  OBVIOUS
<1>8. LaidOut(m, e, f, l)
  BY <1>0, <1>2, <1>3, <1>4, <1>5, <1>6, <1>7 DEF LaidOut
<1> QED BY <1>8

\* The parser before a request line.
LEMMA LineStage ==
    ASSUME Inv, plan \in Plans, AtLine, Len(handled) < Len(plan)
    PROVE  /\ HasLine(buf) <=> 3 <= Len(buf)
           /\ HasLine(buf) => /\ Meaning(LineOf, CurrentLine) = LineOf[Current.line]
                              /\ AfterLine(buf) = SubSeq(buf, 4, Len(buf))
           /\ ~HasLine(buf) => ~Arrived(Len(handled) + 1)
<1>1. PICK m, k : m = Current /\ k = Len(handled) /\ Working(m, k)
  BY WorkingOn
<1>2. PICK e, f, l : LaidOut(m, e, f, l)
  BY <1>1, Layout
<1>3. /\ e = Encode(m) /\ m.line \in Text /\ f \in Nat /\ l \in Nat
      /\ Len(e) = 3 * f + 5 + l /\ e[1] = m.line /\ e[2] = CR /\ e[3] = LF
  BY <1>2 DEF LaidOut
<1>4. Start + 0 = Start /\ Window(Start + 0) /\ Len(buf) \in Nat
  <2>1. Start \in Nat /\ Window(Start)
    BY <1>1 DEF Working, AtLine
  <2>2. Start + 0 = Start
    BY <2>1
  <2> QED BY <2>1, <2>2 DEF Window
<1>5. 0 \in Nat /\ 0 + 3 <= Len(e) /\ e[0 + 1] = m.line /\ e[0 + 2] = CR /\ e[0 + 3] = LF
  <2>1. 3 <= Len(e)
    BY <1>3
  <2> QED BY <1>3, <2>1
<1>6. PICK c \in Nat : c = 0 /\ Window(Start + c) /\ c + 3 <= Len(e) /\ e[c + 1] = m.line /\ e[c + 2] = CR /\ e[c + 3] = LF
  BY <1>4, <1>5
<1>7. /\ HasLine(buf) <=> 3 <= Len(buf)
      /\ HasLine(buf) => /\ CurrentLine # <<>> /\ AfterLine(buf) = SubSeq(buf, 4, Len(buf))
                         /\ \A table : Meaning(table, CurrentLine) = table[m.line]
  BY <1>1, <1>3, <1>6, LineHere
<1>8. Len(buf) < 3 => c + Len(buf) < Len(Encode(m))
  <2>1. 5 <= Len(e) /\ Len(e) \in Nat
    BY <1>3
  <2> QED BY <1>3, <1>4, <1>6, <2>1
<1>9. Len(buf) < 3 => ~Arrived(k + 1)
  BY <1>1, <1>6, <1>8, NotArrived
<1> QED BY <1>1, <1>4, <1>7, <1>9

\* Nothing follows the last message.
LEMMA NoMoreLines ==
    ASSUME Inv, plan \in Plans, AtLine, Len(handled) <= Len(plan), ~(Len(handled) < Len(plan))
    PROVE  ~HasLine(buf) /\ ~Arrived(Len(handled) + 1)
<1>1. Len(handled) \in Nat /\ Len(plan) \in Nat /\ plan \in Seq(Message)
  BY PlanTypes DEF Inv, TypeInv, IsSeq
<1>2. Len(handled) = Len(plan) /\ Len(All) \in Nat
  BY <1>1, AllLen
<1>3. Len(buf) = delivered - Len(All) /\ delivered <= Len(All) /\ delivered \in Nat /\ buf \in Seq(Byte)
  BY <1>2 DEF AtLine, Window, Start, All
<1>4. Len(buf) \in Nat /\ Len(buf) <= 0
  BY <1>2, <1>3
<1>5. LineEnds(buf) = {}
  BY <1>4 DEF LineEnds
<1> QED BY <1>1, <1>2, <1>5 DEF HasLine, Arrived

\* The parser before a header line.
LEMMA FieldStage ==
    ASSUME Inv, plan \in Plans, NEW j \in Nat, AtField(j), j < Len(Current.fields)
    PROVE  /\ HasLine(buf) <=> 3 <= Len(buf)
           /\ HasLine(buf) => /\ CurrentLine # <<>> /\ Field = FieldAt(Current, j + 1)
                              /\ AfterLine(buf) = SubSeq(buf, 4, Len(buf))
           /\ ~HasLine(buf) => ~Arrived(Len(handled) + 1)
<1>1. PICK m, k : m = Current /\ k = Len(handled) /\ Working(m, k)
  BY WorkingOn DEF AtField
<1>2. PICK e, f, l : LaidOut(m, e, f, l)
  BY <1>1, Layout
<1>11. e = Encode(m) /\ f \in Nat /\ l \in Nat /\ j < f /\ Len(e) = 3 * f + 5 + l
  BY <1>1, <1>2 DEF LaidOut
<1>12. /\ m.fields[j + 1] \in Text
       /\ e[3 * j + 3 + 1] = m.fields[j + 1] /\ e[3 * j + 3 + 2] = CR /\ e[3 * j + 3 + 3] = LF
  BY <1>2, <1>11 DEF LaidOut
<1>3. /\ Len(e) \in Nat /\ m.fields[j + 1] \in Text /\ 3 * j + 3 + 3 <= Len(e) /\ 3 * j + 3 \in Nat
      /\ e[3 * j + 3 + 1] = m.fields[j + 1] /\ e[3 * j + 3 + 2] = CR /\ e[3 * j + 3 + 3] = LF
  BY <1>11, <1>12
<1>4. Window(Start + (3 * j + 3)) /\ Len(buf) \in Nat
  <2>1. Start \in Nat /\ Window(Start + 3 * j + 3)
    BY <1>1 DEF Working, AtField
  <2>2. Start + (3 * j + 3) = Start + 3 * j + 3
    BY <2>1
  <2> QED BY <2>1, <2>2 DEF Window
<1>5. PICK c \in Nat : c = 3 * j + 3
  BY <1>3
<1>6. PICK t \in Text : t = m.fields[j + 1]
  BY <1>3
<1>7. /\ Window(Start + c) /\ c + 3 <= Len(e) /\ e[c + 1] = t /\ e[c + 2] = CR /\ e[c + 3] = LF
  BY <1>3, <1>4, <1>5, <1>6
<1>8. /\ HasLine(buf) <=> 3 <= Len(buf)
      /\ HasLine(buf) => /\ CurrentLine # <<>> /\ AfterLine(buf) = SubSeq(buf, 4, Len(buf))
                         /\ \A table : Meaning(table, CurrentLine) = table[t]
  BY <1>1, <1>7, <1>11, LineHere
<1>9. HasLine(buf) => Field = FieldAt(m, j + 1)
  BY <1>6, <1>8 DEF Field, FieldAt
<1>10. Len(buf) < 3 => ~Arrived(k + 1)
  <2>1. Len(buf) < 3 => c + Len(buf) < Len(Encode(m))
    BY <1>3, <1>4, <1>7, <1>11
  <2> QED BY <1>1, <1>7, <2>1, NotArrived
<1> QED BY <1>1, <1>4, <1>8, <1>9, <1>10

\* The parser before the empty line.
LEMMA EndStage ==
    ASSUME Inv, plan \in Plans, AtField(Len(Current.fields))
    PROVE  /\ HasLine(buf) <=> 2 <= Len(buf)
           /\ HasLine(buf) => CurrentLine = <<>> /\ AfterLine(buf) = SubSeq(buf, 3, Len(buf))
           /\ ~HasLine(buf) => ~Arrived(Len(handled) + 1)
<1>1. PICK m, k : m = Current /\ k = Len(handled) /\ Working(m, k)
  BY WorkingOn DEF AtField
<1>2. PICK e, f, l : LaidOut(m, e, f, l)
  BY <1>1, Layout
<1>3. /\ f \in Nat /\ l \in Nat /\ e = Encode(m) /\ f = Len(m.fields)
      /\ Len(e) = 3 * f + 5 + l /\ e[3 * f + 3 + 1] = CR /\ e[3 * f + 3 + 2] = LF
  BY <1>2 DEF LaidOut
<1>4. PICK c \in Nat : c = 3 * f + 3
  BY <1>3
<1>5. Window(Start + c) /\ Len(buf) \in Nat
  <2>1. Start \in Nat /\ Window(Start + 3 * f + 3)
    BY <1>1, <1>3 DEF Working, AtField
  <2>2. Start + c = Start + 3 * f + 3
    BY <1>3, <1>4, <2>1
  <2>3. Window(Start + c)
    BY <2>1, <2>2
  <2>4. Len(buf) \in Nat
    BY <2>3 DEF Window
  <2> QED BY <2>3, <2>4
<1>6. c + 2 <= Len(e) /\ e[c + 1] = CR /\ e[c + 2] = LF
  BY <1>3, <1>4
<1>7. /\ HasLine(buf) <=> 2 <= Len(buf)
      /\ HasLine(buf) => CurrentLine = <<>> /\ AfterLine(buf) = SubSeq(buf, 3, Len(buf))
  BY <1>1, <1>3, <1>5, <1>6, EmptyLineHere
<1>8. Len(buf) < 2 => ~Arrived(k + 1)
  <2>1. Len(buf) < 2 => c + Len(buf) < Len(Encode(m))
    BY <1>3, <1>4, <1>5
  <2> QED BY <1>1, <1>5, <2>1, NotArrived
<1> QED BY <1>1, <1>5, <1>7, <1>8

\* The parser before a body.
LEMMA BodyStage ==
    ASSUME Inv, plan \in Plans, AtBody
    PROVE  /\ context.request.contentLength \in Nat /\ Len(buf) \in Nat
           /\ Len(buf) < context.request.contentLength => ~Arrived(Len(handled) + 1)
           /\ context.request.contentLength <= Len(buf) =>
                SubSeq(buf, 1, context.request.contentLength) = Current.body
<1>1. PICK m, k : m = Current /\ k = Len(handled) /\ Working(m, k)
  BY WorkingOn DEF AtBody
<1>2. PICK e, f, l : LaidOut(m, e, f, l)
  BY <1>1, Layout
<1>3. /\ f \in Nat /\ l \in Nat /\ e = Encode(m) /\ f = Len(m.fields) /\ l = Len(m.body)
      /\ m.body \in Seq(Byte) /\ Len(e) = 3 * f + 5 + l
      /\ \A i \in 1..l : e[3 * f + 5 + i] = m.body[i]
  BY <1>2 DEF LaidOut
<1>4. PICK c \in Nat : c = 3 * f + 5 /\ Len(e) = c + l /\ \A i \in 1..l : e[c + i] = m.body[i]
  <2>1. 3 * f + 5 \in Nat
    BY <1>3
  <2> QED BY <1>3, <2>1
<1>5. Window(Start + c) /\ Len(buf) \in Nat /\ buf \in Seq(Byte)
  <2>1. Start \in Nat /\ Window(Start + 3 * f + 5)
    BY <1>1, <1>3 DEF Working, AtBody
  <2>2. Start + c = Start + 3 * f + 5
    BY <1>3, <1>4, <2>1
  <2>3. Window(Start + c)
    BY <2>1, <2>2
  <2>4. Len(buf) \in Nat /\ buf \in Seq(Byte)
    BY <2>3 DEF Window
  <2> QED BY <2>3, <2>4
<1>6. PICK n \in Nat : n = Len(m.body) /\ n = context.request.contentLength /\ n = l
  BY <1>1, <1>3 DEF AtBody
<1>7. Len(buf) < n => ~Arrived(k + 1)
  <2>1. Len(buf) < n => c + Len(buf) < Len(Encode(m))
    <3>1. Len(Encode(m)) = c + n
      BY <1>3, <1>4, <1>6
    <3> QED BY <1>5, <3>1
  <2> QED BY <1>1, <1>5, <2>1, NotArrived
<1>8. ASSUME n <= Len(buf) PROVE SubSeq(buf, 1, n) = m.body
  <2>1. PICK b \in Seq(Byte) : b = buf
    BY <1>5
  <2>2. SubSeq(b, 1, n) \in Seq(Byte) /\ Len(SubSeq(b, 1, n)) = n /\ \A i \in 1..n : SubSeq(b, 1, n)[i] = b[i]
    BY <1>8, <2>1
  <2>3. ASSUME NEW i \in 1..n PROVE buf[i] = m.body[i]
    <3>1. i \in 1..Len(buf) /\ c + i <= Len(e)
      BY <1>4, <1>5, <1>6, <1>8
    <3>2. buf[i] = e[c + i]
      BY <1>1, <1>3, <1>5, <3>1, BufferSpells
    <3> QED BY <1>4, <1>6, <3>2
  <2>4. PICK s \in Seq(Byte) : s = SubSeq(b, 1, n)
    BY <2>2
  <2>5. Len(s) = Len(m.body) /\ \A i \in 1..Len(s) : s[i] = m.body[i]
    BY <1>6, <2>1, <2>2, <2>3, <2>4
  <2>6. s = m.body
    BY <1>3, <2>5, SameSeq
  <2> QED BY <2>1, <2>4, <2>6
<1> QED BY <1>1, <1>5, <1>6, <1>7, <1>8

-----------------------------------------------------------------------------
(* The steps *)

LEMMA ParseStage ==
    ASSUME Inv, PlaceInv, pc = "parse"
    PROVE  /\ plan \in Plans /\ Len(handled) <= Len(plan) /\ Len(All) \in Nat /\ delivered \in Nat
           /\ context.stopped = FALSE /\ DOMAIN context = {"state", "request", "stopped"}
           /\ AtLine \/ AtBody \/ \E j \in Nat : AtField(j)
<1>1. ~context.stopped /\ DOMAIN context = {"state", "request", "stopped"} /\ context.stopped \in BOOLEAN
  BY DEF Inv, Looping, TypeInv
<1>2. plan \in Plans /\ Len(handled) <= Len(plan) /\ delivered \in Nat
  BY DEF PlaceInv, Parsing
<1>3. AtLine \/ AtBody \/ \E j \in Nat : AtField(j)
  BY <1>1 DEF PlaceInv, Parsing
<1>4. Len(All) \in Nat
  BY <1>2, PlanTypes, AllLen
<1> QED BY <1>1, <1>2, <1>3, <1>4

\* A step that handles and writes nothing keeps what was handled and written.
LEMMA HistoryKept ==
    ASSUME PlaceInv, UNCHANGED <<plan, sent, handled>>, delivered' \in Nat, delivered <= delivered'
    PROVE  /\ \A k \in 1..Len(handled') : Handled(k)'
           /\ \A i \in 1..Len(sent') : Rightly(i)'
<1>1. plan \in Plans /\ delivered \in Nat /\ Len(handled) <= Len(plan)
  BY DEF PlaceInv, Parsing
<1>2. Len(plan) \in Nat /\ \A k \in 0..Len(plan) : Len(Wire(k)) \in Nat
  BY <1>1, PlanTypes, AllLen
<1>3. ASSUME NEW k \in 1..Len(handled) PROVE Handled(k)'
  <2>1. Handled(k)
    BY DEF PlaceInv
  <2>2. k <= Len(plan) /\ Len(Wire(k)) <= delivered
    BY <2>1 DEF Handled, Arrived
  <2>3. k \in 0..Len(plan)
    BY <1>2, <2>2
  <2>4. Len(Wire(k)) <= delivered'
    BY <1>1, <1>2, <2>2, <2>3
  <2>5. Wire(k)' = Wire(k)
    BY DEF Wire
  <2>6. Arrived(k)'
    BY <2>2, <2>4, <2>5 DEF Arrived
  <2> QED BY <2>1, <2>6 DEF Handled
<1>4. ASSUME NEW i \in 1..Len(sent) PROVE Rightly(i)'
  BY DEF PlaceInv, Rightly
<1> QED BY <1>3, <1>4

\* The places of the next state.
LEMMA PlacesKept ==
    ASSUME UNCHANGED <<plan, handled>>
    PROVE  Current' = Current /\ Start' = Start /\ All' = All
BY DEF Current, Start, All, Wire

LEMMA WindowKept ==
    ASSUME NEW at, Window(at), UNCHANGED <<plan, delivered, buf>>
    PROVE  Window(at)'
<1>1. All' = All
  BY DEF All, Wire
<1> QED BY <1>1 DEF Window

\* A parser that is left alone stays where it is.
LEMMA PlaceKept ==
    ASSUME UNCHANGED <<plan, delivered, buf, context, handled>>, AtLine \/ AtBody \/ \E j \in Nat : AtField(j)
    PROVE  AtLine' \/ AtBody' \/ \E j \in Nat : AtField(j)'
<1>1. Current' = Current /\ Start' = Start
  BY PlacesKept
<1>2. CASE AtLine
  <2>1. PICK at : at = Start
    OBVIOUS
  <2>2. Window(at)'
    BY <1>2, <2>1, WindowKept DEF AtLine
  <2>3. Window(Start)'
    BY <1>1, <2>1, <2>2
  <2> QED BY <1>2, <2>3 DEF AtLine
<1>3. CASE AtBody
  <2>1. PICK at : at = Start + 3 * Len(Current.fields) + 5
    OBVIOUS
  <2>2. Window(at)'
    BY <1>3, <2>1, WindowKept DEF AtBody
  <2>3. Window(Start + 3 * Len(Current.fields) + 5)'
    BY <1>1, <2>1, <2>2
  <2> QED BY <1>1, <1>3, <2>3 DEF AtBody
<1>4. ASSUME NEW j \in Nat, AtField(j) PROVE AtField(j)'
  <2>1. PICK at : at = Start + 3 * j + 3
    OBVIOUS
  <2>2. Window(at)'
    BY <1>4, <2>1, WindowKept DEF AtField
  <2>3. Window(Start + 3 * j + 3)'
    BY <1>1, <2>1, <2>2
  <2> QED BY <1>1, <1>4, <2>3 DEF AtField
<1> QED BY <1>2, <1>3, <1>4

LEMMA WaitForMorePlace == Inv /\ PlaceInv /\ WaitForMore => PlaceInv'
<1> SUFFICES ASSUME Inv, PlaceInv, WaitForMore PROVE PlaceInv'
  OBVIOUS
<1>1. pc = "parse" /\ Partial /\ pc' = "idle" /\ UNCHANGED <<plan, delivered, buf, context, sent, handled>>
  BY DEF WaitForMore
<1>2. /\ plan \in Plans /\ Len(handled) <= Len(plan) /\ Len(All) \in Nat /\ delivered \in Nat
      /\ AtLine \/ AtBody \/ \E j \in Nat : AtField(j)
  BY <1>1, ParseStage
<1>3. ~Arrived(Len(handled) + 1)
  <2>1. CASE AtLine
    <3>1. ~HasLine(buf)
      BY <1>1, <2>1 DEF Partial, AtLine
    <3> QED BY <1>2, <2>1, <3>1, LineStage, NoMoreLines
  <2>2. CASE AtBody
    <3>1. Len(buf) < context.request.contentLength
      BY <1>1, <2>2 DEF Partial, AtBody
    <3> QED BY <1>2, <2>2, <3>1, BodyStage
  <2>3. ASSUME NEW j \in Nat, AtField(j) PROVE ~Arrived(Len(handled) + 1)
    <3>1. ~HasLine(buf)
      BY <1>1, <2>3 DEF Partial, AtField
    <3>2. Len(Current.fields) \in Nat /\ j <= Len(Current.fields)
      <4>1. PICK e, f, l : LaidOut(Current, e, f, l)
        BY <1>2, <2>3, WorkingOn, Layout DEF AtField
      <4> QED BY <2>3, <4>1 DEF LaidOut, AtField
    <3>3. CASE j < Len(Current.fields)
      BY <1>2, <2>3, <3>1, <3>3, FieldStage
    <3>4. CASE j = Len(Current.fields)
      BY <1>2, <2>3, <3>1, <3>4, EndStage
    <3> QED BY <3>2, <3>3, <3>4
  <2> QED BY <1>2, <2>1, <2>2, <2>3
<1>4. Arrived(Len(handled) + 1)' <=> Arrived(Len(handled) + 1)
  BY <1>1 DEF Arrived, Wire
<1>5. AtLine' \/ AtBody' \/ \E j \in Nat : AtField(j)'
  BY <1>1, <1>2, PlaceKept
<1>6. Parsing'
  BY <1>1, <1>2, <1>5 DEF Parsing
<1>7. /\ \A k \in 1..Len(handled') : Handled(k)'
      /\ \A i \in 1..Len(sent') : Rightly(i)'
  BY <1>1, <1>2, HistoryKept
<1> QED BY <1>3, <1>4, <1>6, <1>7 DEF PlaceInv

\* The parser goes on with the head of the message.
LEMMA GoesOnWithFields ==
    ASSUME PlaceInv, UNCHANGED <<plan, delivered, sent, handled>>, pc' = "parse",
           Len(handled) < Len(plan), NEW j \in Nat, j <= Len(Current.fields),
           context'.state = "headers", ReadHead(context'.request, Current, j),
           NEW at, at = Start + 3 * j + 3, Window(at)'
    PROVE  PlaceInv'
<1>1. Current' = Current /\ Start' = Start
  BY PlacesKept
<1>2. AtField(j)'
  BY <1>1 DEF AtField
<1>3. plan \in Plans /\ Len(handled) <= Len(plan) /\ delivered \in Nat
  BY DEF PlaceInv, Parsing
<1>4. Parsing'
  BY <1>2, <1>3 DEF Parsing
<1>5. /\ \A k \in 1..Len(handled') : Handled(k)'
      /\ \A i \in 1..Len(sent') : Rightly(i)'
  BY <1>3, HistoryKept
<1> QED BY <1>4, <1>5 DEF PlaceInv

LEMMA ProcessRequestLinePlace == Inv /\ PlaceInv /\ ProcessRequestLine => PlaceInv'
<1> SUFFICES ASSUME Inv, PlaceInv, ProcessRequestLine PROVE PlaceInv'
  OBVIOUS
<1>1. /\ pc = "parse" /\ context.state = "line" /\ ~Partial /\ ~Refused /\ buf' = AfterLine(buf)
      /\ UNCHANGED <<plan, delivered, pc, sent, handled>>
  BY DEF ProcessRequestLine
<1>2. PICK line : line = Meaning(LineOf, CurrentLine)
  OBVIOUS
<1>3. context' = [context EXCEPT !.state = "headers", !.request.method = line.method,
                                 !.request.path = line.path, !.request.version = line.version]
  BY <1>2 DEF ProcessRequestLine
<1>4. /\ plan \in Plans /\ Len(handled) <= Len(plan) /\ Len(All) \in Nat
      /\ DOMAIN context = {"state", "request", "stopped"}
      /\ AtLine \/ AtBody \/ \E j \in Nat : AtField(j)
  BY <1>1, ParseStage
<1>5. AtLine
  BY <1>1, <1>4 DEF AtBody, AtField
<1>6. HasLine(buf) /\ line # Malformed
  BY <1>1, <1>2 DEF Partial, Refused
<1>7. Len(handled) < Len(plan)
  BY <1>4, <1>5, <1>6, NoMoreLines
<1>8. 3 <= Len(buf) /\ line = LineOf[Current.line] /\ buf' = SubSeq(buf, 4, Len(buf))
  BY <1>1, <1>2, <1>4, <1>5, <1>6, <1>7, LineStage
<1>9. PICK r : r = context'.request
  OBVIOUS
<1>10. /\ context'.state = "headers" /\ DOMAIN r = RequestFields /\ r.content = <<>>
       /\ r.headers = EmptyRequest.headers /\ r.method = line.method /\ r.path = line.path
       /\ r.version = line.version
  <2>1. context.request = EmptyRequest
    BY <1>5 DEF AtLine
  <2>2. DOMAIN context.request = RequestFields /\ context.request.content = <<>>
    <3>0. PICK h, path, none : h = [n \in {} |-> <<>>] /\ path = "" /\ none = <<>>
      OBVIOUS
    <3>2. EmptyRequest = [method |-> "invalid", version |-> "unknown", path |-> path, headers |-> h,
                          contentLength |-> 0, content |-> none]
      BY <3>0, Zenon DEF EmptyRequest
    <3>3. DOMAIN EmptyRequest = RequestFields /\ EmptyRequest.content = none
      BY <3>2 DEF RequestFields
    <3> QED BY <2>1, <3>0, <3>3
  <2>3. PICK q : q = context.request
    OBVIOUS
  <2>4. r = [[[q EXCEPT !.method = line.method] EXCEPT !.path = line.path] EXCEPT !.version = line.version]
    BY <1>3, <1>4, <1>9, <2>3
  <2>5. DOMAIN q = RequestFields /\ q.content = <<>> /\ q.headers = EmptyRequest.headers
    BY <2>1, <2>2, <2>3
  <2>6. context'.state = "headers"
    BY <1>3, <1>4
  <2> QED BY <2>4, <2>5, <2>6 DEF RequestFields
<1>11. ReadHead(r, Current, 0)
  BY <1>6, <1>8, <1>10, HeadStarts
<1>12. PICK s \in Nat : s = Start /\ Window(s)
  <2>1. Start \in Nat
    BY <1>4, <1>7, WorkingOn DEF Working
  <2> QED BY <1>5, <2>1 DEF AtLine
<1>13. Window(s + 3)'
  <2>1. 3 \in Nat /\ 3 + 1 = 4
    OBVIOUS
  <2>2. buf' = SubSeq(buf, 3 + 1, Len(buf))
    BY <1>8, <2>1
  <2> QED BY <1>1, <1>4, <1>8, <1>12, <2>1, <2>2, WindowMoves
<1>14. 0 \in Nat /\ 0 <= Len(Current.fields) /\ s + 3 = Start + 3 * 0 + 3
  <2>1. PICK e, f, l : LaidOut(Current, e, f, l)
    BY <1>4, <1>7, WorkingOn, Layout
  <2>2. Len(Current.fields) \in Nat
    BY <2>1 DEF LaidOut
  <2> QED BY <1>12, <2>2
<1>15. PICK j \in Nat : j = 0
  OBVIOUS
<1>151. PICK at : at = s + 3 /\ at = Start + 3 * j + 3
  BY <1>14, <1>15
<1>16. j <= Len(Current.fields) /\ ReadHead(context'.request, Current, j) /\ Window(at)'
  BY <1>9, <1>11, <1>13, <1>14, <1>15, <1>151
<1>17. pc' = "parse" /\ UNCHANGED <<plan, delivered, sent, handled>> /\ context'.state = "headers"
  BY <1>1, <1>10
<1> QED BY <1>7, <1>15, <1>151, <1>16, <1>17, GoesOnWithFields

\* The message in work and the number of its header lines.
LEMMA FieldCount ==
    ASSUME Inv, plan \in Plans, Len(handled) < Len(plan)
    PROVE  /\ Current \in Message /\ Len(Current.fields) \in Nat /\ Start \in Nat
           /\ WellFormed(Current) => Framed(Current)
           /\ \A i \in 1..Len(Current.fields) : Current.fields[i] \in Text
<1>1. Working(Current, Len(handled))
  BY WorkingOn
<1>2. Current \in Message /\ Start \in Nat /\ (WellFormed(Current) => Framed(Current))
  BY <1>1 DEF Working
<1>3. Current.fields \in Seq(Text)
  BY <1>2 DEF Message
<1> QED BY <1>2, <1>3

LEMMA AddHeaderPlace == Inv /\ PlaceInv /\ AddHeader => PlaceInv'
<1> SUFFICES ASSUME Inv, PlaceInv, AddHeader PROVE PlaceInv'
  OBVIOUS
<1>1. /\ pc = "parse" /\ context.state = "headers" /\ ~Partial /\ ~Refused /\ buf' = AfterLine(buf)
      /\ CurrentLine # <<>> /\ UNCHANGED <<plan, delivered, pc, sent, handled>>
      /\ context' = [context EXCEPT !.request = WithHeader(@, Field)]
  BY DEF AddHeader
<1>2. /\ plan \in Plans /\ Len(handled) <= Len(plan) /\ Len(All) \in Nat
      /\ DOMAIN context = {"state", "request", "stopped"}
      /\ AtLine \/ AtBody \/ \E j \in Nat : AtField(j)
  BY <1>1, ParseStage
<1>3. PICK j \in Nat : AtField(j)
  BY <1>1, <1>2 DEF AtBody, AtLine
<1>4. Len(handled) < Len(plan) /\ j <= Len(Current.fields) /\ ReadHead(context.request, Current, j)
  BY <1>3 DEF AtField
<1>5. PICK m \in Message : m = Current
  BY <1>2, <1>4, FieldCount
<1>6. PICK f \in Nat : f = Len(m.fields)
  BY <1>2, <1>4, <1>5, FieldCount
<1>7. HasLine(buf)
  BY <1>1 DEF Partial
<1>8. j < f
  <2>1. j # f
    BY <1>1, <1>2, <1>3, <1>5, <1>6, <1>7, EndStage
  <2> QED BY <1>4, <1>5, <1>6, <2>1
<1>9. 3 <= Len(buf) /\ Field = FieldAt(m, j + 1) /\ buf' = SubSeq(buf, 4, Len(buf))
  BY <1>1, <1>2, <1>3, <1>5, <1>6, <1>7, <1>8, FieldStage
<1>10. Field # Malformed /\ ~Conflict(context.request, Field)
  BY <1>1, <1>7 DEF Refused
<1>11. IsSequence(FieldAt(m, j + 1).value)
  <2>1. PICK i \in 1..f : i = j + 1
    BY <1>8
  <2>2. m.fields[i] \in Text
    BY <1>2, <1>4, <1>5, <1>6, FieldCount
  <2>3. \A t \in Text : FieldOf[t] # Malformed => IsSequence(FieldOf[t].value)
    BY <1>2, PlanTypes
  <2> QED BY <1>9, <1>10, <2>1, <2>2, <2>3 DEF FieldAt
<1>12. PICK r : r = context.request /\ ReadHead(r, m, j)
  BY <1>4, <1>5
<1>13. ReadHead(WithHeader(r, FieldAt(m, j + 1)), m, j + 1)
  BY <1>6, <1>8, <1>9, <1>10, <1>11, <1>12, HeadGrows
<1>14. context'.state = "headers" /\ context'.request = WithHeader(r, FieldAt(m, j + 1))
  BY <1>1, <1>2, <1>9, <1>12
<1>15. PICK s \in Nat : s = Start + 3 * j + 3 /\ Window(s) /\ s + 3 = Start + 3 * (j + 1) + 3
  <2>1. Start \in Nat
    BY <1>2, <1>4, FieldCount
  <2> QED BY <1>3, <2>1 DEF AtField
<1>16. Window(s + 3)'
  <2>1. 3 \in Nat /\ 3 + 1 = 4
    OBVIOUS
  <2>2. buf' = SubSeq(buf, 3 + 1, Len(buf))
    BY <1>9, <2>1
  <2> QED BY <1>1, <1>2, <1>9, <1>15, <2>1, <2>2, WindowMoves
<1>17. PICK h \in Nat : h = j + 1
  OBVIOUS
<1>18. h <= Len(Current.fields)
  BY <1>5, <1>6, <1>8, <1>17
<1>19. ReadHead(context'.request, Current, h)
  BY <1>5, <1>13, <1>14, <1>17
<1>20. PICK at : at = Start + 3 * h + 3 /\ Window(at)'
  BY <1>15, <1>16, <1>17
<1>21. pc' = "parse" /\ UNCHANGED <<plan, delivered, sent, handled>> /\ context'.state = "headers"
  BY <1>1, <1>14
<1> QED BY <1>4, <1>18, <1>19, <1>20, <1>21, GoesOnWithFields

\* The last byte of the message in work.
LEMMA EndOfMessage ==
    ASSUME Inv, plan \in Plans, Len(handled) < Len(plan)
    PROVE  /\ Len(Current.body) \in Nat
           /\ Len(Wire(Len(handled) + 1)) = Start + 3 * Len(Current.fields) + 5 + Len(Current.body)
<1>1. PICK m, k : m = Current /\ k = Len(handled) /\ Working(m, k)
  BY WorkingOn
<1>2. PICK e, f, l : LaidOut(m, e, f, l)
  BY <1>1, Layout
<1>3. e = Encode(m) /\ f \in Nat /\ l \in Nat /\ f = Len(m.fields) /\ l = Len(m.body) /\ Len(e) = 3 * f + 5 + l
  BY <1>2 DEF LaidOut
<1>4. Start \in Nat /\ Len(Wire(k + 1)) = Start + Len(e)
  BY <1>1, <1>3 DEF Working
<1>5. PICK w, n, s : w = Len(Wire(k + 1)) /\ n = Len(e) /\ s = Start
  OBVIOUS
<1>6. w = s + n /\ n = 3 * f + 5 + l /\ s \in Nat /\ f \in Nat /\ l \in Nat
  BY <1>3, <1>4, <1>5
<1>7. w = s + 3 * f + 5 + l
  BY <1>6
<1> QED BY <1>1, <1>3, <1>5, <1>7

\* The parser has the whole message.
LEMMA GoesOnWithRequest ==
    ASSUME Inv, PlaceInv, UNCHANGED <<plan, delivered, sent, handled>>, pc' = "request",
           Len(handled) < Len(plan), WellFormed(Current), context'.state = "gotAll",
           Matches(context'.request, Current),
           NEW at, at = Start + 3 * Len(Current.fields) + 5 + Len(Current.body), Window(at)'
    PROVE  PlaceInv'
<1>1. Current' = Current
  BY PlacesKept
<1>2. plan \in Plans /\ Len(handled) <= Len(plan) /\ delivered \in Nat
  BY DEF PlaceInv, Parsing
<1>3. Wire(Len(handled) + 1)' = Wire(Len(handled) + 1)
  BY DEF Wire
<1>4. at = Len(Wire(Len(handled) + 1))
  BY <1>2, EndOfMessage
<1>5. Window(Len(Wire(Len(handled) + 1)))'
  BY <1>3, <1>4
<1>6. WellFormed(Current)' <=> WellFormed(Current)
  BY <1>1
<1>7. AtEnd'
  BY <1>1, <1>5, <1>6 DEF AtEnd
<1>8. Parsing'
  BY <1>2, <1>7 DEF Parsing
<1>9. /\ \A k \in 1..Len(handled') : Handled(k)'
      /\ \A i \in 1..Len(sent') : Rightly(i)'
  BY <1>2, HistoryKept
<1> QED BY <1>8, <1>9 DEF PlaceInv

LEMMA EndHeadersPlace == Inv /\ PlaceInv /\ EndHeaders => PlaceInv'
<1> SUFFICES ASSUME Inv, PlaceInv, EndHeaders PROVE PlaceInv'
  OBVIOUS
<1> DEFINE length == BodyLength(context.request)
<1>1. /\ pc = "parse" /\ context.state = "headers" /\ ~Partial /\ ~Refused /\ buf' = AfterLine(buf)
      /\ CurrentLine = <<>> /\ UNCHANGED <<plan, delivered, sent, handled>>
      /\ IF length > 0
         THEN /\ context' = [context EXCEPT !.state = "body", !.request.contentLength = length]
              /\ UNCHANGED pc
         ELSE context' = [context EXCEPT !.state = "gotAll"] /\ pc' = "request"
  BY DEF EndHeaders
<1>2. /\ plan \in Plans /\ Len(handled) <= Len(plan) /\ Len(All) \in Nat /\ delivered \in Nat
      /\ DOMAIN context = {"state", "request", "stopped"}
      /\ AtLine \/ AtBody \/ \E j \in Nat : AtField(j)
  BY <1>1, ParseStage
<1>3. PICK j \in Nat : AtField(j)
  BY <1>1, <1>2 DEF AtBody, AtLine
<1>4. Len(handled) < Len(plan) /\ j <= Len(Current.fields) /\ ReadHead(context.request, Current, j)
  BY <1>3 DEF AtField
<1>5. PICK m \in Message : m = Current /\ (WellFormed(m) => Framed(m))
  BY <1>2, <1>4, FieldCount
<1>6. PICK f \in Nat : f = Len(m.fields)
  BY <1>2, <1>4, <1>5, FieldCount
<1>7. HasLine(buf)
  BY <1>1 DEF Partial
<1>8. j = f
  <2>1. ~(j < f)
    BY <1>1, <1>2, <1>3, <1>5, <1>6, <1>7, FieldStage
  <2> QED BY <1>4, <1>5, <1>6, <2>1
<1>9. 2 <= Len(buf) /\ buf' = SubSeq(buf, 3, Len(buf))
  BY <1>1, <1>2, <1>3, <1>5, <1>6, <1>7, <1>8, EndStage
<1>10. PICK r : r = context.request /\ ReadHead(r, m, Len(m.fields))
  BY <1>4, <1>5, <1>6, <1>8
<1>11. length = IF WellFormed(m) THEN Len(m.body) ELSE -1
  BY <1>2, <1>5, <1>10, PlanTypes, BodyLengthIs
<1>12. length # -1
  BY <1>1, <1>7 DEF Refused
<1>13. WellFormed(m) /\ length = Len(m.body)
  BY <1>11, <1>12
<1>14. PICK l \in Nat : l = Len(m.body)
  BY <1>2, <1>4, <1>5, EndOfMessage
<1>15. PICK s \in Nat : s = Start + 3 * f + 3 /\ Window(s) /\ s + 2 = Start + 3 * f + 5
  <2>1. Start \in Nat
    BY <1>2, <1>4, FieldCount
  <2> QED BY <1>3, <1>8, <2>1 DEF AtField
<1>16. Window(s + 2)'
  <2>1. 2 \in Nat /\ 2 + 1 = 3
    OBVIOUS
  <2>2. buf' = SubSeq(buf, 2 + 1, Len(buf))
    BY <1>9, <2>1
  <2> QED BY <1>1, <1>2, <1>9, <1>15, <2>1, <2>2, WindowMoves
<1>17. DOMAIN r = RequestFields /\ r.content = <<>>
  BY <1>10 DEF ReadHead
<1>18. CASE l > 0
  <2>1. pc' = "parse" /\ context' = [context EXCEPT !.state = "body", !.request.contentLength = l]
    BY <1>1, <1>13, <1>14, <1>18
  <2>2. PICK q : q = context'.request
    OBVIOUS
  <2>3. q = [r EXCEPT !.contentLength = l] /\ context'.state = "body"
    BY <1>2, <1>10, <2>1, <2>2
  <2>4. /\ DOMAIN q = RequestFields /\ q.contentLength = l /\ q.content = r.content
        /\ q.method = r.method /\ q.path = r.path /\ q.version = r.version /\ q.headers = r.headers
    BY <1>17, <2>3 DEF RequestFields
  <2>5. ReadHead(q, m, Len(m.fields))
    BY <1>10, <2>4, HeadOfOther
  <2>6. Current' = m /\ Start' = Start /\ Len(handled') < Len(plan')
    BY <1>1, <1>4, <1>5, PlacesKept
  <2>7. Window(Start + 3 * Len(Current.fields) + 5)'
    BY <1>6, <1>15, <1>16, <2>6
  <2>8. WellFormed(Current)' <=> WellFormed(m)
    BY <2>6
  <2>9. AtBody'
    BY <1>13, <1>14, <2>2, <2>3, <2>4, <2>5, <2>6, <2>7, <2>8 DEF AtBody
  <2>10. Parsing'
    BY <1>1, <1>2, <2>1, <2>9 DEF Parsing
  <2>11. /\ \A k \in 1..Len(handled') : Handled(k)'
         /\ \A i \in 1..Len(sent') : Rightly(i)'
    BY <1>1, <1>2, HistoryKept
  <2> QED BY <2>1, <2>10, <2>11 DEF PlaceInv
<1>19. CASE l = 0
  <2>1. pc' = "request" /\ context' = [context EXCEPT !.state = "gotAll"]
    BY <1>1, <1>13, <1>14, <1>19
  <2>2. context'.request = r /\ context'.state = "gotAll"
    BY <1>2, <1>10, <2>1
  <2>3. m.body = <<>>
    <3>1. PICK b \in Seq(Byte) : b = m.body
      BY DEF Message
    <3>2. Len(b) = 0
      BY <1>14, <1>19, <3>1
    <3>3. b = <<>>
      BY <3>2
    <3> QED BY <3>1, <3>3
  <2>4. Matches(r, m)
    BY <1>10, <1>17, <2>3, HeadMatches
  <2>5. PICK at : at = s + 2
    OBVIOUS
  <2>6. at = Start + 3 * f + 5 + l
    <3>1. Start \in Nat
      BY <1>2, <1>4, FieldCount
    <3> QED BY <1>15, <1>19, <2>5, <3>1
  <2>7. at = Start + 3 * Len(Current.fields) + 5 + Len(Current.body) /\ Window(at)'
    BY <1>5, <1>6, <1>14, <1>16, <2>5, <2>6
  <2>8. Matches(context'.request, Current) /\ WellFormed(Current)
    BY <1>5, <1>13, <2>2, <2>4
  <2> QED BY <1>1, <1>4, <2>1, <2>2, <2>7, <2>8, GoesOnWithRequest
<1> QED BY <1>14, <1>18, <1>19

LEMMA ReadBodyPlace == Inv /\ PlaceInv /\ ReadBody => PlaceInv'
<1> SUFFICES ASSUME Inv, PlaceInv, ReadBody PROVE PlaceInv'
  OBVIOUS
<1>1. PICK n : n = context.request.contentLength
  OBVIOUS
<1>2. /\ pc = "parse" /\ context.state = "body" /\ ~Partial
      /\ context' = [context EXCEPT !.state = "gotAll", !.request.content = SubSeq(buf, 1, n)]
      /\ buf' = SubSeq(buf, n + 1, Len(buf)) /\ pc' = "request"
      /\ UNCHANGED <<plan, delivered, sent, handled>>
  BY <1>1 DEF ReadBody
<1>3. /\ plan \in Plans /\ Len(handled) <= Len(plan) /\ Len(All) \in Nat /\ delivered \in Nat
      /\ DOMAIN context = {"state", "request", "stopped"}
      /\ AtLine \/ AtBody \/ \E j \in Nat : AtField(j)
  BY <1>2, ParseStage
<1>4. AtBody
  BY <1>2, <1>3 DEF AtLine, AtField
<1>5. n \in Nat /\ n <= Len(buf) /\ SubSeq(buf, 1, n) = Current.body
  <2>1. n \in Nat /\ Len(buf) \in Nat /\ ~(Len(buf) < n)
    BY <1>1, <1>2, <1>3, <1>4, BodyStage DEF Partial
  <2>2. n <= Len(buf)
    BY <2>1
  <2> QED BY <1>1, <1>3, <1>4, <2>1, <2>2, BodyStage
<1>6. /\ Len(handled) < Len(plan) /\ WellFormed(Current) /\ n = Len(Current.body)
      /\ ReadHead(context.request, Current, Len(Current.fields))
  BY <1>1, <1>4 DEF AtBody
<1>7. PICK r, q : r = context.request /\ q = context'.request
  OBVIOUS
<1>8. q = [r EXCEPT !.content = Current.body] /\ context'.state = "gotAll"
  BY <1>2, <1>3, <1>5, <1>7
<1>9. DOMAIN r = RequestFields /\ ReadHead(r, Current, Len(Current.fields))
  BY <1>6, <1>7 DEF ReadHead
<1>10. /\ q.content = Current.body /\ q.method = r.method /\ q.path = r.path /\ q.version = r.version
       /\ q.headers = r.headers
  BY <1>8, <1>9 DEF RequestFields
<1>11. Matches(q, Current)
  BY <1>9, <1>10, HeadMatches
<1>12. PICK s \in Nat : s = Start + 3 * Len(Current.fields) + 5 /\ Window(s)
  BY <1>4 DEF AtBody, Window
<1>13. Window(s + n)'
  BY <1>2, <1>3, <1>5, <1>12, WindowMoves
<1>14. PICK at : at = s + n
  OBVIOUS
<1>15. at = Start + 3 * Len(Current.fields) + 5 + Len(Current.body) /\ Window(at)'
  BY <1>6, <1>12, <1>13, <1>14
<1> QED BY <1>2, <1>6, <1>7, <1>8, <1>11, <1>15, GoesOnWithRequest

\* A connection that is stopped has no place on the wire to keep.
LEMMA StoppedPlace ==
    ASSUME plan' \in Plans, Len(handled') <= Len(plan'), delivered' \in Nat, context'.stopped,
           \A k \in 1..Len(handled') : Handled(k)', \A i \in 1..Len(sent') : Rightly(i)'
    PROVE  PlaceInv'
<1>1. Parsing'
  BY DEF Parsing
<1> QED BY <1>1 DEF PlaceInv

\* A message is refused only when it is not well-formed.
LEMMA RefusedRightly ==
    ASSUME Inv, PlaceInv, pc = "parse", Refused
    PROVE  Len(handled) < Len(plan) /\ ~WellFormed(Current)
<1>1. /\ plan \in Plans /\ Len(handled) <= Len(plan)
      /\ AtLine \/ AtBody \/ \E j \in Nat : AtField(j)
  BY ParseStage
<1>2. HasLine(buf)
  BY DEF Refused
<1>3. CASE AtLine
  <2>1. Len(handled) < Len(plan)
    BY <1>1, <1>2, <1>3, NoMoreLines
  <2>2. context.state = "line"
    BY <1>3 DEF AtLine
  <2>3. Meaning(LineOf, CurrentLine) = Malformed
    BY <2>2 DEF Refused
  <2>4. LineOf[Current.line] = Malformed
    BY <1>1, <1>2, <1>3, <2>1, <2>3, LineStage
  <2> QED BY <2>1, <2>4, WellFormedIs
<1>4. CASE AtBody
  <2>1. context.state = "body"
    BY <1>4 DEF AtBody
  <2> QED BY <2>1 DEF Refused
<1>5. ASSUME NEW j \in Nat, AtField(j) PROVE Len(handled) < Len(plan) /\ ~WellFormed(Current)
  <2>1. /\ context.state = "headers" /\ Len(handled) < Len(plan) /\ j <= Len(Current.fields)
        /\ ReadHead(context.request, Current, j)
    BY <1>5 DEF AtField
  <2>2. PICK m \in Message : m = Current /\ (WellFormed(m) => Framed(m))
    BY <1>1, <2>1, FieldCount
  <2>3. PICK f \in Nat : f = Len(m.fields)
    BY <1>1, <2>1, <2>2, FieldCount
  <2>4. PICK r : r = context.request
    OBVIOUS
  <2>5. CASE j < f
    <3>1. CurrentLine # <<>> /\ Field = FieldAt(m, j + 1)
      BY <1>1, <1>2, <1>5, <2>2, <2>3, <2>5, FieldStage
    <3>2. FieldAt(m, j + 1) = Malformed \/ Conflict(r, FieldAt(m, j + 1))
      BY <2>1, <2>4, <3>1 DEF Refused
    <3>3. CASE FieldAt(m, j + 1) = Malformed
      <4>1. j + 1 \in 1..Len(m.fields)
        BY <2>3, <2>5
      <4> QED BY <2>1, <2>2, <3>3, <4>1, WellFormedIs
    <3>4. CASE Conflict(r, FieldAt(m, j + 1))
      BY <2>1, <2>2, <2>3, <2>4, <2>5, <3>4, ConflictRefused
    <3> QED BY <3>2, <3>3, <3>4
  <2>6. CASE j = f
    <3>1. CurrentLine = <<>>
      BY <1>1, <1>2, <1>5, <2>2, <2>3, <2>6, EndStage
    <3>2. BodyLength(r) = -1
      BY <2>1, <2>4, <3>1 DEF Refused
    <3>3. ReadHead(r, m, Len(m.fields))
      BY <2>1, <2>2, <2>3, <2>4, <2>6
    <3>4. BodyLength(r) = IF WellFormed(m) THEN Len(m.body) ELSE -1
      BY <1>1, <2>2, <3>3, PlanTypes, BodyLengthIs
    <3>5. Len(m.body) \in Nat
      BY <1>1, <2>1, <2>2, EndOfMessage
    <3> QED BY <2>1, <2>2, <3>2, <3>4, <3>5
  <2> QED BY <2>1, <2>2, <2>3, <2>5, <2>6
<1> QED BY <1>1, <1>3, <1>4, <1>5

\* A request that was handled stays handled.
LEMMA HandledStays ==
    ASSUME PlaceInv, UNCHANGED <<plan, delivered>>, NEW k \in 1..Len(handled), handled'[k] = handled[k]
    PROVE  Handled(k)'
<1>1. Handled(k)
  BY DEF PlaceInv
<1>2. Arrived(k)' <=> Arrived(k)
  BY DEF Arrived, Wire
<1> QED BY <1>1, <1>2 DEF Handled

LEMMA RejectPlace == Inv /\ PlaceInv /\ Reject => PlaceInv'
<1> SUFFICES ASSUME Inv, PlaceInv, Reject PROVE PlaceInv'
  OBVIOUS
<1>1. pc = "parse" /\ Refused /\ Send(<<Refusal>>) /\ UNCHANGED <<plan, delivered, handled>>
  BY DEF Reject
<1>2. context' = [context EXCEPT !.stopped = TRUE] /\ DOMAIN context = {"state", "request", "stopped"}
  BY DEF Reject, Stop, Inv, TypeInv
<1>3. context'.stopped
  BY <1>2
<1>4. Len(handled) < Len(plan) /\ ~WellFormed(plan[Len(handled) + 1])
  BY <1>1, RefusedRightly DEF Current
<1>5. \A i \in 1..Len(sent') : Rightly(i)'
  BY <1>1, <1>4 DEF Rightly
<1>6. \A k \in 1..Len(handled') : Handled(k)'
  BY <1>1, HandledStays
<1>7. plan' \in Plans /\ Len(handled') <= Len(plan') /\ delivered' \in Nat
  BY <1>1 DEF PlaceInv, Parsing
<1> QED BY <1>3, <1>5, <1>6, <1>7, StoppedPlace

\* What onRequest does to the histories, whatever the handler.
LEMMA RequestHandled ==
    ASSUME Inv, PlaceInv, Handle, UNCHANGED <<plan, delivered>>, NEW e \in Entry,
           e.request = Len(handled) + 1, Send(<<e>>)
    PROVE  /\ plan' \in Plans /\ Len(handled') <= Len(plan') /\ delivered' \in Nat
           /\ Len(handled) \in Nat /\ Len(handled') = Len(handled) + 1 /\ AtEnd
           /\ \A k \in 1..Len(handled') : Handled(k)'
           /\ \A i \in 1..Len(sent') : Rightly(i)'
<1>1. pc = "request" /\ handled' = Append(handled, context.request)
  BY DEF Handle
<1>2. conn = "up" /\ ~context.stopped /\ IsSeq(handled) /\ sent \in Seq(Entry)
  BY <1>1 DEF Inv, Looping, TypeInv
<1>3. plan \in Plans /\ delivered \in Nat /\ AtEnd
  BY <1>1, <1>2 DEF PlaceInv, Parsing
<1>4. PICK n \in Nat : n = Len(handled)
  BY <1>1, <1>2, HandledGrows
<1>5. /\ Len(handled') = n + 1 /\ handled'[n + 1] = context.request
      /\ \A i \in 1..n : handled'[i] = handled[i]
  BY <1>1, <1>2, <1>4, HandledGrows
<1>6. n < Len(plan) /\ WellFormed(plan[n + 1]) /\ Matches(context.request, plan[n + 1])
  BY <1>3, <1>4 DEF AtEnd, Current
<1>7. Len(plan) \in Nat /\ n + 1 <= Len(plan)
  BY <1>3, <1>6, PlanTypes
<1>8. ASSUME NEW k \in 1..(n + 1) PROVE Handled(k)'
  <2>1. CASE k \in 1..n
    BY <1>4, <1>5, <2>1, HandledStays
  <2>2. CASE k = n + 1
    <3>1. Len(Wire(n + 1)) <= delivered
      BY <1>3, <1>4 DEF AtEnd, Window
    <3>2. Wire(n + 1)' = Wire(n + 1)
      BY DEF Wire
    <3>3. Arrived(n + 1)'
      BY <1>7, <3>1, <3>2 DEF Arrived
    <3> QED BY <1>5, <1>6, <2>2, <3>3 DEF Handled
  <2>3. k \in 1..n \/ k = n + 1
    OBVIOUS
  <2> QED BY <2>1, <2>2, <2>3
<1>9. Len(sent) = n /\ \A i \in 1..n : sent[i].kind = "answer"
  BY <1>2, <1>4 DEF Inv, Taking
<1>10. Len(sent') = n + 1 /\ sent'[n + 1] = e /\ \A i \in 1..n : sent'[i] = sent[i]
  BY <1>2, <1>9, SentGrows
<1>11. ASSUME NEW i \in 1..(n + 1) PROVE Rightly(i)'
  <2>1. CASE i \in 1..n
    BY <1>9, <1>10, <2>1 DEF Rightly
  <2>2. CASE i = n + 1
    <3>1. sent'[i].request = n + 1 /\ ~(n + 1 > n + 1)
      BY <1>4, <1>10, <2>2
    <3> QED BY <1>5, <3>1 DEF Rightly
  <2>3. i \in 1..n \/ i = n + 1
    OBVIOUS
  <2> QED BY <2>1, <2>2, <2>3
<1> QED BY <1>3, <1>4, <1>5, <1>7, <1>8, <1>10, <1>11

\* The next message has a request line and an empty line at least.
LEMMA NextHasBytes ==
    ASSUME plan \in Plans, NEW k \in Nat, k + 1 <= Len(plan)
    PROVE  Len(Wire(k)) \in Nat /\ Len(Wire(k + 1)) \in Nat /\ Len(Wire(k)) < Len(Wire(k + 1))
<1>1. plan \in Seq(Message) /\ Len(plan) \in Nat
  BY PlanTypes
<1>2. k < Len(plan)
  BY <1>1
<1>3. PICK m : m = plan[k + 1]
  OBVIOUS
<1>4. /\ m \in Message /\ Len(Wire(k)) \in Nat /\ Len(Wire(k + 1)) = Len(Wire(k)) + Len(Encode(m))
      /\ Spells(Encode(m), m)
  BY <1>1, <1>2, <1>3, OnTheWire
<1>5. Len(m.fields) \in Nat /\ Len(m.body) \in Nat
  BY <1>4 DEF Message
<1>6. Len(Encode(m)) = 3 * Len(m.fields) + 5 + Len(m.body)
  BY <1>4 DEF Spells
<1>7. PICK w, v, e, f, l : /\ w = Len(Wire(k)) /\ v = Len(Wire(k + 1)) /\ e = Len(Encode(m))
                           /\ f = Len(m.fields) /\ l = Len(m.body)
  OBVIOUS
<1>8. w \in Nat /\ v = w + e /\ e = 3 * f + 5 + l /\ f \in Nat /\ l \in Nat
  BY <1>4, <1>5, <1>6, <1>7
<1>9. v \in Nat /\ w < v
  BY <1>8
<1> QED BY <1>7, <1>8, <1>9

LEMMA RespondPlace ==
    ASSUME Inv, PlaceInv, Handle, NEW code \in Nat, NEW close \in BOOLEAN, Respond(code, close)
    PROVE  PlaceInv'
<1>1. PICK closes \in BOOLEAN : closes <=> close \/ CloseAsked(context.request)
  OBVIOUS
<1> DEFINE e == Answer(code, closes)
<1>2. (close \/ CloseAsked(context.request)) = closes
  BY <1>1 DEF CloseAsked
<1>3. /\ Send(<<e>>) /\ UNCHANGED <<plan, delivered>>
      /\ IF closes THEN Shutdown /\ Stop(Reset(context))
         ELSE /\ context' = Reset(context) /\ pc' = (IF buf = <<>> THEN "idle" ELSE "parse")
              /\ UNCHANGED buf
  BY <1>2 DEF Respond
<1>4. PICK n \in Nat : n = Len(handled)
  BY DEF Inv, TypeInv, IsSeq
<1>5. e \in Entry /\ e.request = Len(handled) + 1
  BY <1>4 DEF Answer, Entry
<1> HIDE DEF e
<1>6. /\ plan' \in Plans /\ Len(handled') <= Len(plan') /\ delivered' \in Nat
      /\ Len(handled') = n + 1 /\ AtEnd
      /\ \A k \in 1..Len(handled') : Handled(k)'
      /\ \A i \in 1..Len(sent') : Rightly(i)'
  BY <1>3, <1>4, <1>5, RequestHandled
<1>7. CASE closes = TRUE
  <2>1. context'.stopped
    BY <1>3, <1>7, StopStops DEF StoppedContext
  <2> QED BY <1>6, <2>1, StoppedPlace
<1>8. CASE closes = FALSE
  <2>1. context' = Reset(context) /\ pc' = (IF buf = <<>> THEN "idle" ELSE "parse") /\ UNCHANGED buf
    BY <1>3, <1>8
  <2>2. DOMAIN context = {"state", "request", "stopped"}
    BY DEF Inv, TypeInv
  <2>3. context'.state = "line" /\ context'.request = EmptyRequest
    BY <2>1, <2>2 DEF Reset
  <2>4. PICK at : at = Len(Wire(n + 1)) /\ Window(at)
    BY <1>4, <1>6 DEF AtEnd
  <2>5. Window(at)'
    BY <1>3, <2>1, <2>4, WindowKept
  <2>6. Wire(n + 1)' = Wire(n + 1)
    BY <1>3 DEF Wire
  <2>7. Start' = at
    BY <1>6, <2>4, <2>6 DEF Start
  <2>8. AtLine'
    BY <2>3, <2>5, <2>7 DEF AtLine
  <2>9. Parsing'
    BY <1>6, <2>1, <2>8 DEF Parsing
  <2>10. ASSUME pc' = "idle" PROVE ~Arrived(Len(handled) + 1)'
    <3>1. buf = <<>>
      BY <2>1, <2>10
    <3>2. PICK d \in Nat : d = delivered /\ d = at /\ at \in Nat
      <4>1. Len(buf) = delivered - at /\ delivered \in Nat /\ at \in Nat
        BY <2>4 DEF Window
      <4>2. Len(buf) = 0
        BY <3>1
      <4> QED BY <4>1, <4>2
    <3>3. PICK k \in Nat : k = n + 1
      OBVIOUS
    <3>4. ASSUME k + 1 <= Len(plan) PROVE ~(Len(Wire(k + 1)) <= delivered)
      <4>1. plan \in Plans
        BY DEF PlaceInv, Parsing
      <4>2. Len(Wire(k)) \in Nat /\ Len(Wire(k + 1)) \in Nat /\ Len(Wire(k)) < Len(Wire(k + 1))
        BY <3>4, <4>1, NextHasBytes
      <4>3. Len(Wire(k)) = d
        BY <2>4, <3>2, <3>3
      <4> QED BY <3>2, <4>2, <4>3
    <3>5. Wire(k + 1)' = Wire(k + 1)
      BY <1>3 DEF Wire
    <3> QED BY <1>3, <1>6, <3>3, <3>4, <3>5 DEF Arrived
  <2> QED BY <1>6, <2>9, <2>10 DEF PlaceInv
<1> QED BY <1>7, <1>8

\* Streams, and a callback that throws, end it as well.
LEMMA LastRequestPlace ==
    ASSUME Inv, PlaceInv, CallbackThrows \/ TakeOver \/ TakeOverFails
    PROVE  PlaceInv'
<1>1. Len(handled) \in Nat
  BY DEF Inv, TypeInv, IsSeq
<1>2. /\ Refusal \in Entry /\ Refusal.request = Len(handled) + 1
      /\ StreamHead \in Entry /\ StreamHead.request = Len(handled) + 1
  BY <1>1 DEF Refusal, StreamHead, Entry
<1>3. /\ Handle /\ UNCHANGED <<plan, delivered>> /\ (Stop(context) \/ Stop(Reset(context)))
      /\ Send(<<Refusal>>) \/ Send(<<StreamHead>>)
  BY DEF CallbackThrows, TakeOver, TakeOverFails
<1>4. /\ plan' \in Plans /\ Len(handled') <= Len(plan') /\ delivered' \in Nat
      /\ \A k \in 1..Len(handled') : Handled(k)'
      /\ \A i \in 1..Len(sent') : Rightly(i)'
  BY <1>2, <1>3, RequestHandled
<1>5. context'.stopped
  BY <1>3, StopStops DEF StoppedContext
<1> QED BY <1>4, <1>5, StoppedPlace

\* A step that leaves the parser alone.
LEMMA AsidePlace ==
    ASSUME PlaceInv, UNCHANGED <<plan, delivered, buf, pc, context, handled>>,
           \A i \in 1..Len(sent') : Rightly(i)'
    PROVE  PlaceInv'
<1>1. plan \in Plans /\ Len(handled) <= Len(plan) /\ delivered \in Nat
  BY DEF PlaceInv, Parsing
<1>2. ASSUME ~context.stopped, pc = "request" PROVE AtEnd'
  <2>1. AtEnd
    BY <1>2 DEF PlaceInv, Parsing
  <2>2. Current' = Current /\ Wire(Len(handled) + 1)' = Wire(Len(handled) + 1)
    BY DEF Current, Wire
  <2>3. PICK at : at = Len(Wire(Len(handled) + 1)) /\ Window(at)
    BY <2>1 DEF AtEnd
  <2>4. Window(at)'
    BY <2>3, WindowKept
  <2>5. Window(Len(Wire(Len(handled) + 1)))'
    BY <2>2, <2>3, <2>4
  <2>6. WellFormed(Current)' <=> WellFormed(Current)
    BY <2>2
  <2> QED BY <2>1, <2>2, <2>5, <2>6 DEF AtEnd
<1>3. ASSUME ~context.stopped, pc # "request" PROVE AtLine' \/ AtBody' \/ \E j \in Nat : AtField(j)'
  <2>1. AtLine \/ AtBody \/ \E j \in Nat : AtField(j)
    BY <1>3 DEF PlaceInv, Parsing
  <2> QED BY <2>1, PlaceKept
<1>4. Parsing'
  BY <1>1, <1>2, <1>3 DEF Parsing
<1>5. \A k \in 1..Len(handled') : Handled(k)'
  BY HandledStays
<1>6. Arrived(Len(handled) + 1)' <=> Arrived(Len(handled) + 1)
  BY DEF Arrived, Wire
<1> QED BY <1>4, <1>5, <1>6 DEF PlaceInv

LEMMA EventPlace ==
    ASSUME Inv, PlaceInv, UNCHANGED <<plan, delivered, buf, pc, context, handled>>,
           NEW kind \in {"token", "done"}, Send(<<Event(kind)>>)
    PROVE  PlaceInv'
<1>1. \A i \in 1..Len(sent) : Rightly(i)
  BY DEF PlaceInv
<1>2. sent \in Seq(Entry) /\ Len(handled) \in Nat
  BY DEF Inv, TypeInv, IsSeq
<1>3. Event(kind) \in Entry /\ Event(kind).kind = kind
  BY <1>2 DEF Event, Entry
<1>4. CASE conn # "up"
  BY <1>1, <1>4, AsidePlace DEF Send, Rightly
<1>5. CASE conn = "up"
  <2>1. PICK n \in Nat : n = Len(sent)
    BY <1>2
  <2>2. Len(sent') = n + 1 /\ sent'[n + 1] = Event(kind) /\ \A i \in 1..n : sent'[i] = sent[i]
    BY <1>2, <1>3, <1>5, <2>1, SentGrows
  <2>3. ASSUME NEW i \in 1..(n + 1) PROVE Rightly(i)'
    <3>1. CASE i \in 1..n
      BY <1>1, <2>1, <2>2, <3>1 DEF Rightly
    <3>2. CASE i = n + 1
      BY <1>3, <2>2, <3>2 DEF Rightly
    <3> QED BY <3>1, <3>2
  <2> QED BY <2>2, <2>3, AsidePlace
<1> QED BY <1>4, <1>5

LEMMA DeliverPlace ==
    ASSUME Inv, PlaceInv, NEW n \in 1..(Len(All) - delivered), Deliver(n)
    PROVE  PlaceInv'
<1>1. plan \in Plans /\ Len(handled) <= Len(plan) /\ delivered \in Nat
  BY DEF PlaceInv, Parsing
<1>2. All \in Seq(Byte) /\ Len(All) \in Nat
  BY <1>1, PlanTypes, AllLen
<1>3. n \in Nat /\ delivered + n \in Nat /\ delivered <= delivered + n
  BY <1>1, <1>2
<1>4. pc = "idle" /\ delivered' = delivered + n /\ UNCHANGED <<plan, sent, handled>>
  BY DEF Deliver
<1>5. /\ \A k \in 1..Len(handled') : Handled(k)'
      /\ \A i \in 1..Len(sent') : Rightly(i)'
  BY <1>3, <1>4, HistoryKept
<1>6. CASE context.stopped \/ conn # "up"
  <2>1. context'.stopped
    BY <1>6, StopStops DEF Deliver, StoppedContext
  <2> QED BY <1>1, <1>3, <1>4, <1>5, <2>1, StoppedPlace
<1>7. CASE ~context.stopped /\ conn = "up"
  <2>1. /\ buf' = buf \o SubSeq(All, delivered + 1, delivered + n)
        /\ pc' = "parse" /\ UNCHANGED context
    BY <1>7 DEF Deliver, All
  <2>2. \A at : Window(at) => Window(at)'
    BY <1>2, <1>4, <2>1, WindowGrows
  <2>3. AtLine \/ AtBody \/ \E j \in Nat : AtField(j)
    BY <1>4, <1>7 DEF PlaceInv, Parsing
  <2>4. Current' = Current /\ Start' = Start
    BY <1>4, PlacesKept
  <2>5. ASSUME AtLine PROVE AtLine'
    <3>1. PICK at : at = Start /\ Window(at)
      BY <2>5 DEF AtLine
    <3>2. Window(Start)'
      BY <2>2, <2>4, <3>1
    <3> QED BY <2>1, <2>5, <3>2 DEF AtLine
  <2>6. ASSUME AtBody PROVE AtBody'
    <3>1. PICK at : at = Start + 3 * Len(Current.fields) + 5 /\ Window(at)
      BY <2>6 DEF AtBody
    <3>2. Window(Start + 3 * Len(Current.fields) + 5)'
      BY <2>2, <2>4, <3>1
    <3> QED BY <1>4, <2>1, <2>4, <2>6, <3>2 DEF AtBody
  <2>7. ASSUME NEW j \in Nat, AtField(j) PROVE AtField(j)'
    <3>1. PICK at : at = Start + 3 * j + 3 /\ Window(at)
      BY <2>7 DEF AtField
    <3>2. Window(Start + 3 * j + 3)'
      BY <2>2, <2>4, <3>1
    <3> QED BY <1>4, <2>1, <2>4, <2>7, <3>2 DEF AtField
  <2>8. Parsing'
    BY <1>1, <1>3, <1>4, <2>1, <2>3, <2>5, <2>6, <2>7 DEF Parsing
  <2> QED BY <1>5, <2>1, <2>8 DEF PlaceInv
<1> QED BY <1>6, <1>7

LEMMA LoopPlace == Inv /\ PlaceInv /\ Loop => PlaceInv'
<1> SUFFICES ASSUME Inv, PlaceInv, Loop PROVE PlaceInv'
  OBVIOUS
<1>1. CASE WaitForMore \/ Reject \/ ProcessRequestLine \/ AddHeader \/ EndHeaders \/ ReadBody
  BY <1>1, WaitForMorePlace, RejectPlace, ProcessRequestLinePlace, AddHeaderPlace, EndHeadersPlace,
     ReadBodyPlace
<1>2. CASE CallbackThrows \/ TakeOver
  BY <1>2, LastRequestPlace
<1>3. CASE PreflightRequest
  <2>1. PreflightStatus(context.request) \in Nat
    BY DEF PreflightStatus
  <2> QED BY <1>3, <2>1, RespondPlace DEF PreflightRequest
<1>4. CASE NotFound
  <2>1. 404 \in Nat /\ TRUE \in BOOLEAN
    OBVIOUS
  <2>2. Handle /\ Respond(404, TRUE)
    BY <1>4, Zenon DEF NotFound
  <2> QED BY <2>1, <2>2, RespondPlace, Zenon
<1>5. CASE HandlerThrows
  <2>1. 500 \in Nat /\ TRUE \in BOOLEAN
    OBVIOUS
  <2>2. Handle /\ Respond(500, TRUE)
    BY <1>5, Zenon DEF HandlerThrows
  <2> QED BY <2>1, <2>2, RespondPlace, Zenon
<1>6. ASSUME NEW code \in {200, 400}, NEW close \in BOOLEAN, HandlerReturns(code, close)
      PROVE  PlaceInv'
  BY <1>6, RespondPlace DEF HandlerReturns
<1> QED BY <1>1, <1>2, <1>3, <1>4, <1>5, <1>6 DEF Loop

LEMMA InitPlace == Init => PlaceInv
<1> SUFFICES ASSUME Init PROVE PlaceInv
  OBVIOUS
<1>1. /\ plan \in Plans /\ delivered = 0 /\ buf = <<>> /\ pc = "idle" /\ context = NewContext
      /\ sent = <<>> /\ handled = <<>>
  BY DEF Init
<1>2. plan \in Seq(Message) /\ Len(plan) \in Nat
  BY <1>1, PlanTypes
<1>3. Len(handled) = 0 /\ Len(sent) = 0 /\ Len(buf) = 0 /\ buf \in Seq(Byte)
  BY <1>1
<1>4. Wire(0) = <<>> /\ Len(All) \in Nat
  BY <1>2, WireRead, AllLen
<1>5. Start = 0
  BY <1>3, <1>4 DEF Start
<1>6. Window(0)
  BY <1>1, <1>3, <1>4 DEF Window
<1>7. AtLine
  BY <1>1, <1>5, <1>6 DEF AtLine, NewContext
<1>8. Parsing
  BY <1>1, <1>2, <1>3, <1>7 DEF Parsing
<1>9. ~Arrived(1)
  <2>1. ASSUME 1 <= Len(plan) PROVE ~(Len(Wire(1)) <= delivered)
    <3>1. PICK k \in Nat : k = 0
      OBVIOUS
    <3>2. k + 1 = 1 /\ k + 1 <= Len(plan)
      BY <2>1, <3>1
    <3>3. Len(Wire(k)) \in Nat /\ Len(Wire(k + 1)) \in Nat /\ Len(Wire(k)) < Len(Wire(k + 1))
      BY <1>1, <3>2, NextHasBytes
    <3>4. Len(Wire(1)) \in Nat /\ 0 < Len(Wire(1))
      BY <1>4, <3>1, <3>2, <3>3
    <3> QED BY <1>1, <3>4
  <2> QED BY <2>1 DEF Arrived
<1>10. Len(handled) + 1 = 1
  BY <1>3
<1> QED BY <1>3, <1>8, <1>9, <1>10 DEF PlaceInv

LEMMA NextPlace == Inv /\ PlaceInv /\ [Next]_vars => PlaceInv'
<1> SUFFICES ASSUME Inv, PlaceInv, [Next]_vars PROVE PlaceInv'
  OBVIOUS
<1>1. CASE UNCHANGED vars \/ PeerCloses
  <2>1. UNCHANGED <<plan, delivered, buf, pc, context, sent, handled>>
    BY <1>1 DEF vars, PeerCloses
  <2>2. \A i \in 1..Len(sent') : Rightly(i)'
    BY <2>1 DEF PlaceInv, Rightly
  <2> QED BY <2>1, <2>2, AsidePlace
<1>2. CASE StreamToken
  BY <1>2, EventPlace DEF StreamToken
<1>3. CASE StreamEnd
  BY <1>3, EventPlace DEF StreamEnd
<1>4. CASE \E n \in 1..(Len(Wire(Len(plan))) - delivered) : Deliver(n)
  BY <1>4, DeliverPlace DEF All
<1>5. CASE Loop \/ TakeOverFails
  BY <1>5, LoopPlace, LastRequestPlace
<1> QED BY <1>1, <1>2, <1>3, <1>4, <1>5 DEF Next

\* However the reads cut the bytes, and whatever stands in the bodies: the application
\* sees the messages of the peer, in order and with their own fields and bodies, every
\* one that has arrived when onMessage returns, and a message is refused only when its
\* head is not well-formed.
THEOREM RequestsCorrect == Spec => []RequestsAsSent
<1>1. Init => PlaceInv
  BY InitPlace
<1>2. Inv /\ PlaceInv /\ [Next]_vars => PlaceInv'
  BY NextPlace
<1>3. PlaceInv => RequestsAsSent
  BY DEF PlaceInv, Parsing, Handled, Rightly, RequestsAsSent
<1> QED BY <1>1, <1>2, <1>3, InvCorrect, PTL DEF Spec

-----------------------------------------------------------------------------
(* The other reader of bytes that arrive in pieces: executeCurlStream      *)
(* (ModelStream), whose proof follows the same argument                    *)

\* The answer read up to the i-th byte, if x is the one up to the byte before.
SayNext(i, x) ==
    IF Is(i, {"event"}) /\ ~Ended(i) /\ LineAt(i).text # None
    THEN Append(x, LineAt(i).text) ELSE x

Texts == {LineAt(i).text : i \in 1..Len(body)}

\* upto[i] is the answer in the first i bytes.
Spoken(upto) ==
    /\ upto[0] = <<>> /\ WholeAnswer = upto[Len(body)]
    /\ \A i \in 1..Len(body) : upto[i] = SayNext(i, upto[i - 1])
    /\ \A i \in 0..Len(body) : upto[i] \in Seq(Texts)

LEMMA SayNextType ==
    ASSUME NEW i \in 1..Len(body), NEW x \in Seq(Texts)
    PROVE  SayNext(i, x) \in Seq(Texts)
<1>1. PICK t \in Texts : t = LineAt(i).text
  BY DEF Texts
<1>2. Append(x, t) \in Seq(Texts)
  OBVIOUS
<1> QED BY <1>1, <1>2 DEF SayNext

\* The recursion of Answer.
LEMMA AnswerRead ==
    ASSUME Len(body) \in Nat
    PROVE  \E upto : Spoken(upto)
<1>0. PICK n \in Nat : n = Len(body)
  OBVIOUS
<1>01. PICK S : S = Seq(Texts)
  OBVIOUS
<1> DEFINE G(f) == [i \in 0..n |-> IF i = 0 THEN <<>> ELSE SayNext(i, f[i - 1])]
           step == [i \in 1..n |-> [x \in S |-> SayNext(i, x)]]
<1>1. step \in [1..n -> [S -> S]]
  BY <1>0, <1>01, SayNextType
<1>2. PICK f \in [0..n -> S] : Iterates(f, n, <<>>, step)
  <2>1. <<>> \in S
    BY <1>01
  <2> HIDE DEF step
  <2> QED BY <1>1, <2>1, IterationExists, Zenon
<1>3. f = G(f)
  <2>1. ASSUME NEW i \in 0..n PROVE f[i] = G(f)[i]
    <3>1. CASE i = 0
      BY <1>2, <3>1 DEF Iterates
    <3>2. CASE i # 0
      <4>1. i \in 1..n /\ f[i - 1] \in S
        BY <3>2
      <4>2. f[i] = step[i][f[i - 1]]
        BY <1>2, <4>1 DEF Iterates
      <4>3. step[i][f[i - 1]] = SayNext(i, f[i - 1])
        BY <4>1
      <4> HIDE DEF step
      <4> QED BY <3>2, <4>2, <4>3
    <3> QED BY <3>1, <3>2
  <2>2. DOMAIN f = 0..n
    OBVIOUS
  <2>3. \A i \in 0..n : f[i] = G(f)[i]
    BY <2>1
  <2>4. G(f) = [i \in 0..n |-> G(f)[i]]
    OBVIOUS
  <2> QED BY <2>2, <2>3, <2>4
<1> DEFINE upto == CHOOSE h : h = G(h)
<1>4. upto = G(upto)
  BY <1>3
<1>5. WholeAnswer = upto[n]
  BY <1>0 DEF WholeAnswer, SayNext
<1> HIDE DEF upto
<1>6. upto[0] = <<>> /\ \A i \in 1..n : upto[i] = SayNext(i, upto[i - 1])
  <2>1. \A i \in 0..n : upto[i] = IF i = 0 THEN <<>> ELSE SayNext(i, upto[i - 1])
    BY <1>4
  <2>2. 0 \in 0..n /\ \A i \in 1..n : i \in 0..n /\ i # 0
    OBVIOUS
  <2> QED BY <2>1, <2>2, Zenon
<1>7. ASSUME NEW k \in 0..n PROVE upto[k] \in S
  <2>1. \A i \in 1..k : upto[i - 1] \in S => upto[i] \in S
    <3> SUFFICES ASSUME NEW i \in 1..k, upto[i - 1] \in S PROVE upto[i] \in S
      OBVIOUS
    <3>1. i \in 1..n
      OBVIOUS
    <3>2. SayNext(i, upto[i - 1]) \in S
      BY <1>0, <1>01, <3>1, SayNextType
    <3> QED BY <1>6, <3>1, <3>2
  <2>2. upto[0] \in S
    BY <1>01, <1>6
  <2>3. k \in Nat
    OBVIOUS
  <2> QED BY <2>1, <2>2, <2>3, IterationStays
<1>8. Spoken(upto)
  BY <1>0, <1>01, <1>5, <1>6, <1>7 DEF Spoken
<1> QED BY <1>8

\* What has been said stays said.
Begins(s, t) == Len(s) <= Len(t) /\ s = SubSeq(t, 1, Len(s))

LEMMA SpokenGrows ==
    ASSUME Len(body) \in Nat, NEW upto, Spoken(upto), NEW p \in 0..Len(body)
    PROVE  Begins(upto[p], WholeAnswer)
<1>0. PICK n \in Nat : n = Len(body)
  OBVIOUS
<1>01. PICK u : u = upto[p] /\ u \in Seq(Texts)
  BY DEF Spoken
<1> DEFINE S == {x \in Seq(Texts) : Len(u) <= Len(x) /\ \A i \in 1..Len(u) : x[i] = u[i]}
           f == [i \in 0..(n - p) |-> upto[p + i]]
<1>1. f[0] \in S
  <2>1. f[0] = u
    BY <1>0, <1>01
  <2>2. u \in S
    BY <1>01
  <2> QED BY <2>1, <2>2
<1>2. ASSUME NEW i \in 1..(n - p), f[i - 1] \in S PROVE f[i] \in S
  <2>1. PICK j \in 1..n : j = p + i /\ j - 1 = p + (i - 1)
    BY <1>0
  <2>2. i - 1 \in 0..(n - p) /\ i \in 0..(n - p)
    BY <1>0
  <2>3. PICK x : x = f[i - 1] /\ x = upto[j - 1]
    BY <2>1, <2>2
  <2>4. f[i] = SayNext(j, x)
    BY <1>0, <2>1, <2>2, <2>3 DEF Spoken
  <2>5. x \in Seq(Texts) /\ Len(u) <= Len(x) /\ \A h \in 1..Len(u) : x[h] = u[h]
    BY <1>2, <2>3
  <2>6. PICK t \in Texts : t = LineAt(j).text
    BY <1>0 DEF Texts
  <2>7. Append(x, t) \in Seq(Texts) /\ Len(Append(x, t)) = Len(x) + 1 /\ \A h \in 1..Len(x) : Append(x, t)[h] = x[h]
    BY <2>5
  <2>8. Append(x, t) \in S
    <3>1. PICK y : y = Append(x, t)
      OBVIOUS
    <3>2. PICK k \in Nat, l \in Nat : k = Len(u) /\ l = Len(x)
      BY <1>01, <2>5
    <3>3. \A h \in 1..k : h \in 1..l /\ k <= l + 1
      BY <2>5, <3>2
    <3>4. y \in Seq(Texts) /\ k <= Len(y) /\ \A h \in 1..k : y[h] = u[h]
      BY <2>5, <2>7, <3>1, <3>2, <3>3
    <3> QED BY <3>1, <3>2, <3>4
  <2>9. SayNext(j, x) = Append(x, t) \/ SayNext(j, x) = x
    BY <2>6 DEF SayNext
  <2> QED BY <1>2, <2>3, <2>4, <2>8, <2>9
<1>3. f[n - p] \in S
  <2>1. n - p \in Nat
    BY <1>0
  <2> HIDE DEF f, S
  <2> QED BY <1>1, <1>2, <2>1, IterationStays
<1>4. f[n - p] = WholeAnswer
  <2>1. n - p \in 0..(n - p) /\ p + (n - p) = n
    BY <1>0
  <2> QED BY <1>0, <2>1 DEF Spoken
<1>5. PICK a \in Seq(Texts) : a = WholeAnswer /\ Len(u) <= Len(a) /\ \A i \in 1..Len(u) : a[i] = u[i]
  BY <1>3, <1>4
<1>6. SubSeq(a, 1, Len(u)) \in Seq(Texts) /\ Len(SubSeq(a, 1, Len(u))) = Len(u)
  BY <1>01, <1>5
<1>7. \A i \in 1..Len(u) : SubSeq(a, 1, Len(u))[i] = u[i]
  BY <1>01, <1>5
<1>8. u = SubSeq(a, 1, Len(u))
  <2>1. PICK b \in Seq(Texts) : b = SubSeq(a, 1, Len(u))
    BY <1>6
  <2> QED BY <1>01, <1>6, <1>7, <2>1, SameSeq
<1> QED BY <1>01, <1>5, <1>8 DEF Begins

\* The buffer holds what has been received behind the place p, where a line begins.
ReadTo(p) ==
    /\ received \in Nat /\ received <= Len(body) /\ p <= received
    /\ state.buffer \in Seq(LineTexts \cup {NL}) /\ Len(state.buffer) = received - p
    /\ \A i \in 1..Len(state.buffer) : state.buffer[i] = body[p + i]
    /\ p = 0 \/ body[p] = NL

EndedBy(p) == \E i \in 1..p : Ends(i)
SpoiltBy(p) == \E i \in 1..p : Spoilt(i)

\* What the lines up to the place p have made of the answer.
Understood(p) ==
    /\ \E upto : Spoken(upto) /\ full_text = upto[p]
    /\ ~state.error => (state.completed <=> EndedBy(p)) /\ ~SpoiltBy(p)
    /\ state.error => threw \/ SpoiltBy(p)

StreamType ==
    /\ body \in Bodies /\ status \in {200, 500} /\ application \in BOOLEAN
    /\ DOMAIN state = {"buffer", "error", "completed"}
    /\ state.error \in BOOLEAN /\ state.completed \in BOOLEAN

\* Where the transfer stands.  Unless the callback gave up, no line is left behind.
Transfer ==
    /\ phase \in {"perform", "write"} => ~state.error
    /\ phase # "write" /\ ~state.error => ~HasWholeLine
    /\ result = "OK" => ~state.error /\ received = Len(body) /\ phase \in {"performed", "over"}
    /\ outcome \in {"none", "committed", "failed"} /\ (phase # "over" => outcome = "none")
    /\ outcome = "committed" => ~Failed /\ full_text # <<>>
    /\ outcome = "failed" => Failed \/ full_text = <<>>

StreamInv == StreamType /\ Transfer /\ \E p \in Nat : ReadTo(p) /\ Understood(p)

LEMMA BodyType ==
    ASSUME body \in Bodies
    PROVE  /\ body \in Seq(LineTexts \cup {NL}) /\ Len(body) \in Nat
           /\ \A i \in 1..(Len(body) - 1) : body[i] # NL => body[i + 1] = NL
<1>1. /\ body \in Seq(LineTexts \cup {NL})
      /\ \A i \in 1..(Len(body) - 1) : body[i] \in LineTexts => body[i + 1] = NL
  BY BodyAssumption
<1>2. PICK n \in Nat : n = Len(body)
  BY <1>1
<1>3. \A i \in 1..(n - 1) : body[i] \in LineTexts \cup {NL}
  BY <1>1, <1>2
<1> QED BY <1>1, <1>2, <1>3

\* A place where no line ends says nothing.
Silent(i) == LineAt(i) = Blank

LEMMA SilentPlaces ==
    ASSUME NEW i, Silent(i)
    PROVE  ~Ends(i) /\ ~Spoilt(i) /\ \A x : SayNext(i, x) = x
<1>1. LineAt(i).kind = "other"
  BY DEF Silent, Blank
<1>2. ~Is(i, {"event"}) /\ ~Is(i, {"DONE"}) /\ ~Is(i, {"error", "invalid"})
  BY <1>1 DEF Is
<1> QED BY <1>2 DEF Ends, Spoilt, SayNext

\* The line behind the place p ends at q.
NextLine(p, q, e) ==
    /\ q \in Nat /\ q \in {p + 1, p + 2} /\ q <= received /\ body[q] = NL
    /\ LineAt(q) = e /\ \A i \in (p + 1)..(q - 1) : Silent(i)
    /\ Rest \in Seq(LineTexts \cup {NL}) /\ Len(Rest) = received - q
    /\ \A i \in 1..Len(Rest) : Rest[i] = body[q + i]

LEMMA LineTaken ==
    ASSUME body \in Bodies, NEW p \in Nat, ReadTo(p), HasWholeLine
    PROVE  \E q : NextLine(p, q, LineEvent)
<1>1. /\ body \in Seq(LineTexts \cup {NL}) /\ Len(body) \in Nat
      /\ \A i \in 1..(Len(body) - 1) : body[i] # NL => body[i + 1] = NL
  BY BodyType
<1>2. PICK b : b = state.buffer
  OBVIOUS
<1>3. /\ received \in Nat /\ received <= Len(body) /\ p <= received
      /\ b \in Seq(LineTexts \cup {NL}) /\ Len(b) = received - p
      /\ \A i \in 1..Len(b) : b[i] = body[p + i]
      /\ p = 0 \/ body[p] = NL
  BY <1>2 DEF ReadTo
<1>4. PICK n \in Nat : n = Len(b) /\ n = received - p
  BY <1>3
<1>5. PICK l \in 1..n : b[l] = NL /\ \A j \in 1..n : b[j] = NL => l <= j
  <2> DEFINE T == {i \in 1..n : b[i] = NL}
  <2>1. T \subseteq Nat /\ T # {}
    BY <1>2, <1>4 DEF HasWholeLine, Newlines
  <2>2. PICK m \in T : \A j \in T : m <= j
    BY <2>1, LeastNumber
  <2> QED BY <2>2
<1>6. LineEnd = l
  <2> DEFINE T == Newlines(b)
  <2>1. \A i : i \in T <=> i \in 1..n /\ b[i] = NL
    BY <1>4 DEF Newlines
  <2>2. l \in T /\ \A j \in T : l <= j
    BY <1>5, <2>1
  <2>3. \A i \in T : (\A j \in T : i <= j) => i = l
    <3> SUFFICES ASSUME NEW i \in T, \A j \in T : i <= j PROVE i = l
      OBVIOUS
    <3>1. i <= l /\ l <= i /\ i \in Nat /\ l \in Nat
      BY <2>1, <2>2
    <3> QED BY <3>1
  <2>4. LineEnd = CHOOSE i \in T : \A j \in T : i <= j
    BY <1>2 DEF LineEnd
  <2> HIDE DEF T
  <2> QED BY <2>2, <2>3, <2>4
<1>7. l = 1 \/ l = 2
  <2> SUFFICES ASSUME l # 1, l # 2 PROVE FALSE
    OBVIOUS
  <2>1. 1 \in 1..n /\ 2 \in 1..n /\ ~(l <= 1) /\ ~(l <= 2)
    OBVIOUS
  <2>2. b[1] # NL /\ b[2] # NL
    BY <1>5, <2>1
  <2>3. b[1] = body[p + 1] /\ b[2] = body[p + 2]
    BY <1>3, <1>4, <2>1
  <2>4. p + 1 \in 1..(Len(body) - 1) /\ (p + 1) + 1 = p + 2
    BY <1>1, <1>3, <1>4, <2>1
  <2> QED BY <1>1, <2>2, <2>3, <2>4
<1>8. PICK q \in Nat : q = p + l /\ q <= received
  <2>1. p + l \in Nat /\ p + l <= received
    BY <1>3, <1>4
  <2> QED BY <2>1
<1>9. body[q] = NL
  BY <1>3, <1>4, <1>5, <1>8
<1>10. LineAt(q) = LineEvent /\ \A i \in (p + 1)..(q - 1) : Silent(i)
  <2>1. CASE l = 1
    <3>1. LineEvent = Blank
      BY <1>6, <2>1 DEF LineEvent
    <3>2. q = p + 1 /\ q - 1 = p
      BY <1>8, <2>1
    <3>3. ~(q > 1 /\ body[q - 1] # NL)
      BY <1>3, <3>2
    <3>4. LineAt(q) = Blank
      BY <3>3 DEF LineAt
    <3>5. (p + 1)..(q - 1) = {}
      BY <3>2
    <3> QED BY <3>1, <3>4, <3>5
  <2>2. CASE l = 2
    <3>1. LineEvent = EventOf[b[1]]
      BY <1>2, <1>6, <2>2 DEF LineEvent
    <3>2. q = p + 2 /\ q - 1 = p + 1 /\ q > 1 /\ 1 \in 1..n /\ ~(l <= 1)
      BY <1>8, <2>2
    <3>3. b[1] = body[q - 1] /\ b[1] # NL
      BY <1>3, <1>4, <1>5, <3>2
    <3>4. LineAt(q) = EventOf[body[q - 1]]
      BY <1>9, <3>2, <3>3 DEF LineAt
    <3>5. \A i \in (p + 1)..(q - 1) : i = q - 1
      BY <3>2
    <3>6. Silent(q - 1)
      BY <3>3 DEF Silent, LineAt
    <3> QED BY <3>1, <3>3, <3>4, <3>5, <3>6
  <2> QED BY <1>7, <2>1, <2>2
<1>11. PICK r : r = Rest /\ r = SubSeq(b, l + 1, n)
  BY <1>2, <1>4, <1>6 DEF Rest
<1>12. r \in Seq(LineTexts \cup {NL}) /\ Len(r) = n - l /\ \A i \in 1..(n - l) : r[i] = b[l + i]
  BY <1>3, <1>4, <1>11
<1>13. n - l = received - q /\ \A i \in 1..(n - l) : l + i \in 1..n /\ p + (l + i) = q + i
  BY <1>3, <1>4, <1>8
<1>14. \A i \in 1..(n - l) : r[i] = body[q + i]
  BY <1>3, <1>4, <1>12, <1>13
<1>15. q \in {p + 1, p + 2}
  BY <1>7, <1>8
<1>16. NextLine(p, q, LineEvent)
  BY <1>8, <1>9, <1>10, <1>11, <1>12, <1>13, <1>14, <1>15 DEF NextLine
<1> QED BY <1>16

\* What the line adds.
LEMMA LineSays ==
    ASSUME NEW p \in Nat, NEW q, NEW e, NextLine(p, q, e), received <= Len(body), received \in Nat,
           Len(body) \in Nat
    PROVE  /\ EndedBy(q) <=> EndedBy(p) \/ Ends(q)
           /\ SpoiltBy(q) <=> SpoiltBy(p) \/ Spoilt(q)
           /\ Ended(q) <=> EndedBy(p)
           /\ \A upto : Spoken(upto) => upto[q] = SayNext(q, upto[p])
<1>1. q \in Nat /\ q \in {p + 1, p + 2} /\ q <= Len(body) /\ \A i \in (p + 1)..(q - 1) : Silent(i)
  BY DEF NextLine
<1>2. \A i \in (p + 1)..(q - 1) : ~Ends(i) /\ ~Spoilt(i)
  BY <1>1, SilentPlaces
<1>3. \A i : i \in 1..q <=> i \in 1..p \/ i \in (p + 1)..(q - 1) \/ i = q
  BY <1>1
<1>4. \A i : i \in 1..(q - 1) <=> i \in 1..p \/ i \in (p + 1)..(q - 1)
  BY <1>1
<1>5. Ended(q) <=> EndedBy(p)
  BY <1>2, <1>4 DEF Ended, EndedBy
<1>6. (EndedBy(q) <=> EndedBy(p) \/ Ends(q)) /\ (SpoiltBy(q) <=> SpoiltBy(p) \/ Spoilt(q))
  BY <1>2, <1>3 DEF EndedBy, SpoiltBy
<1>7. ASSUME NEW upto, Spoken(upto) PROVE upto[q] = SayNext(q, upto[p])
  <2>1. q \in 1..Len(body)
    BY <1>1
  <2>2. upto[q] = SayNext(q, upto[q - 1])
    BY <1>7, <2>1 DEF Spoken
  <2>3. CASE q = p + 1
    <3>1. q - 1 = p
      BY <2>3
    <3> QED BY <2>2, <3>1
  <2>4. CASE q = p + 2
    <3>1. PICK i \in Nat : i = q - 1 /\ i = p + 1 /\ i - 1 = p /\ i \in 1..Len(body) /\ i \in (p + 1)..(q - 1)
      BY <1>1, <2>4
    <3>2. upto[i] = SayNext(i, upto[i - 1])
      BY <1>7, <3>1 DEF Spoken
    <3>3. upto[i] = upto[p]
      BY <1>1, <3>1, <3>2, SilentPlaces
    <3> QED BY <2>2, <3>1, <3>3
  <2> QED BY <1>1, <2>3, <2>4
<1> QED BY <1>5, <1>6, <1>7

\* What the body means does not change.
LEMMA WordsKept ==
    ASSUME UNCHANGED <<body, application>>
    PROVE  /\ \A p : (EndedBy(p)' <=> EndedBy(p)) /\ (SpoiltBy(p)' <=> SpoiltBy(p))
           /\ \A upto : Spoken(upto)' <=> Spoken(upto)
<1>1. \A i : (Ends(i)' <=> Ends(i)) /\ (Spoilt(i)' <=> Spoilt(i))
  BY DEF Ends, Spoilt, Ended, Is, LineAt
<1>2. WholeAnswer' = WholeAnswer /\ Texts' = Texts /\ \A i, x : SayNext(i, x)' = SayNext(i, x)
  BY DEF WholeAnswer, Texts, SayNext, Ends, Ended, Is, LineAt
<1>3. \A p : (EndedBy(p)' <=> EndedBy(p)) /\ (SpoiltBy(p)' <=> SpoiltBy(p))
  BY <1>1 DEF EndedBy, SpoiltBy
<1>4. \A upto : Spoken(upto)' <=> Spoken(upto)
  BY <1>2 DEF Spoken
<1> QED BY <1>3, <1>4

\* A line that announces the end, and one that spoils an answer that has not ended.
EndLine(e) == e.kind = "DONE" \/ (application /\ e.kind = "event" /\ e.finish = "stop")
SpoilingLine(e) ==
    \/ e.kind \in {"error", "invalid"}
    \/ application /\ e.kind = "event" /\ e.finish = "abnormal" /\ ~state.completed

\* The callback takes a line out of the buffer and does what the line says.
LEMMA LineUnderstood ==
    ASSUME StreamInv, phase = "write", HasWholeLine,
           UNCHANGED <<body, application, received>>, state'.buffer = Rest,
           NEW e, e = LineEvent,
           full_text' = IF e.kind = "event" /\ ~state.completed /\ e.text # None
                        THEN Append(full_text, e.text) ELSE full_text,
           ~state'.error => (state'.completed <=> state.completed \/ EndLine(e)) /\ ~SpoilingLine(e),
           state'.error => threw' \/ SpoilingLine(e)
    PROVE  \E q \in Nat : ReadTo(q)' /\ Understood(q)'
<1>1. PICK p \in Nat : ReadTo(p) /\ Understood(p)
  BY DEF StreamInv
<1>2. body \in Bodies /\ ~state.error
  BY DEF StreamInv, StreamType, Transfer
<1>3. PICK q : NextLine(p, q, e)
  BY <1>1, <1>2, LineTaken
<1>4. received \in Nat /\ received <= Len(body) /\ Len(body) \in Nat
  BY <1>1, <1>2, BodyType DEF ReadTo
<1>5. /\ EndedBy(q) <=> EndedBy(p) \/ Ends(q)
      /\ SpoiltBy(q) <=> SpoiltBy(p) \/ Spoilt(q)
      /\ Ended(q) <=> EndedBy(p)
      /\ \A upto : Spoken(upto) => upto[q] = SayNext(q, upto[p])
  BY <1>3, <1>4, LineSays
<1>6. (state.completed <=> EndedBy(p)) /\ ~SpoiltBy(p)
  BY <1>1, <1>2 DEF Understood
<1>7. LineAt(q) = e
  BY <1>3 DEF NextLine
<1>8. (Ends(q) <=> EndLine(e)) /\ (Spoilt(q) <=> SpoilingLine(e))
  BY <1>5, <1>6, <1>7 DEF Ends, Spoilt, Is, EndLine, SpoilingLine
<1>9. PICK upto : Spoken(upto) /\ full_text = upto[p]
  BY <1>1 DEF Understood
<1>10. full_text' = SayNext(q, full_text)
  BY <1>5, <1>6, <1>7 DEF SayNext, Is
<1>11. full_text' = upto[q]
  BY <1>5, <1>9, <1>10
<1>12. /\ (EndedBy(q)' <=> EndedBy(q)) /\ (SpoiltBy(q)' <=> SpoiltBy(q)) /\ Spoken(upto)'
  BY <1>9, WordsKept
<1>13. ~state'.error => (state'.completed <=> EndedBy(q)') /\ ~SpoiltBy(q)'
  BY <1>5, <1>6, <1>8, <1>12
<1>14. state'.error => threw' \/ SpoiltBy(q)'
  BY <1>5, <1>8, <1>12
<1>15. Understood(q)'
  BY <1>11, <1>12, <1>13, <1>14 DEF Understood
<1>16. ReadTo(q)' /\ q \in Nat
  <2>1. /\ q \in Nat /\ q <= received /\ body[q] = NL
        /\ Rest \in Seq(LineTexts \cup {NL}) /\ Len(Rest) = received - q
        /\ \A i \in 1..Len(Rest) : Rest[i] = body[q + i]
    BY <1>3 DEF NextLine
  <2>2. PICK r : r = Rest /\ r = state'.buffer
    OBVIOUS
  <2> QED BY <1>4, <2>1, <2>2 DEF ReadTo
<1> QED BY <1>15, <1>16

\* A step that reads nothing leaves the place alone.
LEMMA PlaceUnread ==
    ASSUME StreamInv, UNCHANGED <<body, application, received, state, full_text, threw>>
    PROVE  \E p \in Nat : ReadTo(p)' /\ Understood(p)'
<1>1. PICK p \in Nat : ReadTo(p) /\ Understood(p)
  BY DEF StreamInv
<1>2. ReadTo(p)'
  BY <1>1 DEF ReadTo
<1>3. Understood(p)'
  BY <1>1, WordsKept DEF Understood
<1> QED BY <1>2, <1>3

LEMMA StreamInitially == StreamInit => StreamInv
<1> SUFFICES ASSUME StreamInit PROVE StreamInv
  OBVIOUS
<1>1. /\ body \in Bodies /\ status \in {200, 500} /\ application \in BOOLEAN
      /\ received = 0 /\ phase = "perform" /\ result = "none"
      /\ full_text = <<>> /\ outcome = "none" /\ threw = FALSE
  BY DEF StreamInit
<1>2. PICK none : none = <<>>
  OBVIOUS
<1>3. state = [buffer |-> none, error |-> FALSE, completed |-> FALSE]
  BY <1>2 DEF StreamInit
<1>4. /\ DOMAIN state = {"buffer", "error", "completed"} /\ state.buffer = none
      /\ state.error = FALSE /\ state.completed = FALSE
  BY <1>3
<1>5. StreamType
  BY <1>1, <1>4 DEF StreamType
<1>6. none \in Seq(LineTexts \cup {NL}) /\ Len(none) = 0
  BY <1>2
<1>7. ~HasWholeLine
  BY <1>4, <1>6 DEF HasWholeLine, Newlines
<1>8. Transfer
  BY <1>1, <1>4, <1>7 DEF Transfer
<1>9. Len(body) \in Nat
  BY <1>1, BodyType
<1>10. ReadTo(0)
  BY <1>1, <1>4, <1>6, <1>9 DEF ReadTo
<1>11. PICK upto : Spoken(upto)
  BY <1>9, AnswerRead
<1>12. Understood(0)
  <2>1. upto[0] = full_text
    BY <1>1, <1>11 DEF Spoken
  <2>2. 1..0 = {}
    OBVIOUS
  <2>3. ~EndedBy(0) /\ ~SpoiltBy(0)
    BY <2>2 DEF EndedBy, SpoiltBy
  <2> QED BY <1>4, <1>11, <2>1, <2>3 DEF Understood
<1>13. 0 \in Nat
  OBVIOUS
<1> QED BY <1>5, <1>8, <1>10, <1>12, <1>13 DEF StreamInv

Updated(t, s, r, d) ==
    /\ DOMAIN t = {"buffer", "error", "completed"}
    /\ t.buffer = r /\ t.completed = d /\ t.error = s.error

LEMMA StateUpdated ==
    ASSUME NEW s, DOMAIN s = {"buffer", "error", "completed"}, NEW r, NEW d, NEW t,
           t = [s EXCEPT !.buffer = r, !.completed = d]
    PROVE  Updated(t, s, r, d)
BY DEF Updated

\* A line that goes to the loop of the callback again.
LEMMA LoopsOn ==
    ASSUME StreamInv, phase = "write", UNCHANGED <<body, status, application, phase, result, outcome>>,
           NEW c \in BOOLEAN, Updated(state', state, Rest, c)
    PROVE  /\ StreamType' /\ Transfer'
           /\ state'.buffer = Rest /\ state'.completed = c /\ state'.error = FALSE
<1>1. /\ DOMAIN state = {"buffer", "error", "completed"} /\ state.error = FALSE
      /\ body \in Bodies /\ status \in {200, 500} /\ application \in BOOLEAN
  BY DEF StreamInv, StreamType, Transfer
<1>4. /\ DOMAIN state' = {"buffer", "error", "completed"} /\ state'.buffer = Rest
      /\ state'.completed = c /\ state'.error = FALSE
  BY <1>1, Zenon DEF Updated
<1>5. StreamType'
  BY <1>1, <1>4 DEF StreamType
<1>6. result # "OK" /\ outcome = "none"
  BY DEF StreamInv, Transfer
<1>7. Transfer'
  BY <1>4, <1>6 DEF Transfer
<1> QED BY <1>4, <1>5, <1>7

\* The callback gives up.
LEMMA GivesUp ==
    ASSUME StreamInv, phase = "write", Abort, UNCHANGED <<body, status, application, outcome>>
    PROVE  StreamType' /\ Transfer' /\ state'.buffer = Rest /\ state'.error = TRUE
<1>1. /\ DOMAIN state = {"buffer", "error", "completed"} /\ state.completed \in BOOLEAN
      /\ body \in Bodies /\ status \in {200, 500} /\ application \in BOOLEAN
  BY DEF StreamInv, StreamType
<1>2. PICK r : r = Rest
  OBVIOUS
<1>3. state' = [state EXCEPT !.buffer = r, !.error = TRUE] /\ result' = "failed" /\ phase' = "performed"
  BY <1>2 DEF Abort
<1>4. /\ DOMAIN state' = {"buffer", "error", "completed"} /\ state'.buffer = r
      /\ state'.completed = state.completed /\ state'.error = TRUE
  BY <1>1, <1>3
<1>5. StreamType'
  BY <1>1, <1>4 DEF StreamType
<1>6. outcome = "none"
  BY DEF StreamInv, Transfer
<1>7. Transfer'
  BY <1>3, <1>4, <1>6 DEF Transfer
<1> QED BY <1>2, <1>4, <1>5, <1>7

LEMMA SkipLineStep ==
    ASSUME StreamInv, SkipLine \/ DoneLine
    PROVE  StreamInv'
<1>1. PICK e : e = LineEvent
  OBVIOUS
<1>2. /\ phase = "write" /\ HasWholeLine
      /\ UNCHANGED <<body, status, application, received, phase, result, full_text, outcome, threw>>
  BY DEF SkipLine, DoneLine
<1>3. DOMAIN state = {"buffer", "error", "completed"} /\ state.completed \in BOOLEAN
  BY DEF StreamInv, StreamType
<1>4. PICK c \in BOOLEAN : /\ Updated(state', state, Rest, c)
                           /\ c <=> state.completed \/ EndLine(e)
                           /\ ~SpoilingLine(e) /\ ~(e.kind = "event" /\ ~state.completed)
  <2>1. CASE DoneLine
    <3>1. e.kind = "DONE" /\ state' = [state EXCEPT !.buffer = Rest, !.completed = TRUE]
      BY <1>1, <2>1 DEF DoneLine
    <3>2. EndLine(e) /\ ~SpoilingLine(e) /\ e.kind # "event"
      BY <3>1 DEF EndLine, SpoilingLine
    <3>3. Updated(state', state, Rest, TRUE)
      BY <1>3, <3>1, StateUpdated
    <3> QED BY <3>2, <3>3
  <2>2. CASE SkipLine
    <3>1. e.kind = "other" \/ (e.kind = "event" /\ state.completed)
      BY <1>1, <2>2 DEF SkipLine
    <3>2. Updated(state', state, Rest, state.completed)
      <4>1. PICK r : r = Rest
        OBVIOUS
      <4>2. state' = [state EXCEPT !.buffer = r]
        BY <2>2, <4>1 DEF SkipLine
      <4> QED BY <1>3, <4>1, <4>2 DEF Updated
    <3>3. (EndLine(e) => state.completed) /\ ~SpoilingLine(e) /\ ~(e.kind = "event" /\ ~state.completed)
      BY <3>1 DEF EndLine, SpoilingLine
    <3> QED BY <1>3, <3>2, <3>3
  <2> QED BY <2>1, <2>2
<1>5. /\ StreamType' /\ Transfer'
      /\ state'.buffer = Rest /\ state'.completed = c /\ state'.error = FALSE
  BY <1>2, <1>4, LoopsOn
<1>6. full_text' = IF e.kind = "event" /\ ~state.completed /\ e.text # None
                   THEN Append(full_text, e.text) ELSE full_text
  BY <1>2, <1>4
<1>7. \E q \in Nat : ReadTo(q)' /\ Understood(q)'
  BY <1>1, <1>2, <1>4, <1>5, <1>6, LineUnderstood
<1> QED BY <1>5, <1>7 DEF StreamInv

LEMMA ErrorLineStep ==
    ASSUME StreamInv, ErrorLine
    PROVE  StreamInv'
<1>1. PICK e : e = LineEvent
  OBVIOUS
<1>2. /\ phase = "write" /\ HasWholeLine /\ e.kind \in {"error", "invalid"} /\ Abort
      /\ UNCHANGED <<body, status, application, received, full_text, outcome, threw>>
  BY <1>1 DEF ErrorLine
<1>3. StreamType' /\ Transfer' /\ state'.buffer = Rest /\ state'.error = TRUE
  BY <1>2, GivesUp
<1>4. SpoilingLine(e) /\ e.kind # "event"
  BY <1>2 DEF SpoilingLine
<1>5. \E q \in Nat : ReadTo(q)' /\ Understood(q)'
  BY <1>1, <1>2, <1>3, <1>4, LineUnderstood
<1> QED BY <1>3, <1>5 DEF StreamInv

LEMMA TokenLineStep ==
    ASSUME StreamInv, TokenLine \/ ChunkThrows
    PROVE  StreamInv'
<1>1. PICK e : e = LineEvent
  OBVIOUS
<1>2. /\ phase = "write" /\ HasWholeLine /\ e.kind = "event" /\ ~state.completed
      /\ UNCHANGED <<body, status, application, received, outcome>>
  BY <1>1 DEF TokenLine, ChunkThrows
<1>3. full_text' = IF e.kind = "event" /\ ~state.completed /\ e.text # None
                   THEN Append(full_text, e.text) ELSE full_text
  BY <1>1, <1>2 DEF TokenLine, ChunkThrows, HasText
<1>4. CASE ChunkThrows
  <2>1. Abort /\ threw' = TRUE
    BY <1>4 DEF ChunkThrows
  <2>2. StreamType' /\ Transfer' /\ state'.buffer = Rest /\ state'.error = TRUE
    BY <1>2, <2>1, GivesUp
  <2>3. \E q \in Nat : ReadTo(q)' /\ Understood(q)'
    BY <1>1, <1>2, <1>3, <2>1, <2>2, LineUnderstood
  <2> QED BY <2>2, <2>3 DEF StreamInv
<1>5. CASE TokenLine /\ Finish(e) = "abnormal"
  <2>1. Abort /\ UNCHANGED threw
    BY <1>1, <1>5 DEF TokenLine
  <2>2. StreamType' /\ Transfer' /\ state'.buffer = Rest /\ state'.error = TRUE
    BY <1>2, <2>1, GivesUp
  <2>3. SpoilingLine(e)
    BY <1>2, <1>5 DEF SpoilingLine, Finish
  <2>4. \E q \in Nat : ReadTo(q)' /\ Understood(q)'
    BY <1>1, <1>2, <1>3, <2>2, <2>3, LineUnderstood
  <2> QED BY <2>2, <2>4 DEF StreamInv
<1>6. CASE TokenLine /\ Finish(e) # "abnormal"
  <2>1. PICK c \in BOOLEAN : c = (Finish(e) = "stop")
    OBVIOUS
  <2>2. Updated(state', state, Rest, c) /\ UNCHANGED <<phase, result, threw>>
    <3>1. DOMAIN state = {"buffer", "error", "completed"}
      BY DEF StreamInv, StreamType
    <3>2. /\ state' = [state EXCEPT !.buffer = Rest, !.completed = Finish(e) = "stop"]
          /\ UNCHANGED <<phase, result, threw>>
      BY <1>1, <1>6, Zenon DEF TokenLine
    <3>3. CASE Finish(e) = "stop"
      <4>1. state' = [state EXCEPT !.buffer = Rest, !.completed = TRUE] /\ c = TRUE
        BY <2>1, <3>2, <3>3
      <4> QED BY <3>1, <3>2, <4>1, StateUpdated
    <3>4. CASE Finish(e) # "stop"
      <4>1. state' = [state EXCEPT !.buffer = Rest, !.completed = FALSE] /\ c = FALSE
        BY <2>1, <3>2, <3>4
      <4> QED BY <3>1, <3>2, <4>1, StateUpdated
    <3> QED BY <3>3, <3>4
  <2>3. /\ StreamType' /\ Transfer'
        /\ state'.buffer = Rest /\ state'.completed = c /\ state'.error = FALSE
    BY <1>2, <2>2, LoopsOn
  <2>4. (EndLine(e) <=> Finish(e) = "stop") /\ ~SpoilingLine(e)
    BY <1>2, <1>6 DEF EndLine, SpoilingLine, Finish
  <2>5. \E q \in Nat : ReadTo(q)' /\ Understood(q)'
    BY <1>1, <1>2, <1>3, <2>1, <2>3, <2>4, LineUnderstood
  <2> QED BY <2>3, <2>5 DEF StreamInv
<1> QED BY <1>4, <1>5, <1>6

LEMMA WriteStep ==
    ASSUME StreamInv, NEW n \in 1..(Len(body) - received), Write(n)
    PROVE  StreamInv'
<1>1. PICK p \in Nat : ReadTo(p) /\ Understood(p)
  BY DEF StreamInv
<1>2. PICK bytes : bytes = SubSeq(body, received + 1, received + n)
  OBVIOUS
<1>3. PICK b : b = state.buffer \o bytes
  OBVIOUS
<1>4. /\ phase = "perform" /\ received' = received + n /\ phase' = "write"
      /\ state' = [state EXCEPT !.buffer = b]
      /\ UNCHANGED <<body, status, application, result, full_text, outcome, threw>>
  BY <1>2, <1>3 DEF Write
<1>5. /\ DOMAIN state = {"buffer", "error", "completed"} /\ state.error \in BOOLEAN
      /\ state.completed \in BOOLEAN /\ body \in Bodies /\ status \in {200, 500} /\ application \in BOOLEAN
  BY DEF StreamInv, StreamType
<1>6. /\ DOMAIN state' = {"buffer", "error", "completed"} /\ state'.buffer = b
      /\ state'.error = state.error /\ state'.completed = state.completed
  BY <1>4, <1>5
<1>7. StreamType'
  BY <1>4, <1>5, <1>6 DEF StreamType
<1>8. Transfer'
  <2>1. ~state.error /\ result # "OK" /\ outcome = "none"
    BY <1>4 DEF StreamInv, Transfer
  <2> QED BY <1>4, <1>6, <2>1 DEF Transfer
<1>9. Understood(p)'
  BY <1>1, <1>4, <1>6, WordsKept DEF Understood
<1>10. ReadTo(p)'
  <2>1. PICK w \in Seq(LineTexts \cup {NL}) : w = body
    BY <1>5, BodyType
  <2>2. PICK r \in Nat : r = received /\ r <= Len(w) /\ p <= r /\ n \in 1..(Len(w) - r)
    BY <1>1, <2>1 DEF ReadTo
  <2>3. /\ bytes \in Seq(LineTexts \cup {NL}) /\ Len(bytes) = n /\ \A i \in 1..n : bytes[i] = w[r + i]
    <3>1. bytes = SubSeq(w, r + 1, r + n) /\ r + n <= Len(w) /\ n \in Nat /\ Len(w) \in Nat
      BY <1>2, <2>1, <2>2
    <3>2. SubSeq(w, r + 1, r + n) \in Seq(LineTexts \cup {NL}) /\ Len(SubSeq(w, r + 1, r + n)) = n
      BY <3>1
    <3>3. \A i \in 1..n : SubSeq(w, r + 1, r + n)[i] = w[r + i]
      BY <3>1
    <3> QED BY <3>1, <3>2, <3>3
  <2>4. PICK s \in Seq(LineTexts \cup {NL}) : s = state.buffer /\ Len(s) = r - p /\ \A i \in 1..Len(s) : s[i] = w[p + i]
    BY <1>1, <2>1, <2>2 DEF ReadTo
  <2>5. b \in Seq(LineTexts \cup {NL}) /\ Joins(b, s, bytes)
    BY <1>3, <2>3, <2>4, Joined
  <2>6. PICK l \in Nat : l = Len(s) /\ l = r - p
    BY <2>4
  <2>7. Len(b) = l + n /\ (\A i \in 1..l : b[i] = s[i]) /\ \A i \in 1..n : b[l + i] = bytes[i]
    BY <2>3, <2>5, <2>6 DEF Joins
  <2>8. ASSUME NEW i \in 1..(l + n) PROVE b[i] = w[p + i]
    <3>1. CASE i <= l
      <4>1. i \in 1..l
        BY <3>1
      <4> QED BY <2>4, <2>6, <2>7, <4>1
    <3>2. CASE ~(i <= l)
      <4>1. PICK h \in 1..n : i = l + h
        <5>1. i - l \in 1..n /\ i = l + (i - l)
          BY <3>2
        <5> QED BY <5>1
      <4>2. p + i = r + h
        BY <2>2, <2>6, <4>1
      <4> QED BY <2>3, <2>7, <4>1, <4>2
    <3> QED BY <3>1, <3>2
  <2>9. l + n = (r + n) - p /\ p <= r + n /\ r + n <= Len(w) /\ r + n \in Nat
    BY <2>2, <2>6
  <2>10. p = 0 \/ body[p] = NL
    BY <1>1 DEF ReadTo
  <2> QED BY <1>4, <1>6, <2>1, <2>2, <2>5, <2>7, <2>8, <2>9, <2>10 DEF ReadTo
<1> QED BY <1>7, <1>8, <1>9, <1>10 DEF StreamInv

\* The transfer ends, or waits for more.
LEMMA TransferStep ==
    ASSUME StreamInv,
           \/ CannotStart \/ WriteReturns \/ Performed \/ Conclude
           \/ UNCHANGED streamVars
    PROVE  StreamInv'
<1>1. UNCHANGED <<body, status, application, received, state, full_text, threw>>
  BY DEF CannotStart, WriteReturns, Performed, Conclude, streamVars
<1>2. \E p \in Nat : ReadTo(p)' /\ Understood(p)'
  BY <1>1, PlaceUnread
<1>3. StreamType'
  BY <1>1 DEF StreamInv, StreamType
<1>4. (HasWholeLine' <=> HasWholeLine) /\ state.error' = state.error
  BY <1>1 DEF HasWholeLine, Newlines
<1>5. Transfer
  BY DEF StreamInv
<1>6. CASE UNCHANGED streamVars
  <2>1. UNCHANGED <<phase, result, outcome>> /\ (Failed' <=> Failed)
    BY <1>6 DEF streamVars, Failed
  <2>2. Transfer'
    BY <1>1, <1>4, <1>5, <2>1 DEF Transfer
  <2> QED BY <1>2, <1>3, <2>2 DEF StreamInv
<1>7. CASE CannotStart \/ WriteReturns \/ Performed
  <2>1. /\ phase \in {"perform", "write"} /\ phase' \in {"perform", "performed"} /\ outcome' = outcome
        /\ phase = "write" => ~HasWholeLine /\ UNCHANGED result
        /\ result' = "OK" => (received = Len(body) /\ phase' = "performed") \/ result = "OK"
    BY <1>7 DEF CannotStart, WriteReturns, Performed
  <2>2. ~state.error /\ outcome = "none" /\ result # "OK" /\ ~HasWholeLine
    BY <1>5, <2>1 DEF Transfer
  <2> QED BY <1>1, <1>2, <1>3, <1>4, <2>1, <2>2 DEF Transfer, StreamInv
<1>8. CASE Conclude
  <2>1. /\ phase = "performed" /\ phase' = "over" /\ UNCHANGED result
        /\ outcome' = IF Failed \/ full_text = <<>> THEN "failed" ELSE "committed"
    BY <1>8 DEF Conclude
  <2>2. Failed' <=> Failed
    BY <1>1, <2>1 DEF Failed
  <2>3. Transfer'
    BY <1>1, <1>4, <1>5, <2>1, <2>2 DEF Transfer
  <2> QED BY <1>2, <1>3, <2>3 DEF StreamInv
<1> QED BY <1>6, <1>7, <1>8

LEMMA StreamStep ==
    ASSUME StreamInv, [StreamNext]_streamVars
    PROVE  StreamInv'
<1>1. CASE UNCHANGED streamVars
  BY <1>1, TransferStep
<1>2. CASE CannotStart \/ WriteReturns \/ Performed \/ Conclude
  BY <1>2, TransferStep
<1>3. CASE SkipLine \/ DoneLine \/ ErrorLine \/ TokenLine \/ ChunkThrows
  BY <1>3, SkipLineStep, ErrorLineStep, TokenLineStep
<1>4. CASE \E n \in 1..(Len(body) - received) : Write(n)
  BY <1>4, WriteStep
<1> QED BY <1>1, <1>2, <1>3, <1>4 DEF StreamNext

\* When the body has been received as a whole and no line is left, nothing follows the
\* place of the callback.
LEMMA NothingFollows ==
    ASSUME body \in Bodies, NEW p \in Nat, ReadTo(p), ~HasWholeLine,
           received = Len(body)
    PROVE  /\ p \in 0..Len(body) /\ \A i \in (p + 1)..Len(body) : Silent(i)
           /\ \A upto : Spoken(upto) => WholeAnswer = upto[p]
<1>1. PICK n \in Nat : n = Len(body) /\ n = received /\ p <= n
  BY BodyType DEF ReadTo
<1>2. ASSUME NEW i \in (p + 1)..n PROVE Silent(i)
  <2>1. PICK h \in 1..(n - p) : i = p + h
    <3>1. i - p \in 1..(n - p) /\ i = p + (i - p)
      BY <1>1
    <3> QED BY <3>1
  <2>2. h \in 1..Len(state.buffer) /\ state.buffer[h] = body[i]
    BY <1>1, <2>1 DEF ReadTo
  <2>3. body[i] # NL
    BY <2>2 DEF HasWholeLine, Newlines
  <2> QED BY <2>3 DEF Silent, LineAt
<1>3. ASSUME NEW upto, Spoken(upto) PROVE WholeAnswer = upto[p]
  <2> DEFINE S == {upto[p]}
             f == [i \in 0..(n - p) |-> upto[p + i]]
  <2>1. f[0] \in S
    <3>1. 0 \in 0..(n - p) /\ p + 0 = p
      BY <1>1
    <3> QED BY <3>1
  <2>2. ASSUME NEW i \in 1..(n - p), f[i - 1] \in S PROVE f[i] \in S
    <3>1. PICK j \in 1..n : j = p + i /\ j - 1 = p + (i - 1) /\ j \in (p + 1)..n
      BY <1>1
    <3>2. i - 1 \in 0..(n - p) /\ i \in 0..(n - p)
      BY <1>1
    <3>3. upto[j] = SayNext(j, upto[j - 1])
      BY <1>1, <1>3, <3>1 DEF Spoken
    <3>4. upto[j] = upto[j - 1]
      BY <1>2, <3>1, <3>3, SilentPlaces
    <3>5. f[i - 1] = upto[j - 1] /\ f[i] = upto[j]
      BY <3>1, <3>2
    <3> QED BY <2>2, <3>4, <3>5
  <2>3. n - p \in Nat /\ n - p \in 0..(n - p) /\ p + (n - p) = n
    BY <1>1
  <2>4. f[n - p] = upto[n]
    BY <2>3
  <2>5. f[n - p] \in S
    <3> HIDE DEF f, S
    <3> QED BY <2>1, <2>2, <2>3, IterationStays
  <2> QED BY <1>1, <1>3, <2>4, <2>5 DEF Spoken
<1> QED BY <1>1, <1>2, <1>3

LEMMA StreamGoal == StreamInv => CommitsWholeAnswers
<1> SUFFICES ASSUME StreamInv PROVE CommitsWholeAnswers
  OBVIOUS
<1>1. PICK p \in Nat : ReadTo(p) /\ Understood(p)
  BY DEF StreamInv
<1>2. StreamType /\ Transfer
  BY DEF StreamInv
<1>3. PICK upto : Spoken(upto) /\ full_text = upto[p]
  BY <1>1 DEF Understood
<1>4. body \in Bodies /\ Len(body) \in Nat /\ status \in {200, 500} /\ state.error \in BOOLEAN
  BY <1>2, BodyType DEF StreamType
<1>5. p \in 0..Len(body)
  BY <1>1, <1>4 DEF ReadTo
<1>6. Begins(full_text, WholeAnswer)
  BY <1>3, <1>4, <1>5, SpokenGrows
<1>7. ASSUME ~state.error, result = "OK", outcome \in {"committed", "failed"}
      PROVE  /\ received = Len(body) /\ WholeAnswer = full_text
             /\ state.completed <=> \E i \in 1..Len(body) : Ends(i)
             /\ \A i \in 1..Len(body) : ~Spoilt(i)
  <2>1. received = Len(body) /\ ~HasWholeLine
    BY <1>2, <1>7 DEF Transfer
  <2>2. /\ \A i \in (p + 1)..Len(body) : Silent(i)
        /\ WholeAnswer = full_text
    BY <1>1, <1>3, <1>4, <2>1, NothingFollows
  <2>3. (state.completed <=> EndedBy(p)) /\ ~SpoiltBy(p)
    BY <1>1, <1>7 DEF Understood
  <2>4. \A i \in 1..Len(body) : i \in 1..p \/ i \in (p + 1)..Len(body)
    BY <1>4, <1>5
  <2>5. \A i \in 1..p : i \in 1..Len(body)
    BY <1>4, <1>5
  <2>6. \A i \in (p + 1)..Len(body) : ~Ends(i) /\ ~Spoilt(i)
    BY <2>2, SilentPlaces
  <2> QED BY <2>1, <2>2, <2>3, <2>4, <2>5, <2>6 DEF EndedBy, SpoiltBy
<1>8. ASSUME outcome = "committed" PROVE Sound /\ received = Len(body) /\ full_text = WholeAnswer
  <2>1. ~Failed /\ full_text # <<>>
    BY <1>2, <1>8 DEF Transfer
  <2>2. ~state.error /\ result = "OK" /\ ~(status >= 300) /\ state.completed
    BY <2>1 DEF Failed
  <2>3. status = 200
    BY <1>4, <2>2
  <2> QED BY <1>7, <1>8, <2>1, <2>2, <2>3 DEF Sound
<1>9. ASSUME outcome = "failed" PROVE ~Sound \/ threw \/ (result # "OK" /\ ~state.error)
  <2> SUFFICES ASSUME Sound, ~threw PROVE result # "OK" /\ ~state.error
    OBVIOUS
  <2>1. ~state.error
    <3> SUFFICES ASSUME state.error PROVE FALSE
      OBVIOUS
    <3>1. PICK i \in 1..p : Spoilt(i)
      BY <1>1 DEF Understood, SpoiltBy
    <3>2. i \in 1..Len(body)
      BY <1>4, <1>5
    <3> QED BY <3>1, <3>2 DEF Sound
  <2>2. ASSUME result = "OK" PROVE FALSE
    <3>1. /\ WholeAnswer = full_text /\ state.completed <=> \E i \in 1..Len(body) : Ends(i)
      BY <1>7, <1>9, <2>1, <2>2
    <3>2. status = 200 /\ full_text # <<>> /\ state.completed
      BY <3>1 DEF Sound
    <3>3. ~Failed
      BY <2>1, <2>2, <3>2 DEF Failed
    <3> QED BY <1>2, <1>9, <3>2, <3>3 DEF Transfer
  <2> QED BY <2>1, <2>2
<1> QED BY <1>6, <1>8, <1>9 DEF CommitsWholeAnswers, Begins

\* However curl cuts the body of a response, and whatever its lines say: what chatStream
\* commits is the whole answer of a sound response, and it fails for a reason only.
THEOREM WholeAnswersCorrect == StreamSpec => []CommitsWholeAnswers
<1>1. StreamInit => StreamInv
  BY StreamInitially
<1>2. StreamInv /\ [StreamNext]_streamVars => StreamInv'
  BY StreamStep
<1>3. StreamInv => CommitsWholeAnswers
  BY StreamGoal
<1> QED BY <1>1, <1>2, <1>3, PTL DEF StreamSpec
=============================================================================
