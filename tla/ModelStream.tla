---------------------------- MODULE ModelStream ----------------------------
(***************************************************************************)
(* One streamed answer of a remote model: AIHelper::executeCurlStream, the *)
(* strategy that reads its events, and the part of chatStream that decides *)
(* whether the text becomes an exchange of the history (the rest of        *)
(* chatStream is in ChatHistory).                                          *)
(*                                                                         *)
(* The body of the response is a sequence of bytes, cut by curl at any     *)
(* place.  One symbol of LineTexts stands for the text of a whole line; EventOf *)
(* says what the line is: "other" (no data field, or an empty one),        *)
(* "DONE", "invalid" (no JSON), "error" (the event reports one) or "event" *)
(* with a text, perhaps None, and a finish: "open", "stop", or "abnormal"  *)
(* (another reason, or an output of the wrong shape).                      *)
(***************************************************************************)
EXTENDS Naturals, Sequences

CONSTANTS
    NL, LineTexts,
    EventOf,
    None,        \* an event without text
    Bodies       \* what the service may answer: sequences of bytes

ASSUME NewlineAssumption == NL \notin LineTexts

\* A line is empty or one symbol.
ASSUME BodyAssumption ==
    \A b \in Bodies : /\ b \in Seq(LineTexts \cup {NL})
                      /\ \A i \in 1..(Len(b) - 1) : b[i] \in LineTexts => b[i + 1] = NL

VARIABLES
    body,        \* the response
    status,      \* its HTTP status
    application, \* whether the strategy is AliyunRAGStrategy
    received,    \* number of bytes curl has handed over
    phase,          \* "perform" in curl, "write" in its callback, "performed", "over"
    state,       \* State: buffer, error, completed
    result,      \* what curl_easy_perform returned
    full_text,   \* the text given to chunk
    outcome,     \* "none" before, then "committed" or "failed"
    threw        \* history: the application's callback threw

streamVars == <<body, status, application, received, phase, state, result, full_text, outcome, threw>>

-----------------------------------------------------------------------------
(* The line in work *)

Newlines(b) == {i \in 1..Len(b) : b[i] = NL}
HasWholeLine == Newlines(state.buffer) # {}
LineEnd == CHOOSE i \in Newlines(state.buffer) : \A j \in Newlines(state.buffer) : i <= j

Blank == [kind |-> "other"]

LineEvent ==
    IF LineEnd = 1 THEN Blank ELSE EventOf[state.buffer[1]]

\* buffer.erase(0, pos + 1)
Rest == SubSeq(state.buffer, LineEnd + 1, Len(state.buffer))

\* parseStreamChunk yields a text.
HasText(e) == e.text # None

\* isStreamComplete: only the application's events carry an end.
Finish(e) == IF application THEN e.finish ELSE "open"

-----------------------------------------------------------------------------
StreamInit ==
    /\ body \in Bodies /\ status \in {200, 500} /\ application \in BOOLEAN
    /\ received = 0 /\ phase = "perform" /\ result = "none"
    /\ state = [buffer |-> <<>>, error |-> FALSE, completed |-> FALSE]
    /\ full_text = <<>> /\ outcome = "none" /\ threw = FALSE

\* curl_easy_init or the list of headers fails: nothing is sent.
CannotStart ==
    /\ phase = "perform" /\ received = 0
    /\ result' = "failed" /\ phase' = "performed"
    /\ UNCHANGED <<body, status, application, received, state, full_text, outcome, threw>>

\* The write callback begins.
Write(n) ==
    /\ phase = "perform"
    /\ received' = received + n
    /\ state' = [state EXCEPT !.buffer = @ \o SubSeq(body, received + 1, received + n)]
    /\ phase' = "write"
    /\ UNCHANGED <<body, status, application, result, full_text, outcome, threw>>

\* The callback returns total.
WriteReturns ==
    /\ phase = "write" /\ ~HasWholeLine
    /\ phase' = "perform"
    /\ UNCHANGED <<body, status, application, received, state, result, full_text, outcome, threw>>

\* A line without consequences: continue.
SkipLine ==
    /\ phase = "write" /\ HasWholeLine
    /\ \/ LineEvent.kind = "other"
       \/ LineEvent.kind = "event" /\ state.completed
    /\ state' = [state EXCEPT !.buffer = Rest]
    /\ UNCHANGED <<body, status, application, received, phase, result, full_text, outcome, threw>>

DoneLine ==
    /\ phase = "write" /\ HasWholeLine /\ LineEvent.kind = "DONE"
    /\ state' = [state EXCEPT !.buffer = Rest, !.completed = TRUE]
    /\ UNCHANGED <<body, status, application, received, phase, result, full_text, outcome, threw>>

\* The callback returns 0, and curl gives up with a write error.
Abort ==
    /\ state' = [state EXCEPT !.buffer = Rest, !.error = TRUE]
    /\ result' = "failed" /\ phase' = "performed"

\* An event with an error, or one that cannot be parsed.
ErrorLine ==
    /\ phase = "write" /\ HasWholeLine /\ LineEvent.kind \in {"error", "invalid"}
    /\ Abort
    /\ UNCHANGED <<body, status, application, received, full_text, outcome, threw>>

\* Mutant: an end that is not "stop" only ends the answer.
TokenLineAnyEnd ==
    /\ phase = "write" /\ HasWholeLine /\ LineEvent.kind = "event" /\ ~state.completed
    /\ full_text' = IF HasText(LineEvent) THEN Append(full_text, LineEvent.text) ELSE full_text
    /\ state' = [state EXCEPT !.buffer = Rest, !.completed = Finish(LineEvent) # "open"]
    /\ UNCHANGED <<body, status, application, received, phase, result, outcome, threw>>

\* The text goes to chunk, then the end of the stream is looked for.
TokenLine ==
    /\ phase = "write" /\ HasWholeLine /\ LineEvent.kind = "event" /\ ~state.completed
    /\ full_text' = IF HasText(LineEvent) THEN Append(full_text, LineEvent.text) ELSE full_text
    /\ IF Finish(LineEvent) = "abnormal" THEN Abort
       ELSE /\ state' = [state EXCEPT !.buffer = Rest, !.completed = Finish(LineEvent) = "stop"]
            /\ UNCHANGED <<phase, result>>
    /\ UNCHANGED <<body, status, application, received, outcome, threw>>

\* chunk appends the text, then on_token throws.
ChunkThrows ==
    /\ phase = "write" /\ HasWholeLine /\ LineEvent.kind = "event" /\ ~state.completed
    /\ HasText(LineEvent) /\ full_text' = Append(full_text, LineEvent.text)
    /\ threw' = TRUE /\ Abort
    /\ UNCHANGED <<body, status, application, received, outcome>>

\* curl_easy_perform returns: the body is complete, or the connection broke.
Performed ==
    /\ phase = "perform" /\ phase' = "performed"
    /\ \/ result' = "failed"
       \/ received = Len(body) /\ result' = "OK"
    /\ UNCHANGED <<body, status, application, received, state, full_text, outcome, threw>>

\* The first of the conditions that holds is reported by on_error.
Failed ==
    state.error \/ result # "OK" \/ status < 200 \/ status >= 300 \/ ~state.completed

\* chatStream commits the exchange, or reports the failure and commits nothing.
Conclude ==
    /\ phase = "performed" /\ phase' = "over"
    /\ outcome' = IF Failed \/ full_text = <<>> THEN "failed" ELSE "committed"
    /\ UNCHANGED <<body, status, application, received, state, result, full_text, threw>>

StreamNext ==
    \/ CannotStart \/ WriteReturns \/ SkipLine \/ DoneLine \/ ErrorLine \/ TokenLine
    \/ ChunkThrows \/ Performed \/ Conclude
    \/ \E n \in 1..(Len(body) - received) : Write(n)

StreamSpec == StreamInit /\ [][StreamNext]_streamVars

-----------------------------------------------------------------------------
(* What a body means, said without buffer and callback *)

\* The lines that a newline ends; what follows the last newline is no line.
LineAt(i) == IF body[i] = NL /\ i > 1 /\ body[i - 1] # NL THEN EventOf[body[i - 1]] ELSE Blank
Is(i, kinds) == LineAt(i).kind \in kinds
Ends(i) == Is(i, {"DONE"}) \/ (application /\ Is(i, {"event"}) /\ LineAt(i).finish = "stop")
Ended(i) == \E j \in 1..(i - 1) : Ends(j)

Spoilt(i) ==
    \/ Is(i, {"error", "invalid"})
    \/ application /\ Is(i, {"event"}) /\ LineAt(i).finish = "abnormal" /\ ~Ended(i)

\* The answer the service sent: the texts of its events up to the end it announces.
WholeAnswer ==
    LET Upto[i \in 0..Len(body)] ==
          IF i = 0 THEN <<>>
          ELSE IF Is(i, {"event"}) /\ ~Ended(i) /\ LineAt(i).text # None
               THEN Append(Upto[i - 1], LineAt(i).text) ELSE Upto[i - 1]
    IN  Upto[Len(body)]

\* A response that carries an answer: announced as finished, with no error in it.
Sound ==
    /\ status = 200 /\ WholeAnswer # <<>>
    /\ \E i \in 1..Len(body) : Ends(i)
    /\ \A i \in 1..Len(body) : ~Spoilt(i)

-----------------------------------------------------------------------------
(* Properties *)

\* However curl cuts the body, the text committed to the history is exactly the answer of
\* a sound response that arrived as a whole, and a failure is reported only if the response
\* was not sound, the application's callback threw, or the transfer broke and not because
\* the callback of curl gave up.  Until then the tokens shown to the user are a prefix of
\* the answer.
CommitsWholeAnswers ==
    /\ Len(full_text) <= Len(WholeAnswer) /\ full_text = SubSeq(WholeAnswer, 1, Len(full_text))
    /\ outcome = "committed" => Sound /\ received = Len(body) /\ full_text = WholeAnswer
    /\ outcome = "failed" => ~Sound \/ threw \/ (result # "OK" /\ ~state.error)
=============================================================================
