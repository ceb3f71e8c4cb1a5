----------------------------- MODULE ChatHistory -----------------------------
(***************************************************************************)
(* The chat histories of the service: the helpers (AIHelper) of all users, *)
(* the handlers that send a question or open a new chat, the commit of an  *)
(* answered question to the queue and to memory, the consumer that stores  *)
(* it, and the restore of all histories when the process starts again.     *)
(*                                                                         *)
(* The queue is ExchangeQueue, which MQManager implements.  A question and *)
(* its answer are one exchange, named by its message id; texts are left    *)
(* out.  A model call either gives an answer or fails.  The system clock   *)
(* may be set at any moment, so each read of it gives any time.            *)
(***************************************************************************)
EXTENDS ExchangeQueue, Naturals, Sequences, FiniteSets

CONSTANTS Users, Chats, Threads,
          LegacyTables, \* contents chat_message may have at first
          MaxClock,     \* bound: latest time of the system clock, in milliseconds
          MaxTime,      \* largest timestamp: LLONG_MAX
          NoJob, NoThread

ASSUME TimeAssumption == MaxClock \in Nat /\ MaxTime \in Nat /\ MaxClock + 2 < MaxTime
ASSUME NoneAssumption == NoJob \notin Jobs /\ NoThread \notin Threads

VARIABLES
    serving,         \* the process has restored the histories and serves requests
    chatInformation, \* the helpers that exist, by user and chat id
    sessionsIdsMap,  \* chat ids listed for each user
    messages,        \* AIHelper::messages with messageRoles_, of each helper
    chat_mutex_,     \* the thread that holds it, of each helper
    thread,          \* handler and streaming threads
    chat_message,    \* the table, rows in the order they were inserted
    log,             \* history: messages of the accepted exchanges of each chat, in order
    incomplete,      \* history: chats restored without one of their exchanges, or with
                     \* legacy rows of equal time
    restored         \* history: length of each helper's history after the restore

helperVars == <<chatInformation, sessionsIdsMap, messages>>
ghostVars  == <<log, incomplete, restored>>
vars == <<queueState, serving, helperVars, chat_mutex_, thread, chat_message, ghostVars>>

-----------------------------------------------------------------------------
(* Types *)

Helpers == Users \X Chats

\* A message in memory.  job tells which exchange it came from.
Message == [job : Jobs \cup {NoJob}, isUser : BOOLEAN, ts : 0..MaxTime]

\* A row.  Rows of an earlier release have no message id, and their is_user may be
\* any number.
Row == [job : Jobs \cup {NoJob}, helper : Helpers, is_user : Nat, ts : 0..MaxTime]

\* An item of an earlier release is no exchange, and neither are its rows.
ASSUME LegacyAssumption ==
    /\ Jobs \cap Legacy = {}
    /\ LegacyTables \subseteq Seq([job : {NoJob}, helper : Helpers, is_user : Nat, ts : 0..MaxTime])

Idle == [pc |-> "idle"]

\* "lock": about to enter chat or chatStream; `relocks` when chatStream is to hand
\* over to chat (a tool-calling model).  "model": the request is with the model.
\* "swap": the exchange is queued and not yet in memory.  "done": the client of
\* exchange `job` has its reply.  `helper` is what the look-up found, `owner` the
\* user and chat id the request carries; the exchange is filed under the latter.
Places ==
    LET Request == [helper : Helpers, owner : Helpers]
    IN  {Idle}
        \cup [pc : {"lock"}, on : Request, relocks : BOOLEAN]
        \cup [pc : {"model"}, on : Request, request : Seq(Message)]
        \cup [pc : {"swap"}, on : Request, request : Seq(Message), job : Jobs, ts : 0..MaxTime]
        \cup [pc : {"done"}, on : Request, job : Jobs, ok : BOOLEAN]

-----------------------------------------------------------------------------
(* AIHelper *)

\* Mutant: only the length is tested.
CanonicalLength(history) == Len(history) % 2 = 0

\* validateCanonicalHistory: complete exchanges only, question first.
Canonical(history) ==
    /\ Len(history) % 2 = 0
    /\ \A i \in 1..Len(history) : history[i].isUser = (i % 2 = 1)

LastTime(history) == history[Len(history)].ts

\* commitExchange: later than everything in this history, whatever the clock says.
Timestamp(history, now) ==
    IF history = <<>> \/ LastTime(history) + 1 <= now THEN now ELSE LastTime(history) + 1

\* Mutant: no test.
TimeLeftAlways(history, now) == TRUE

\* commitExchange's test of the last timestamp, and ChatExchange::parse's.
TimeLeft(history, now) ==
    /\ history # <<>> => LastTime(history) < MaxTime - 2
    /\ Timestamp(history, now) < MaxTime - 1

\* The two messages of an exchange.
Exchange(job, ts) == <<[job |-> job, isUser |-> TRUE, ts |-> ts],
                       [job |-> job, isUser |-> FALSE, ts |-> ts + 1]>>

-----------------------------------------------------------------------------
(* The handlers *)

\* A thread that is free for the next request; a streaming thread is a new one.
Free(t) == serving /\ thread[t].pc \in {"idle", "done"}

\* The look-up in chatInformation, by user and then by chat id.
Found(user, chat) == {helper \in chatInformation : helper = <<user, chat>>}

\* ChatHistoryHandler: the histories it may show for a user's chat, one or none.  The
\* snapshot waits for chat_mutex_.
Shown(user, chat) ==
    {messages[helper] : helper \in {h \in Found(user, chat) : serving /\ chat_mutex_[h] = NoThread}}

\* ChatSessionsHandler: the list it shows.
ShownChats(user) == sessionsIdsMap[user]

Enters(t, helper, user, chat, relocks) ==
    thread' = [thread EXCEPT ![t] =
                 [pc |-> "lock", on |-> [helper |-> helper, owner |-> <<user, chat>>],
                  relocks |-> relocks]]

\* ChatSendHandler: the chat must exist (an unknown one is answered with an error
\* and changes nothing).  With `relocks` the model is a tool-calling one and the
\* answer is streamed.
Send(t, user, chat, relocks) ==
    /\ Free(t)
    /\ \E helper \in Found(user, chat) : Enters(t, helper, user, chat, relocks)
    /\ UNCHANGED <<queueState, serving, helperVars, chat_mutex_, chat_message, ghostVars>>

Listed(user, chat) ==
    IF Found(user, chat) # {} THEN sessionsIdsMap
                              ELSE [sessionsIdsMap EXCEPT ![user] = Append(@, chat)]

\* ChatCreateAndSendHandler: both maps change under both mutexes.  The handler does
\* not take it for granted that the id it has drawn is new.
CreateAndSend(t, user, chat, relocks) ==
    /\ Free(t)
    /\ chatInformation' = chatInformation \cup {<<user, chat>>}
    /\ sessionsIdsMap' = Listed(user, chat)
    /\ Enters(t, <<user, chat>>, user, chat, relocks)
    /\ UNCHANGED <<queueState, serving, messages, chat_mutex_, chat_message, ghostVars>>

-----------------------------------------------------------------------------
(* AIHelper::chat and chatStream *)

\* Mutant: the mutex is not kept during the model call.
KeepsLockNever(t, helper) == UNCHANGED chat_mutex_

KeepsLock(t, helper) == chat_mutex_' = [chat_mutex_ EXCEPT ![helper] = t]

\* The thread gets chat_mutex_ and takes the snapshot for the model, or finds a
\* history it cannot continue.  chatStream with a tool-calling model gives the
\* mutex up again and enters chat.
Lock(t) ==
    /\ thread[t].pc = "lock"
    /\ LET helper  == thread[t].on.helper
           history == messages[helper]
       IN  /\ chat_mutex_[helper] = NoThread
           /\ \/ /\ ~Canonical(history)
                 /\ thread' = [thread EXCEPT ![t] = Idle]
                 /\ UNCHANGED chat_mutex_
              \/ /\ Canonical(history) /\ thread[t].relocks
                 /\ thread' = [thread EXCEPT ![t].relocks = FALSE]
                 /\ UNCHANGED chat_mutex_
              \/ /\ Canonical(history) /\ ~thread[t].relocks
                 /\ thread' = [thread EXCEPT ![t] =
                                 [pc |-> "model", on |-> thread[t].on, request |-> history]]
                 /\ KeepsLock(t, helper)
    /\ UNCHANGED <<queueState, serving, helperVars, chat_message, ghostVars>>

Unlock(helper) == chat_mutex_' = [chat_mutex_ EXCEPT ![helper] = NoThread]

\* The model, the transport or a tool fails, the answer is empty, the last timestamp
\* leaves no room, or the exchange is one that ChatExchange::parse refuses: nothing
\* is kept.
ModelFails(t) ==
    /\ thread[t].pc = "model"
    /\ thread' = [thread EXCEPT ![t] = Idle]
    /\ Unlock(thread[t].on.helper)
    /\ UNCHANGED <<queueState, serving, helperVars, chat_message, ghostVars>>

\* secureId draws an id that no exchange has.
Fresh(job) ==
    /\ \A helper \in Helpers : \A i \in DOMAIN log[helper] : log[helper][i].job # job
    /\ \A t \in Threads : thread[t].pc \in {"swap", "done"} => thread[t].job # job

\* commitExchange up to an accepted publish.
Publish(t, job, now) ==
    /\ thread[t].pc = "model"
    /\ LET on      == thread[t].on
           history == messages[on.helper]
           ts      == Timestamp(history, now)
       IN  /\ TimeLeft(history, now)
           /\ Fresh(job) /\ Accept(job)
           /\ log' = [log EXCEPT ![on.owner] = @ \o Exchange(job, ts)]
           /\ thread' = [thread EXCEPT ![t] =
                           [pc |-> "swap", on |-> on, request |-> thread[t].request,
                            job |-> job, ts |-> ts]]
    /\ UNCHANGED <<serving, helperVars, chat_mutex_, chat_message, incomplete, restored>>

Replied(t, job, ok) ==
    thread' = [thread EXCEPT ![t] = [pc |-> "done", on |-> thread[t].on, job |-> job, ok |-> ok]]

\* Mutant: memory is changed before the queue has accepted the exchange.
RefusedKeeps(t, job) ==
    messages' = [messages EXCEPT ![thread[t].on.helper] = @ \o Exchange(job, Timestamp(@, 0))]

\* A refused publish throws before memory changes.
Refused(t, job) == UNCHANGED messages

\* The outbox is full, or there is no handler.
PublishRefused(t, job) ==
    /\ thread[t].pc = "model"
    /\ TimeLeft(messages[thread[t].on.helper], 0)
    /\ Fresh(job)
    /\ Refused(t, job)
    /\ Replied(t, job, FALSE)
    /\ Unlock(thread[t].on.helper)
    /\ UNCHANGED <<queueState, serving, chatInformation, sessionsIdsMap, chat_message, ghostVars>>

\* commitExchange swaps the extended history in, and the client is answered.
Swap(t) ==
    /\ thread[t].pc = "swap"
    /\ messages' = [messages EXCEPT ![thread[t].on.helper] =
                      @ \o Exchange(thread[t].job, thread[t].ts)]
    /\ Replied(t, thread[t].job, TRUE)
    /\ Unlock(thread[t].on.helper)
    /\ UNCHANGED <<queueState, serving, chatInformation, sessionsIdsMap, chat_message, ghostVars>>

-----------------------------------------------------------------------------
(* The queue and the consumer *)

RowsOf(job) ==
    LET helper == CHOOSE h \in Helpers : \E i \in DOMAIN log[h] : log[h][i].job = job
        first  == CHOOSE i \in DOMAIN log[helper] : log[helper][i].job = job /\ log[helper][i].isUser
        ts     == log[helper][first].ts
    IN  <<[job |-> job, helper |-> helper, is_user |-> 1, ts |-> ts],
          [job |-> job, helper |-> helper, is_user |-> 0, ts |-> ts + 1]>>

\* Mutant: a plain INSERT, without ON DUPLICATE KEY.
InsertedAgain(job) == chat_message \o RowsOf(job)

\* One statement inserts both rows; rows whose message id exists stay as they are.
Inserted(job) ==
    IF \E i \in DOMAIN chat_message : chat_message[i].job = job
    THEN chat_message ELSE chat_message \o RowsOf(job)

\* executeMysql stores a delivery, possibly one it has stored before.
Persist(job) ==
    /\ serving
    /\ Store(job)
    /\ chat_message' = Inserted(job)
    /\ UNCHANGED <<serving, helperVars, chat_mutex_, thread, ghostVars>>

\* The other steps of the queue, while the process lives.
QueueMoves ==
    /\ serving
    /\ \/ \E job \in Jobs \cup Legacy : Replace(job) \/ Deposit(job) \/ Remove(job)
       \/ \E jobs \in SUBSET outbox : Forget(jobs)
    /\ UNCHANGED <<serving, helperVars, chat_mutex_, thread, chat_message, ghostVars>>

-----------------------------------------------------------------------------
(* The end of the process, and the restore *)

\* Memory is gone; the queue keeps what the broker holds.
ProcessEnds ==
    /\ serving
    /\ serving' = FALSE
    /\ LoseOutbox
    /\ chatInformation' = {}
    /\ sessionsIdsMap' = [user \in Users |-> <<>>]
    /\ messages' = [helper \in Helpers |-> <<>>]
    /\ chat_mutex_' = [helper \in Helpers |-> NoThread]
    /\ thread' = [t \in Threads |-> Idle]
    /\ restored' = [helper \in Helpers |-> 0]
    /\ UNCHANGED <<chat_message, log, incomplete>>

\* Mutant: rows come back in the order they were inserted.
PrecedesInserted(i, j) == i <= j

\* ORDER BY ts: rows of equal time come in any order.  (The second key, the user,
\* decides nothing within one history.)
Precedes(i, j) == chat_message[i].ts <= chat_message[j].ts

\* The orders in which the query may return the rows.
Orders ==
    LET rows == DOMAIN chat_message
    IN  {order \in [rows -> rows] :
           \A m, n \in rows : m < n => order[m] # order[n] /\ Precedes(order[m], order[n])}

\* restoreMessage: the message a row becomes.
MessageOf(row) == [job |-> row.job, isUser |-> row.is_user = 1, ts |-> row.ts]

\* What has been restored: the helpers, the lists of chat ids and the histories.
NothingRead == [helpers |-> {},
                lists |-> [user \in Users |-> <<>>],
                histories |-> [helper \in Helpers |-> <<>>]]

\* Mutant: a chat id is listed for each of its rows.
ReadRowListsEach(read, row) ==
    [helpers |-> read.helpers \cup {row.helper},
     lists |-> [read.lists EXCEPT ![row.helper[1]] = Append(@, row.helper[2])],
     histories |-> [read.histories EXCEPT ![row.helper] = Append(@, MessageOf(row))]]

\* A row makes and lists its helper if there is none yet, and is appended to its history.
ReadRow(read, row) ==
    [helpers |-> read.helpers \cup {row.helper},
     lists |-> IF row.helper \in read.helpers THEN read.lists
               ELSE [read.lists EXCEPT ![row.helper[1]] = Append(@, row.helper[2])],
     histories |-> [read.histories EXCEPT ![row.helper] = Append(@, MessageOf(row))]]

\* The loop over the rows of the result.
ReadRows(rows) ==
    LET read[n \in 0..Len(rows)] ==
          IF n = 0 THEN NothingRead ELSE ReadRow(read[n - 1], rows[n])
    IN  read[Len(rows)]

\* readDataFromMySQL throws at a role that is neither 0 nor 1, and the process
\* gives up before it serves anything.
Readable == \A i \in DOMAIN chat_message : chat_message[i].is_user \in {0, 1}

\* The chat lacks an exchange that was accepted.
Lacks(helper) ==
    \E i \in DOMAIN log[helper] :
        log[helper][i].job # NoJob /\ log[helper][i].job \notin stored

\* initChatMessage, before any request is served and before the consumer starts.
Restore ==
    /\ ~serving
    /\ Readable
    /\ serving' = TRUE
    /\ \E order \in Orders :
          LET read == ReadRows([n \in DOMAIN order |-> chat_message[order[n]]])
          IN  /\ chatInformation' = read.helpers
              /\ sessionsIdsMap' = read.lists
              /\ messages' = read.histories
    /\ restored' = [helper \in Helpers |-> Len(messages'[helper])]
    /\ incomplete' = [helper \in Helpers |-> incomplete[helper] \/ Lacks(helper)]
    /\ UNCHANGED <<queueState, chat_mutex_, thread, chat_message, log>>

-----------------------------------------------------------------------------
(* The specification *)

Init ==
    /\ QueueInit
    /\ serving = FALSE
    /\ chatInformation = {}
    /\ sessionsIdsMap = [user \in Users |-> <<>>]
    /\ messages = [helper \in Helpers |-> <<>>]
    /\ chat_mutex_ = [helper \in Helpers |-> NoThread]
    /\ thread = [t \in Threads |-> Idle]
    /\ chat_message \in LegacyTables
    /\ log = ReadRows(chat_message).histories
    /\ incomplete = [helper \in Helpers |->
                       \E i, j \in DOMAIN log[helper] :
                           i < j /\ log[helper][i].ts >= log[helper][j].ts]
    /\ restored = [helper \in Helpers |-> 0]

Requests ==
    \E t \in Threads, user \in Users, chat \in Chats, relocks \in BOOLEAN :
        Send(t, user, chat, relocks) \/ CreateAndSend(t, user, chat, relocks)

Commits ==
    \E t \in Threads, job \in Jobs :
        PublishRefused(t, job) \/ \E now \in 0..MaxClock : Publish(t, job, now)

Chatting == \E t \in Threads : Lock(t) \/ ModelFails(t) \/ Swap(t)

Next ==
    \/ Requests \/ Commits \/ Chatting
    \/ \E job \in Jobs : Persist(job)
    \/ QueueMoves \/ ProcessEnds \/ Restore

Spec == Init /\ [][Next]_vars

-----------------------------------------------------------------------------
(* Properties *)

\* Every variable keeps its type; in particular no timestamp passes MaxTime.
TypeOK ==
    /\ serving \in BOOLEAN
    /\ chatInformation \subseteq Helpers
    /\ sessionsIdsMap \in [Users -> Seq(Chats)]
    /\ messages \in [Helpers -> Seq(Message)]
    /\ chat_mutex_ \in [Helpers -> Threads \cup {NoThread}]
    /\ thread \in [Threads -> Places]
    /\ chat_message \in Seq(Row)
    /\ log \in [Helpers -> Seq(Message)]
    /\ incomplete \in [Helpers -> BOOLEAN]
    /\ restored \in [Helpers -> Nat]

\* A chat whose exchanges were all stored at every restart shows all of them, in
\* the order they were accepted, however the clock was set: commitExchange orders
\* the timestamps, readDataFromMySQL orders by them.
RestoresInOrder ==
    \A user \in Users, chat \in Chats :
        ~incomplete[<<user, chat>>] =>
            \A history \in Shown(user, chat) : history = log[<<user, chat>>]

\* A history that has grown since the restore consists of questions and their
\* answers, and its timestamps increase from the last restored message on; a
\* history that was restored in another shape is never continued
\* (validateCanonicalHistory), because the models infer roles from positions.
ContinuesOnlyCanonical ==
    \A helper \in Helpers :
        LET history == messages[helper]
        IN  Len(history) > restored[helper] =>
                /\ \E n \in 0..Len(history) : Len(history) = 2 * n
                /\ \A i \in 1..(Len(history) - 1) : history[i].isUser # history[i + 1].isUser
                /\ history[1].isUser
                /\ \A i \in restored[helper]..(Len(history) - 1) :
                       i > 0 => history[i].ts < history[i + 1].ts

\* Even a chat that was restored with gaps shows only messages that were accepted
\* for this user and this chat, none of them twice, and no half of an exchange.
HistoryIsGenuine ==
    \A user \in Users, chat \in Chats : \A history \in Shown(user, chat) :
        LET accepted == log[<<user, chat>>]
        IN  /\ \A i \in DOMAIN history : \E n \in DOMAIN accepted : history[i] = accepted[n]
            /\ \A i, j \in DOMAIN history :
                  history[i] = history[j] /\ history[i].job # NoJob => i = j
            /\ \A i \in DOMAIN history : history[i].job # NoJob =>
                  \E j \in DOMAIN history : /\ history[j].job = history[i].job
                                            /\ history[j].isUser # history[i].isUser

\* A client that was answered has its exchange in the history; a client that was
\* told of an error has not, and nothing of it is queued or will be stored.
ReplyIsTrue ==
    \A t \in Threads :
        thread[t].pc = "done" =>
            LET history == messages[thread[t].on.owner]
                shown   == \E i \in DOMAIN history : history[i].job = thread[t].job
            IN  /\ shown = thread[t].ok
                /\ ~thread[t].ok => thread[t].job \notin outbox \cup Held

\* The list of chats and the map of helpers agree: each helper is listed for its
\* user, once, and nothing else is.
ListsEveryChat ==
    \A user \in Users :
        LET list == ShownChats(user)
        IN  /\ {list[i] : i \in DOMAIN list} = {chat \in Chats : <<user, chat>> \in chatInformation}
            /\ \A i, j \in DOMAIN list : list[i] = list[j] => i = j

Grows(helper) == serving /\ serving' /\ messages'[helper] # messages[helper]

\* Each answer was given to the very history it is appended to: between a thread's
\* snapshot for the model and its commit no other exchange gets in.
AnswersInContext ==
    [][\A helper \in Helpers : Grows(helper) =>
          \E t \in Threads : /\ thread[t].pc = "swap" /\ thread[t].on.helper = helper
                             /\ thread[t].request = messages[helper]
                             /\ messages'[helper] = messages[helper]
                                    \o Exchange(thread[t].job, thread[t].ts)]_vars
=============================================================================
