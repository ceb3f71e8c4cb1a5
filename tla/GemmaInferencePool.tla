------------------------ MODULE GemmaInferencePool ------------------------
(***************************************************************************)
(* GemmaInferencePool: the local model and the KV caches of the chats.     *)
(* inference_mutex_ is held during a whole generation, its callbacks       *)
(* included; a generation is two steps, up to the call of the engine and   *)
(* after it, so that the engine or a callback may throw between them.      *)
(*                                                                         *)
(* A message is a model value that costs Size tokens.  The KV cache of a   *)
(* session is modelled by the messages its positions encode, which the     *)
(* code never sees: it decides by the transcript it remembers.             *)
(*                                                                         *)
(* A call that throws before pruneExpiredLocked (model not loaded, invalid *)
(* argument, history of even length) and an initialize that fails change   *)
(* nothing and are not steps of the model.                                 *)
(***************************************************************************)
EXTENDS Integers, Sequences, FiniteSets

CONSTANTS
    Key, Message,
    Size,             \* tokens of a message
    Wrap,             \* tokens the chat template adds to a user turn
    max_sessions, sequence_tokens, idle_ttl,    \* CachePolicy
    kvLen,            \* SeqLen of an allocated cache
    MaxTokens,        \* bound: the max_tokens callers ask for
    MaxLen,           \* bound: messages of a history
    MaxClock, MaxTurns

ASSUME PolicyAssumption ==
    /\ max_sessions \in Nat \ {0} /\ sequence_tokens \in Nat \ {0} /\ idle_ttl \in Nat \ {0}
    /\ kvLen \in Nat /\ Wrap \in Nat /\ Size \in [Message -> Nat \ {0}]
    /\ MaxTokens \in Nat /\ MaxLen \in Nat

VARIABLES
    loaded,         \* gemma_ # nullptr
    sessions_,      \* the cached sessions
    access_order_,
    clock,
    running         \* the generation that holds inference_mutex_, or Idle

vars == <<loaded, sessions_, access_order_, clock, running>>

Idle == [busy |-> FALSE]
Partial == <<"partial">>   \* a KV cache the engine is writing to

Histories == UNION {[1..n -> Message] : n \in {i \in 1..MaxLen : i % 2 = 1}}

\* What callers ask for: a prompt for the cached context, or a whole history.
Request ==
    [key : Key, incremental : {FALSE}, texts : Histories, max : 1..MaxTokens]
      \cup [key : Key, incremental : {TRUE}, texts : [1..1 -> Message], max : 1..MaxTokens]

-----------------------------------------------------------------------------
(* Helpers of generateImpl *)

Without(s, K) == [k \in DOMAIN s \ K |-> s[k]]

Pruned == Without(sessions_, {k \in DOMAIN sessions_ : clock - sessions_[k].last_used >= idle_ttl})

\* Only the exact prior transcript continues a cache.
Reuse(s, r) ==
    /\ r.key \in DOMAIN s
    /\ \/ r.incremental
       \/ LET prior == s[r.key].transcript
          IN  /\ prior # <<>>
              /\ Len(prior) + 1 = Len(r.texts)
              /\ \A i \in DOMAIN prior : prior[i] = r.texts[i]

\* What is fed to the engine, and its tokens: odd places are turns of the user.
Fed(s, r) == IF Reuse(s, r) THEN <<r.texts[Len(r.texts)]>> ELSE r.texts

Tokens(texts) ==
    LET Sum[i \in 0..Len(texts)] ==
          IF i = 0 THEN 0
          ELSE Sum[i - 1] + Size[texts[i]] + (IF i % 2 = 1 THEN Wrap ELSE 0)
    IN  Sum[Len(texts)]

Start(s, r) == IF Reuse(s, r) THEN s[r.key].abs_pos ELSE 0

\* Mutant: the positions already used are forgotten.
FitsFresh(start, prompt, generated, capacity) == prompt > 0 /\ prompt + generated <= capacity

\* validateBudget
Fits(start, prompt, generated, capacity) ==
    /\ prompt > 0
    /\ start <= capacity
    /\ prompt <= capacity - start
    /\ generated <= capacity - start - prompt

Oldest(s) == CHOOSE k \in DOMAIN s : \A j \in DOMAIN s : s[k].access_order <= s[j].access_order

\* The loop that makes room: the n sessions with the smallest access_order go.
Evict(s, n) ==
    LET Gone[i \in 0..n] == IF i = 0 THEN s ELSE Without(Gone[i - 1], {Oldest(Gone[i - 1])})
    IN  Gone[n]

\* The caches left when one for a new session may be allocated.
MadeRoom(s, r) ==
    LET others == Without(s, {r.key})
        excess == Cardinality(DOMAIN others) - (max_sessions - 1)
    IN  Evict(others, IF excess > 0 THEN excess ELSE 0)

Fresh(s, r) ==
    [k \in DOMAIN MadeRoom(s, r) \cup {r.key} |->
       IF k = r.key THEN [transcript |-> <<>>, abs_pos |-> 0, kv |-> <<>>, last_used |-> 0,
                          access_order |-> 0]
       ELSE s[k]]

-----------------------------------------------------------------------------
(* Operations *)

Init ==
    /\ loaded = FALSE /\ sessions_ = Without([k \in Key |-> 0], Key)
    /\ access_order_ = 0 /\ clock = 0 /\ running = Idle

Initialize ==
    /\ ~running.busy /\ ~loaded
    /\ loaded' = TRUE
    /\ UNCHANGED <<sessions_, access_order_, clock, running>>

Shutdown ==
    /\ ~running.busy
    /\ loaded' = FALSE /\ sessions_' = Without(sessions_, Key) /\ access_order_' = 0
    /\ UNCHANGED <<clock, running>>

ClearSession(k) ==
    /\ ~running.busy /\ k \in DOMAIN sessions_
    /\ sessions_' = Without(sessions_, {k})
    /\ UNCHANGED <<loaded, access_order_, clock, running>>

Tick == clock < MaxClock /\ clock' = clock + 1 /\ UNCHANGED <<loaded, sessions_, access_order_, running>>

\* generateImpl throws while it tokenizes or measures the prompt.
Refuse ==
    /\ ~running.busy /\ loaded /\ sessions_' = Pruned
    /\ UNCHANGED <<loaded, access_order_, clock, running>>

\* The prompt fits where it will be written.
Admitted(s, r) ==
    /\ Tokens(Fed(s, r)) <= sequence_tokens
    /\ Fits(Start(s, r), Tokens(Fed(s, r)), r.max, IF Reuse(s, r) THEN kvLen ELSE sequence_tokens)

\* The new cache cannot be allocated, or is smaller than the prompt needs.
AllocationFails(r) ==
    /\ ~running.busy /\ loaded
    /\ Admitted(Pruned, r) /\ ~Reuse(Pruned, r)
    /\ sessions_' = MadeRoom(Pruned, r)
    /\ UNCHANGED <<loaded, access_order_, clock, running>>

Generate(r) ==
    /\ ~running.busy /\ loaded /\ access_order_ < MaxTurns
    /\ Admitted(Pruned, r)
    /\ LET s == Pruned
           reuse == Reuse(s, r)
           tokens == Tokens(Fed(s, r))
           base == IF reuse THEN s ELSE Fresh(s, r)
       IN  /\ reuse \/ Fits(0, tokens, r.max, kvLen)
           /\ sessions_' = [base EXCEPT ![r.key].kv = Partial]
           /\ running' = [busy |-> TRUE, request |-> r, start_pos |-> Start(s, r),
                          tokens |-> tokens, context |-> base[r.key].kv \o Fed(s, r)]
    /\ UNCHANGED <<loaded, access_order_, clock>>

\* Mutant: only a new session counts as an access.
FinishOnlyFresh(answer, generated) ==
    LET r == running.request IN
    /\ running.busy /\ generated <= r.max
    /\ access_order_' = access_order_ + 1
    /\ sessions_' = [sessions_ EXCEPT ![r.key] =
         [kv |-> running.context \o <<answer>>,
          abs_pos |-> running.start_pos + running.tokens + generated,
          transcript |-> IF r.incremental THEN <<>> ELSE r.texts \o <<answer>>,
          last_used |-> clock,
          access_order |-> IF running.start_pos = 0 THEN access_order_ + 1 ELSE @.access_order]]
    /\ running' = Idle
    /\ UNCHANGED <<loaded, clock>>

\* The engine has streamed the prompt's tokens and the generated ones.
Finish(answer, generated) ==
    LET r == running.request IN
    /\ running.busy /\ generated <= r.max
    /\ access_order_' = access_order_ + 1
    /\ sessions_' = [sessions_ EXCEPT ![r.key] =
         [kv |-> running.context \o <<answer>>,
          abs_pos |-> running.start_pos + running.tokens + generated,
          transcript |-> IF r.incremental THEN <<>> ELSE r.texts \o <<answer>>,
          last_used |-> clock,
          access_order |-> access_order_ + 1]]
    /\ running' = Idle
    /\ UNCHANGED <<loaded, clock>>

\* Mutant: the session survives the exception.
FailKeeps ==
    /\ running.busy /\ running' = Idle
    /\ UNCHANGED <<loaded, sessions_, access_order_, clock>>

\* The engine or a callback throws.
Fail ==
    /\ running.busy
    /\ sessions_' = Without(sessions_, {running.request.key})
    /\ running' = Idle
    /\ UNCHANGED <<loaded, access_order_, clock>>

Next ==
    \/ Initialize \/ Shutdown \/ Tick \/ Refuse \/ Fail
    \/ \E k \in Key : ClearSession(k)
    \/ \E r \in Request : Generate(r) \/ AllocationFails(r)
    \/ \E a \in Message, n \in 0..MaxTokens : Finish(a, n)

Spec == Init /\ [][Next]_vars

-----------------------------------------------------------------------------
(* Properties *)

\* The context the engine answers in is the history the caller supplied, whatever
\* caches were reused, evicted, expired, cleared or lost to an exception before
\* (generateFromHistory; "Only an exact prior transcript can reuse KV state").
ContextIsHistory ==
    running.busy /\ ~running.request.incremental => running.context = running.request.texts

\* generateImpl never has more caches than max_sessions, the one it is allocating
\* included, and no generation can write behind the end of its cache, even after
\* many turns on one cache.
WithinCache ==
    /\ Cardinality(DOMAIN sessions_) <= max_sessions
    /\ running.busy => running.start_pos + running.tokens + running.request.max <= kvLen
    /\ \A k \in DOMAIN sessions_ : sessions_[k].abs_pos <= kvLen

\* A generation that drops another chat's cache before it expired had a full
\* pool, and dropped the one that was idle longest: nobody it kept was used
\* earlier.
EvictsOldestIdle ==
    [][~running.busy /\ running'.busy =>
         LET key == running'.request.key IN
         \A k \in DOMAIN Pruned \ (DOMAIN sessions_' \cup {key}) :
            /\ Cardinality(DOMAIN Pruned) = max_sessions
            /\ \A j \in DOMAIN sessions_' \ {key} :
                 sessions_[k].last_used <= sessions_[j].last_used]_vars
=============================================================================
