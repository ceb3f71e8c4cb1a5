---------------------------- MODULE ExchangeQueue ----------------------------
(***************************************************************************)
(* What MQManager promises the chat helper: a queue that delivers at least *)
(* once.  An exchange that publish has accepted is in the process's memory *)
(* until the broker holds it; what the broker holds outlives the process   *)
(* and leaves its queue only when it is stored or quarantined.             *)
(*                                                                         *)
(* Each variable is a set of exchanges, so copies of one exchange are not  *)
(* told apart.  MQManager implements this specification (its property      *)
(* ImplementsQueue), and ChatHistory is built on it.                       *)
(***************************************************************************)
CONSTANTS Jobs,   \* exchanges, by message id
          Legacy  \* backlog items of an earlier release

VARIABLES outbox,      \* in the memory of the process, not yet confirmed
          queued,      \* in sql_queue, delivered ones included until acknowledged
          quarantined, \* in sql_queue.dead
          stored       \* in the table chat_message

queueState == <<outbox, queued, quarantined, stored>>

Held == queued \cup quarantined \cup stored

QueueInit ==
    /\ outbox = {}
    /\ queued = Legacy
    /\ quarantined = {}
    /\ stored = {}

\* publish returned true, and its functor is queued.
Accept(job) ==
    /\ job \in Jobs \ (outbox \cup Held)
    /\ outbox' = outbox \cup {job}
    /\ UNCHANGED <<queued, quarantined, stored>>

\* A delivery that could not be stored is published again, or to quarantine.
Replace(job) ==
    /\ job \in queued
    /\ outbox' = outbox \cup {job}
    /\ UNCHANGED <<queued, quarantined, stored>>

\* The broker stores a publish.
Deposit(job) ==
    /\ job \in outbox
    /\ \/ queued' = queued \cup {job} /\ UNCHANGED quarantined
       \/ quarantined' = quarantined \cup {job} /\ UNCHANGED queued
    /\ UNCHANGED <<outbox, stored>>

\* A confirm, of one or of several publications, frees the memory.
Forget(jobs) ==
    /\ jobs \subseteq outbox \cap Held
    /\ outbox' = outbox \ jobs
    /\ UNCHANGED <<queued, quarantined, stored>>

\* The consumer's INSERT takes effect.
Store(job) ==
    /\ job \in queued \cap Jobs
    /\ stored' = stored \cup {job}
    /\ UNCHANGED <<outbox, queued, quarantined>>

\* The broker drops an acknowledged delivery.
Remove(job) ==
    /\ job \in queued \cap (stored \cup quarantined)
    /\ queued' = queued \ {job}
    /\ UNCHANGED <<outbox, quarantined, stored>>

\* The process ends.
LoseOutbox ==
    /\ outbox' = {}
    /\ UNCHANGED <<queued, quarantined, stored>>

QueueNext ==
    \/ \E job \in Jobs : Accept(job)
    \/ \E job \in Jobs \cup Legacy :
          Replace(job) \/ Deposit(job) \/ Store(job) \/ Remove(job)
    \/ \E jobs \in SUBSET outbox : Forget(jobs)
    \/ LoseOutbox

QueueSpec == QueueInit /\ [][QueueNext]_queueState
=============================================================================
