-------------------------- MODULE ChatHistoryProofs --------------------------
(***************************************************************************)
(* Proofs about the chat histories, for any sets of users, chats, threads  *)
(* and exchanges and any table of an earlier release.  In the order of the *)
(* sections: the types and the log; every answer is appended to the        *)
(* history it was given for; only canonical histories are continued; the   *)
(* table agrees with the log; histories in memory are genuine and replies  *)
(* are true; a restore brings a chat back in order; every chat is listed.  *)
(***************************************************************************)
EXTENDS ChatHistory, FiniteSetTheorems, WellFoundedInduction, TLAPS

-----------------------------------------------------------------------------
(* Induction on sets of numbers *)

LEMMA LeastNumber ==
    ASSUME NEW T, T \subseteq Nat, T # {}
    PROVE  \E m \in T : \A n \in T : m <= n
<1>1. \E m \in T : \A n \in T : ~(<<n, m>> \in OpToRel(<, Nat))
  BY NatLessThanWellFounded, WFMin
<1>2. ASSUME NEW m \in T, NEW n \in T, ~(<<n, m>> \in OpToRel(<, Nat)) PROVE m <= n
  <2>1. m \in Nat /\ n \in Nat
    OBVIOUS
  <2>2. ~(n < m)
    BY <1>2, <2>1 DEF OpToRel
  <2> QED BY <2>1, <2>2
<1> QED BY <1>1, <1>2

LEMMA InductionOnSet ==
    ASSUME NEW P, 0 \in P, \A n \in Nat : n \in P => n + 1 \in P
    PROVE  Nat \subseteq P
<1> SUFFICES ASSUME NEW n \in Nat, n \notin P PROVE FALSE
  OBVIOUS
<1> DEFINE T == Nat \ P
<1>1. PICK m \in T : \A k \in T : m <= k
  BY LeastNumber
<1>2. m # 0 /\ m - 1 \in Nat
  OBVIOUS
<1>3. m - 1 \in P
  BY <1>1, <1>2
<1> QED BY <1>2, <1>3

-----------------------------------------------------------------------------
(* What the loop over the rows restores *)

\* The results of the loop after each row.
Reads(read, rows, n) ==
    /\ read[0] = NothingRead
    /\ \A i \in 1..n : read[i] = ReadRow(read[i - 1], rows[i])

LEMMA ReadingExists ==
    ASSUME NEW rows, NEW n \in Nat
    PROVE  \E read : DOMAIN read = 0..n /\ read = [i \in DOMAIN read |-> read[i]] /\ Reads(read, rows, n)
<1> DEFINE Upto(m) == \E read : /\ DOMAIN read = 0..m /\ read = [i \in DOMAIN read |-> read[i]]
                                /\ Reads(read, rows, m)
           P == {m \in Nat : Upto(m)}
<1>1. 0 \in P
  <2> DEFINE f == [i \in 0..0 |-> NothingRead]
  <2>1. DOMAIN f = 0..0 /\ f = [i \in DOMAIN f |-> f[i]] /\ f[0] = NothingRead
    OBVIOUS
  <2> HIDE DEF f
  <2>2. Reads(f, rows, 0)
    BY <2>1 DEF Reads
  <2> QED BY <2>1, <2>2
<1>2. ASSUME NEW m \in Nat, m \in P PROVE m + 1 \in P
  <2>1. PICK f : DOMAIN f = 0..m /\ f = [i \in DOMAIN f |-> f[i]] /\ Reads(f, rows, m)
    BY <1>2
  <2> DEFINE last == ReadRow(f[m], rows[m + 1])
             g == [i \in 0..(m + 1) |-> IF i <= m THEN f[i] ELSE last]
  <2> HIDE DEF last
  <2>2. /\ DOMAIN g = 0..(m + 1) /\ g = [i \in DOMAIN g |-> g[i]]
        /\ g[m + 1] = last /\ \A i \in 0..m : g[i] = f[i]
    OBVIOUS
  <2> HIDE DEF g
  <2>3. g[0] = NothingRead
    BY <2>1, <2>2 DEF Reads
  <2>4. ASSUME NEW i \in 1..(m + 1) PROVE g[i] = ReadRow(g[i - 1], rows[i])
    <3>1. CASE i = m + 1
      <4>1. g[i - 1] = f[m] /\ g[i] = last
        BY <2>2, <3>1
      <4> QED BY <3>1, <4>1 DEF last
    <3>2. CASE i # m + 1
      <4>1. i \in 1..m /\ g[i] = f[i] /\ g[i - 1] = f[i - 1]
        BY <2>2, <3>2
      <4> QED BY <2>1, <4>1 DEF Reads
    <3> QED BY <3>1, <3>2
  <2>5. Reads(g, rows, m + 1)
    BY <2>3, <2>4 DEF Reads
  <2>6. Upto(m + 1)
    BY <2>2, <2>5
  <2> QED BY <2>6
<1>3. Nat \subseteq P
  <2> HIDE DEF P
  <2> QED BY <1>1, <1>2, InductionOnSet
<1>4. n \in P
  BY <1>3
<1> QED BY <1>4

LEMMA ReadingIs ==
    ASSUME NEW rows \in Seq(Row)
    PROVE  \E read : Reads(read, rows, Len(rows)) /\ ReadRows(rows) = read[Len(rows)]
<1> DEFINE n == Len(rows)
           G(f) == [i \in 0..n |-> IF i = 0 THEN NothingRead ELSE ReadRow(f[i - 1], rows[i])]
<1>1. n \in Nat
  OBVIOUS
<1>2. PICK f : DOMAIN f = 0..n /\ f = [i \in DOMAIN f |-> f[i]] /\ Reads(f, rows, n)
  <2> HIDE DEF n
  <2> QED BY <1>1, ReadingExists
<1>3. f = G(f)
  <2>1. ASSUME NEW i \in 0..n PROVE f[i] = G(f)[i]
    <3> HIDE DEF n
    <3>1. CASE i = 0
      BY <1>2, <3>1 DEF Reads
    <3>2. CASE i # 0
      <4>1. i \in 1..n
        BY <1>1, <3>2
      <4> QED BY <1>2, <3>2, <4>1 DEF Reads
    <3> QED BY <3>1, <3>2
  <2> HIDE DEF n
  <2>2. G(f) = [i \in 0..n |-> f[i]]
    BY <2>1
  <2> QED BY <1>2, <2>2
<1> DEFINE read == CHOOSE h : h = G(h)
<1>4. read = G(read)
  BY <1>3
<1>5. ReadRows(rows) = read[n]
  BY DEF ReadRows
<1> HIDE DEF read
<1>6. read[0] = NothingRead
  BY <1>1, <1>4
<1>7. ASSUME NEW i \in 1..n PROVE read[i] = ReadRow(read[i - 1], rows[i])
  <2>1. i \in 0..n /\ i # 0
    BY <1>1
  <2> QED BY <1>4, <2>1
<1>8. Reads(read, rows, n)
  BY <1>6, <1>7 DEF Reads
<1> QED BY <1>5, <1>8

\* `at` says from which rows a helper's history was read: all of its rows among the
\* first n, in their order.
Selects(at, history, rows, n, helper) ==
    /\ at \in [1..Len(history) -> 1..n]
    /\ \A k \in 1..Len(history) : /\ rows[at[k]].helper = helper
                                  /\ history[k] = MessageOf(rows[at[k]])
    /\ \A k, l \in 1..Len(history) : k < l => at[k] < at[l]
    /\ \A m \in 1..n : rows[m].helper = helper => \E k \in 1..Len(history) : at[k] = m

HistoriesRead(read, rows, n) ==
    /\ read.histories \in [Helpers -> Seq(Message)]
    /\ \A helper \in Helpers : \E at : Selects(at, read.histories[helper], rows, n, helper)

\* The list of chats agrees with a set of helpers, and has nothing twice.
Lists(list, user, helpers) ==
    /\ \A i \in DOMAIN list : <<user, list[i]>> \in helpers
    /\ \A chat \in Chats : <<user, chat>> \in helpers => \E i \in DOMAIN list : list[i] = chat
    /\ \A i, j \in DOMAIN list : list[i] = list[j] => i = j

ListsRead(read) ==
    /\ read.helpers \subseteq Helpers
    /\ read.lists \in [Users -> Seq(Chats)]
    /\ \A user \in Users : Lists(read.lists[user], user, read.helpers)

\* A chat that was not listed is listed once when its id is appended.
LEMMA ListsGrow ==
    ASSUME NEW user \in Users, NEW chat \in Chats, NEW list \in Seq(Chats), NEW helpers,
           Lists(list, user, helpers), <<user, chat>> \notin helpers
    PROVE  Lists(Append(list, chat), user, helpers \cup {<<user, chat>>})
<1> DEFINE new == Append(list, chat)
<1>1. /\ DOMAIN list = 1..Len(list) /\ DOMAIN new = 1..(Len(list) + 1) /\ Len(list) \in Nat
      /\ new[Len(list) + 1] = chat /\ \A i \in 1..Len(list) : new[i] = list[i]
  OBVIOUS
<1> HIDE DEF new
<1>2. \A i \in DOMAIN new : i = Len(list) + 1 \/ i \in 1..Len(list)
  BY <1>1
<1>3. \A i \in 1..Len(list) : list[i] # chat
  BY <1>1 DEF Lists
<1>4. \A i \in DOMAIN new : <<user, new[i]>> \in helpers \cup {<<user, chat>>}
  BY <1>1, <1>2 DEF Lists
<1>5. ASSUME NEW c \in Chats, <<user, c>> \in helpers \cup {<<user, chat>>}
      PROVE  \E i \in DOMAIN new : new[i] = c
  <2>1. CASE c = chat
    BY <1>1, <2>1
  <2>2. CASE c # chat
    <3>1. PICK i \in DOMAIN list : list[i] = c
      BY <1>5, <2>2 DEF Lists
    <3> QED BY <1>1, <3>1
  <2> QED BY <2>1, <2>2
<1>6. \A i, j \in DOMAIN new : new[i] = new[j] => i = j
  BY <1>1, <1>2, <1>3 DEF Lists
<1>7. Lists(new, user, helpers \cup {<<user, chat>>})
  BY <1>4, <1>5, <1>6 DEF Lists
<1> QED BY <1>7 DEF new

\* Another user's chat does not matter to a list.
LEMMA ListsOther ==
    ASSUME NEW user, NEW other, NEW chat, NEW list, NEW helpers,
           Lists(list, user, helpers), other # user
    PROVE  Lists(list, user, helpers \cup {<<other, chat>>})
BY DEF Lists

LEMMA RowTypes ==
    ASSUME NEW row \in Row
    PROVE  /\ row.helper \in Helpers /\ MessageOf(row) \in Message
           /\ row.helper[1] \in Users /\ row.helper[2] \in Chats
           /\ row.helper = <<row.helper[1], row.helper[2]>>
<1>1. row.helper \in Helpers /\ row.job \in Jobs \cup {NoJob} /\ row.ts \in 0..MaxTime
  BY DEF Row
<1>2. MessageOf(row) \in Message
  <2>1. (row.is_user = 1) \in BOOLEAN
    OBVIOUS
  <2> QED BY <1>1, <2>1 DEF MessageOf, Message
<1>3. /\ row.helper[1] \in Users /\ row.helper[2] \in Chats
      /\ row.helper = <<row.helper[1], row.helper[2]>>
  BY <1>1 DEF Helpers
<1> QED BY <1>1, <1>2, <1>3

LEMMA ReadRowFields ==
    ASSUME NEW read, NEW row
    PROVE  /\ ReadRow(read, row).helpers = read.helpers \cup {row.helper}
           /\ ReadRow(read, row).lists =
                IF row.helper \in read.helpers THEN read.lists
                ELSE [read.lists EXCEPT ![row.helper[1]] = Append(@, row.helper[2])]
           /\ ReadRow(read, row).histories =
                [read.histories EXCEPT ![row.helper] = Append(@, MessageOf(row))]
BY DEF ReadRow

LEMMA ListsReadStep ==
    ASSUME NEW read, NEW row \in Row, ListsRead(read)
    PROVE  ListsRead(ReadRow(read, row))
<1> DEFINE new == ReadRow(read, row)
           u == row.helper[1]
           c == row.helper[2]
<1>1. u \in Users /\ c \in Chats /\ row.helper = <<u, c>> /\ row.helper \in Helpers
  BY RowTypes
<1>2. new.helpers = read.helpers \cup {row.helper}
  BY ReadRowFields
<1>3. new.lists = IF row.helper \in read.helpers THEN read.lists
                  ELSE [read.lists EXCEPT ![u] = Append(@, c)]
  BY ReadRowFields
<1> HIDE DEF new, u, c
<1>4. new.helpers \subseteq Helpers
  BY <1>1, <1>2 DEF ListsRead
<1>5. CASE row.helper \in read.helpers
  <2>1. new.helpers = read.helpers /\ new.lists = read.lists
    BY <1>2, <1>3, <1>5
  <2> QED BY <2>1 DEF ListsRead, new
<1>6. CASE row.helper \notin read.helpers
  <2>1. new.lists = [read.lists EXCEPT ![u] = Append(@, c)]
    BY <1>3, <1>6
  <2>2. new.lists \in [Users -> Seq(Chats)]
    BY <1>1, <2>1 DEF ListsRead
  <2>3. ASSUME NEW user \in Users PROVE Lists(new.lists[user], user, new.helpers)
    <3>0. read.lists[user] \in Seq(Chats) /\ Lists(read.lists[user], user, read.helpers)
      BY DEF ListsRead
    <3>1. CASE user = u
      <4>1. new.lists[user] = Append(read.lists[user], c)
        BY <1>1, <2>1, <3>1 DEF ListsRead
      <4>2. <<user, c>> \notin read.helpers
        BY <1>1, <1>6, <3>1
      <4>3. Lists(Append(read.lists[user], c), user, read.helpers \cup {<<user, c>>})
        BY <1>1, <3>0, <4>2, ListsGrow
      <4> QED BY <1>1, <1>2, <3>1, <4>1, <4>3
    <3>2. CASE user # u
      <4>1. new.lists[user] = read.lists[user]
        BY <1>1, <2>1, <3>2 DEF ListsRead
      <4>2. Lists(read.lists[user], user, read.helpers \cup {<<u, c>>})
        BY <3>0, <3>2, ListsOther
      <4> QED BY <1>1, <1>2, <4>1, <4>2
    <3> QED BY <3>1, <3>2
  <2>4. ListsRead(new)
    BY <1>4, <2>2, <2>3 DEF ListsRead
  <2> QED BY <2>4 DEF new
<1> QED BY <1>5, <1>6

\* The next row is one of the helper's.
LEMMA SelectsOwn ==
    ASSUME NEW rows, NEW n \in Nat, NEW helper, NEW history \in Seq(Message), NEW at,
           Selects(at, history, rows, n, helper),
           rows[n + 1].helper = helper, MessageOf(rows[n + 1]) \in Message
    PROVE  \E new : Selects(new, Append(history, MessageOf(rows[n + 1])), rows, n + 1, helper)
<1> DEFINE message == MessageOf(rows[n + 1])
           longer == Append(history, message)
           new == [k \in 1..(Len(history) + 1) |-> IF k <= Len(history) THEN at[k] ELSE n + 1]
<1>1. /\ Len(history) \in Nat /\ Len(longer) = Len(history) + 1
      /\ longer[Len(history) + 1] = message
      /\ \A k \in 1..Len(history) : longer[k] = history[k]
  OBVIOUS
<1>2. \A k \in 1..Len(history) : at[k] \in 1..n
  BY DEF Selects
<1>3. /\ new[Len(history) + 1] = n + 1
      /\ \A k \in 1..Len(history) : new[k] = at[k]
      /\ new \in [1..Len(longer) -> 1..(n + 1)]
  BY <1>1, <1>2
<1> HIDE DEF new, longer
<1>4. \A k \in 1..Len(longer) : k = Len(history) + 1 \/ k \in 1..Len(history)
  BY <1>1
<1>5. \A k \in 1..Len(longer) : rows[new[k]].helper = helper /\ longer[k] = MessageOf(rows[new[k]])
  BY <1>1, <1>3, <1>4 DEF Selects, message
<1>6. ASSUME NEW k \in 1..Len(longer), NEW l \in 1..Len(longer), k < l PROVE new[k] < new[l]
  <2>1. k \in 1..Len(history)
    BY <1>1, <1>4, <1>6
  <2>2. new[k] = at[k] /\ at[k] \in 1..n
    BY <1>2, <1>3, <2>1
  <2>3. CASE l = Len(history) + 1
    <3>1. new[l] = n + 1
      BY <1>3, <2>3
    <3> QED BY <2>2, <3>1
  <2>4. CASE l \in 1..Len(history)
    BY <1>3, <1>6, <2>1, <2>4 DEF Selects
  <2> QED BY <1>4, <2>3, <2>4
<1>7. ASSUME NEW m \in 1..(n + 1), rows[m].helper = helper
      PROVE  \E k \in 1..Len(longer) : new[k] = m
  <2>1. CASE m = n + 1
    BY <1>1, <1>3, <2>1
  <2>2. CASE m # n + 1
    <3>1. m \in 1..n
      BY <2>2
    <3>2. PICK k \in 1..Len(history) : at[k] = m
      BY <1>7, <3>1 DEF Selects
    <3> QED BY <1>1, <1>3, <3>2
  <2> QED BY <2>1, <2>2
<1>8. Selects(new, longer, rows, n + 1, helper)
  BY <1>3, <1>5, <1>6, <1>7 DEF Selects
<1> QED BY <1>8 DEF longer, message

\* The next row is another helper's.
LEMMA SelectsOther ==
    ASSUME NEW rows, NEW n \in Nat, NEW helper, NEW history, NEW at,
           Selects(at, history, rows, n, helper), rows[n + 1].helper # helper
    PROVE  Selects(at, history, rows, n + 1, helper)
<1>1. \A m \in 1..(n + 1) : m \in 1..n \/ m = n + 1
  OBVIOUS
<1>2. at \in [1..Len(history) -> 1..(n + 1)]
  BY DEF Selects
<1> QED BY <1>1, <1>2 DEF Selects

LEMMA HistoriesReadStep ==
    ASSUME NEW rows \in Seq(Row), NEW n \in Nat, n + 1 <= Len(rows), NEW read,
           HistoriesRead(read, rows, n)
    PROVE  HistoriesRead(ReadRow(read, rows[n + 1]), rows, n + 1)
<1> DEFINE row == rows[n + 1]
           new == ReadRow(read, row)
<1>1. row \in Row
  OBVIOUS
<1>2. row.helper \in Helpers /\ MessageOf(row) \in Message
  BY <1>1, RowTypes
<1>3. new.histories = [read.histories EXCEPT ![row.helper] = Append(@, MessageOf(row))]
  BY ReadRowFields
<1> HIDE DEF new
<1>4. new.histories \in [Helpers -> Seq(Message)]
  BY <1>2, <1>3 DEF HistoriesRead
<1>5. ASSUME NEW helper \in Helpers
      PROVE  \E at : Selects(at, new.histories[helper], rows, n + 1, helper)
  <2>1. read.histories[helper] \in Seq(Message)
    BY DEF HistoriesRead
  <2>2. PICK at : Selects(at, read.histories[helper], rows, n, helper)
    BY DEF HistoriesRead
  <2>3. CASE row.helper = helper
    <3>1. new.histories[helper] = Append(read.histories[helper], MessageOf(row))
      BY <1>3, <2>3 DEF HistoriesRead
    <3>2. \E b : Selects(b, Append(read.histories[helper], MessageOf(row)), rows, n + 1, helper)
      BY <1>2, <2>1, <2>2, <2>3, SelectsOwn
    <3> QED BY <3>1, <3>2
  <2>4. CASE row.helper # helper
    <3>1. new.histories[helper] = read.histories[helper]
      BY <1>2, <1>3, <2>4 DEF HistoriesRead
    <3>2. Selects(at, read.histories[helper], rows, n + 1, helper)
      BY <2>2, <2>4, SelectsOther
    <3> QED BY <3>1, <3>2
  <2> QED BY <2>3, <2>4
<1>6. HistoriesRead(new, rows, n + 1)
  BY <1>4, <1>5 DEF HistoriesRead
<1> QED BY <1>6 DEF new

\* The loop of readDataFromMySQL: every history consists of its chat's rows, in the
\* order of the result, and every chat is listed once.
LEMMA RowsAreRead ==
    ASSUME NEW rows \in Seq(Row)
    PROVE  HistoriesRead(ReadRows(rows), rows, Len(rows)) /\ ListsRead(ReadRows(rows))
<1>1. PICK read : Reads(read, rows, Len(rows)) /\ ReadRows(rows) = read[Len(rows)]
  BY ReadingIs
<1> DEFINE Good(n) == HistoriesRead(read[n], rows, n) /\ ListsRead(read[n])
           P == {n \in Nat : n <= Len(rows) => Good(n)}
<1>2. 0 \in P
  <2>1. /\ NothingRead.helpers = {} /\ NothingRead.lists = [user \in Users |-> <<>>]
        /\ NothingRead.histories = [helper \in Helpers |-> <<>>]
    BY DEF NothingRead
  <2>2. ListsRead(NothingRead)
    BY <2>1 DEF ListsRead, Lists
  <2>3. NothingRead.histories \in [Helpers -> Seq(Message)]
    BY <2>1
  <2>4. ASSUME NEW helper \in Helpers
        PROVE  \E at : Selects(at, NothingRead.histories[helper], rows, 0, helper)
    <3>1. NothingRead.histories[helper] = <<>>
      BY <2>1
    <3>2. Selects([k \in 1..0 |-> k], <<>>, rows, 0, helper)
      BY DEF Selects
    <3> QED BY <3>1, <3>2
  <2>5. HistoriesRead(NothingRead, rows, 0)
    BY <2>3, <2>4 DEF HistoriesRead
  <2>6. read[0] = NothingRead
    BY <1>1 DEF Reads
  <2> QED BY <2>2, <2>5, <2>6
<1>3. ASSUME NEW n \in Nat, n \in P PROVE n + 1 \in P
  <2> SUFFICES ASSUME n + 1 <= Len(rows) PROVE Good(n + 1)
    OBVIOUS
  <2>1. Len(rows) \in Nat /\ Good(n) /\ n + 1 \in 1..Len(rows) /\ rows[n + 1] \in Row /\ (n + 1) - 1 = n
    BY <1>3
  <2>2. read[n + 1] = ReadRow(read[n], rows[n + 1])
    BY <1>1, <2>1 DEF Reads
  <2>3. HistoriesRead(read[n + 1], rows, n + 1)
    BY <2>1, <2>2, HistoriesReadStep
  <2>4. ListsRead(read[n + 1])
    BY <2>1, <2>2, ListsReadStep
  <2> QED BY <2>3, <2>4
<1>4. Nat \subseteq P
  <2> HIDE DEF P
  <2> QED BY <1>2, <1>3, InductionOnSet
<1>5. Len(rows) \in P
  BY <1>4
<1>6. Good(Len(rows))
  BY <1>5
<1> QED BY <1>1, <1>6

-----------------------------------------------------------------------------
(* Types, and the log of accepted exchanges *)

\* A thread works for the helper of the user and chat id it was asked for.
Owned == \A t \in Threads : thread[t].pc # "idle" => thread[t].on.owner = thread[t].on.helper

\* The timestamp of a published exchange leaves room for its answer.
Room == \A t \in Threads : thread[t].pc = "swap" => thread[t].ts < MaxTime

Has(history, message) == \E n \in DOMAIN history : history[n] = message

Question(job, ts) == [job |-> job, isUser |-> TRUE, ts |-> ts]
Answer(job, ts)   == [job |-> job, isUser |-> FALSE, ts |-> ts + 1]

\* The exchange is in some log.
Filed(job) == \E helper \in Helpers : \E n \in DOMAIN log[helper] : log[helper][n].job = job

\* A log has whole exchanges, apart from its legacy messages.
Whole ==
    \A helper \in Helpers : \A n \in DOMAIN log[helper] : log[helper][n].job # NoJob =>
        \E ts \in 0..(MaxTime - 1) :
            /\ Has(log[helper], Question(log[helper][n].job, ts))
            /\ Has(log[helper], Answer(log[helper][n].job, ts))

\* The same question, or the same answer.
Same(m, n) == m.job # NoJob /\ m.job = n.job /\ m.isUser = n.isUser

\* No exchange is filed twice.
OnePlace ==
    \A g, h \in Helpers : \A i \in DOMAIN log[g], j \in DOMAIN log[h] :
        Same(log[g][i], log[h][j]) => g = h /\ i = j

\* Everything the queue has is filed.
QueuedIsFiled ==
    /\ stored \subseteq Jobs
    /\ \A job \in Jobs \cap (outbox \cup Held) : Filed(job)

LogInv == Whole /\ OnePlace /\ QueuedIsFiled

Base == TypeOK /\ Owned /\ Room /\ LogInv

LEMMA PlaceKinds ==
    ASSUME NEW on \in [helper : Helpers, owner : Helpers]
    PROVE  /\ Idle \in Places
           /\ \A relocks \in BOOLEAN : [pc |-> "lock", on |-> on, relocks |-> relocks] \in Places
           /\ \A request \in Seq(Message) :
                 /\ [pc |-> "model", on |-> on, request |-> request] \in Places
                 /\ \A job \in Jobs, ts \in 0..MaxTime :
                       [pc |-> "swap", on |-> on, request |-> request, job |-> job, ts |-> ts] \in Places
           /\ \A job \in Jobs, ok \in BOOLEAN :
                 [pc |-> "done", on |-> on, job |-> job, ok |-> ok] \in Places
BY DEF Places

LEMMA PlaceTypes ==
    ASSUME NEW place \in Places
    PROVE  /\ place.pc \in {"idle", "lock", "model", "swap", "done"}
           /\ place.pc = "idle" => place = Idle
           /\ place.pc # "idle" => /\ place.on \in [helper : Helpers, owner : Helpers]
                                   /\ place.on.helper \in Helpers /\ place.on.owner \in Helpers
           /\ place.pc = "lock" => place.relocks \in BOOLEAN /\ place = [pc |-> "lock", on |-> place.on, relocks |-> place.relocks]
           /\ place.pc \in {"model", "swap"} => place.request \in Seq(Message)
           /\ place.pc = "swap" => place.job \in Jobs /\ place.ts \in 0..MaxTime
           /\ place.pc = "done" => place.job \in Jobs /\ place.ok \in BOOLEAN
<1> DEFINE Request == [helper : Helpers, owner : Helpers]
<1>1. CASE place = Idle
  BY <1>1 DEF Idle
<1>2. CASE place \in [pc : {"lock"}, on : Request, relocks : BOOLEAN]
  BY <1>2
<1>3. CASE place \in [pc : {"model"}, on : Request, request : Seq(Message)]
  BY <1>3
<1>4. CASE place \in [pc : {"swap"}, on : Request, request : Seq(Message), job : Jobs, ts : 0..MaxTime]
  BY <1>4
<1>5. CASE place \in [pc : {"done"}, on : Request, job : Jobs, ok : BOOLEAN]
  BY <1>5
<1> QED BY <1>1, <1>2, <1>3, <1>4, <1>5 DEF Places

LEMMA ExchangeIs ==
    ASSUME NEW job \in Jobs, NEW ts \in 0..(MaxTime - 1)
    PROVE  /\ Exchange(job, ts) = <<Question(job, ts), Answer(job, ts)>>
           /\ Question(job, ts) \in Message /\ Answer(job, ts) \in Message
           /\ Exchange(job, ts) \in Seq(Message)
<1>1. Exchange(job, ts) = <<Question(job, ts), Answer(job, ts)>>
  BY DEF Exchange, Question, Answer
<1>2. Question(job, ts) \in Message
  BY TimeAssumption DEF Question, Message
<1>3. ts + 1 \in 0..MaxTime
  BY TimeAssumption
<1>4. Answer(job, ts) \in Message
  BY <1>3 DEF Answer, Message
<1> QED BY <1>1, <1>2, <1>4

\* What appending an exchange makes of a history.
LEMMA Appended ==
    ASSUME NEW history \in Seq(Message), NEW job \in Jobs, NEW ts \in 0..(MaxTime - 1)
    PROVE  LET longer == history \o Exchange(job, ts)
           IN  /\ longer \in Seq(Message)
               /\ Len(history) \in Nat /\ Len(longer) = Len(history) + 2
               /\ DOMAIN history = 1..Len(history) /\ DOMAIN longer = 1..(Len(history) + 2)
               /\ \A n \in 1..Len(history) : longer[n] = history[n]
               /\ longer[Len(history) + 1] = Question(job, ts)
               /\ longer[Len(history) + 2] = Answer(job, ts)
               /\ \A n \in DOMAIN longer :
                     n \in 1..Len(history) \/ n = Len(history) + 1 \/ n = Len(history) + 2
<1> DEFINE pair == <<Question(job, ts), Answer(job, ts)>>
           longer == history \o pair
<1>1. Exchange(job, ts) = pair /\ Question(job, ts) \in Message /\ Answer(job, ts) \in Message
  BY ExchangeIs
<1>2. pair \in Seq(Message) /\ Len(pair) = 2 /\ pair[1] = Question(job, ts) /\ pair[2] = Answer(job, ts)
  BY <1>1
<1> HIDE DEF pair
<1>3. longer \in Seq(Message) /\ Len(history) \in Nat /\ Len(longer) = Len(history) + 2
  <2>1. longer \in Seq(Message)
    BY <1>2
  <2>2. Len(longer) = Len(history) + 2
    BY DEF pair
  <2> QED BY <2>1, <2>2
<1>4. DOMAIN history = 1..Len(history) /\ DOMAIN longer = 1..(Len(history) + 2)
  <2>1. DOMAIN longer = 1..Len(longer)
    BY <1>3
  <2> QED BY <1>3, <2>1
<1>6. \A n \in 1..Len(history) : longer[n] = history[n]
  BY <1>2
<1>7. longer[Len(history) + 1] = pair[1]
  BY <1>2
<1>8. longer[Len(history) + 2] = pair[2]
  BY <1>2
<1>5. \A n \in DOMAIN longer :
        n \in 1..Len(history) \/ n = Len(history) + 1 \/ n = Len(history) + 2
  BY <1>3, <1>4
<1> QED BY <1>1, <1>2, <1>3, <1>4, <1>5, <1>6, <1>7, <1>8

\* commitExchange's timestamp.
LEMMA TimestampIs ==
    ASSUME NEW history \in Seq(Message), NEW now \in Nat, TimeLeft(history, now)
    PROVE  /\ Timestamp(history, now) \in 0..(MaxTime - 1)
           /\ history # <<>> => LastTime(history) < Timestamp(history, now)
<1>1. CASE history = <<>>
  <2>1. Timestamp(history, now) = now /\ now < MaxTime - 1
    BY <1>1 DEF Timestamp, TimeLeft
  <2> QED BY <1>1, <2>1, TimeAssumption
<1>2. CASE history # <<>>
  <2>1. history[Len(history)] \in Message
    BY <1>2
  <2>2. LastTime(history) \in 0..MaxTime
    BY <2>1 DEF LastTime, Message
  <2>3. Timestamp(history, now) < MaxTime - 1
    BY DEF TimeLeft
  <2> QED BY <1>2, <2>2, <2>3, TimeAssumption DEF Timestamp
<1> QED BY <1>1, <1>2

LEMMA InitBase == Init => Base
<1> SUFFICES ASSUME Init PROVE Base
  OBVIOUS
<1>1. chat_message \in LegacyTables /\ log = ReadRows(chat_message).histories
  BY DEF Init
<1>2. chat_message \in Seq(Row) /\ \A i \in DOMAIN chat_message : chat_message[i].job = NoJob
  <2> DEFINE Old == [job : {NoJob}, helper : Helpers, is_user : Nat, ts : 0..MaxTime]
  <2>1. chat_message \in Seq(Old)
    BY <1>1, LegacyAssumption
  <2>2. \A i \in DOMAIN chat_message : chat_message[i] \in Old
    <3> HIDE DEF Old
    <3> QED BY <2>1
  <2>3. \A row \in Old : row \in Row /\ row.job = NoJob
    BY DEF Row
  <2>4. \A i \in 1..Len(chat_message) : chat_message[i] \in Row
    BY <2>1, <2>2, <2>3
  <2>5. chat_message \in Seq(Row)
    <3>1. /\ Len(chat_message) \in Nat /\ DOMAIN chat_message = 1..Len(chat_message)
          /\ chat_message = [i \in 1..Len(chat_message) |-> chat_message[i]]
      BY <2>1
    <3>2. chat_message \in [1..Len(chat_message) -> Row]
      BY <2>4, <3>1
    <3> QED BY <3>1, <3>2
  <2> QED BY <2>2, <2>3, <2>5
<1>3. HistoriesRead(ReadRows(chat_message), chat_message, Len(chat_message))
  BY <1>2, RowsAreRead
<1>4. log \in [Helpers -> Seq(Message)]
  BY <1>1, <1>3 DEF HistoriesRead
<1>5. \A helper \in Helpers : \A n \in DOMAIN log[helper] : log[helper][n].job = NoJob
  <2> SUFFICES ASSUME NEW helper \in Helpers, NEW n \in DOMAIN log[helper]
               PROVE  log[helper][n].job = NoJob
    OBVIOUS
  <2>1. PICK at : Selects(at, log[helper], chat_message, Len(chat_message), helper)
    BY <1>1, <1>3 DEF HistoriesRead
  <2>2. DOMAIN log[helper] = 1..Len(log[helper]) /\ DOMAIN chat_message = 1..Len(chat_message)
    BY <1>2, <1>4
  <2>3. at[n] \in DOMAIN chat_message /\ log[helper][n] = MessageOf(chat_message[at[n]])
    BY <2>1, <2>2 DEF Selects
  <2> QED BY <1>2, <2>3 DEF MessageOf
<1>6. TypeOK
  <2>1. incomplete \in [Helpers -> BOOLEAN]
    BY DEF Init
  <2>2. thread \in [Threads -> Places]
    BY DEF Init, Places
  <2>3. /\ sessionsIdsMap \in [Users -> Seq(Chats)]
        /\ messages \in [Helpers -> Seq(Message)]
        /\ chat_mutex_ \in [Helpers -> Threads \cup {NoThread}]
        /\ restored \in [Helpers -> Nat]
    BY DEF Init
  <2> QED BY <1>2, <1>4, <2>1, <2>2, <2>3 DEF Init, TypeOK
<1>7. Owned /\ Room
  BY DEF Init, Owned, Room, Idle
<1>8. Whole /\ OnePlace
  BY <1>5 DEF Whole, OnePlace, Same
<1>9. QueuedIsFiled
  <2>1. stored = {} /\ outbox \cup Held = Legacy
    BY DEF Init, QueueInit, Held
  <2> QED BY <2>1, LegacyAssumption DEF QueuedIsFiled
<1> QED BY <1>6, <1>7, <1>8, <1>9 DEF Base, LogInv

\* Steps of one thread that leave the log and the queue alone.
LEMMA ThreadBase ==
    ASSUME Base, NEW t \in Threads, NEW place \in Places,
           thread' = [thread EXCEPT ![t] = place],
           place.pc # "swap", place.pc # "idle" => place.on.owner = place.on.helper,
           TypeOK => messages' \in [Helpers -> Seq(Message)],
           chat_mutex_' \in [Helpers -> Threads \cup {NoThread}],
           chatInformation' \subseteq Helpers, sessionsIdsMap' \in [Users -> Seq(Chats)],
           UNCHANGED <<queueState, serving, chat_message, ghostVars>>
    PROVE  Base'
<1>1. thread \in [Threads -> Places]
  BY DEF Base, TypeOK
<1>2. /\ thread' \in [Threads -> Places] /\ thread'[t] = place
      /\ \A u \in Threads \ {t} : thread'[u] = thread[u]
  BY <1>1
<1>3. TypeOK'
  BY <1>2 DEF Base, TypeOK, ghostVars
<1>4. Owned' /\ Room'
  BY <1>2 DEF Base, Owned, Room
<1>5. LogInv'
  BY DEF Base, LogInv, Whole, OnePlace, QueuedIsFiled, Filed, Held, ghostVars, queueState
<1> QED BY <1>3, <1>4, <1>5 DEF Base

LEMMA EntersBase ==
    ASSUME Base, NEW t \in Threads, NEW user \in Users, NEW chat \in Chats,
           NEW relocks \in BOOLEAN, Enters(t, <<user, chat>>, user, chat, relocks),
           chatInformation' \subseteq Helpers, sessionsIdsMap' \in [Users -> Seq(Chats)],
           UNCHANGED <<queueState, serving, messages, chat_mutex_, chat_message, ghostVars>>
    PROVE  Base'
<1> DEFINE on == [helper |-> <<user, chat>>, owner |-> <<user, chat>>]
           place == [pc |-> "lock", on |-> on, relocks |-> relocks]
<1>1. on \in [helper : Helpers, owner : Helpers]
  BY DEF Helpers
<1>2. place \in Places
  BY <1>1, PlaceKinds
<1>3. place.pc = "lock" /\ place.on.owner = place.on.helper
  OBVIOUS
<1>4. thread' = [thread EXCEPT ![t] = place]
  BY DEF Enters
<1>5. messages' = messages /\ chat_mutex_' \in [Helpers -> Threads \cup {NoThread}]
  BY DEF Base, TypeOK
<1>6. TypeOK => messages' \in [Helpers -> Seq(Message)]
  BY <1>5 DEF TypeOK
<1> HIDE DEF place
<1>7. place.pc # "swap" /\ (place.pc # "idle" => place.on.owner = place.on.helper)
  BY <1>3
<1> QED BY <1>2, <1>4, <1>5, <1>6, <1>7, ThreadBase

LEMMA ListedType ==
    ASSUME TypeOK, NEW user \in Users, NEW chat \in Chats
    PROVE  Listed(user, chat) \in [Users -> Seq(Chats)]
<1>1. sessionsIdsMap \in [Users -> Seq(Chats)]
  BY DEF TypeOK
<1>2. Append(sessionsIdsMap[user], chat) \in Seq(Chats)
  BY <1>1
<1> QED BY <1>1, <1>2 DEF Listed

LEMMA RequestsBase ==
    ASSUME Base, Requests
    PROVE  Base'
<1> PICK t \in Threads, user \in Users, chat \in Chats, relocks \in BOOLEAN :
         Send(t, user, chat, relocks) \/ CreateAndSend(t, user, chat, relocks)
  BY DEF Requests
<1>0. <<user, chat>> \in Helpers /\ TypeOK
  BY DEF Helpers, Base
<1>1. CASE Send(t, user, chat, relocks)
  <2>1. Enters(t, <<user, chat>>, user, chat, relocks)
    BY <1>1 DEF Send, Found
  <2>2. chatInformation' \subseteq Helpers /\ sessionsIdsMap' \in [Users -> Seq(Chats)]
    BY <1>1, <1>0 DEF Send, helperVars, TypeOK
  <2> QED BY <1>1, <2>1, <2>2, EntersBase DEF Send, helperVars
<1>2. CASE CreateAndSend(t, user, chat, relocks)
  <2>1. chatInformation' \subseteq Helpers
    BY <1>0, <1>2 DEF CreateAndSend, TypeOK
  <2>2. sessionsIdsMap' \in [Users -> Seq(Chats)]
    BY <1>0, <1>2, ListedType DEF CreateAndSend
  <2> QED BY <1>2, <2>1, <2>2, EntersBase DEF CreateAndSend
<1> QED BY <1>1, <1>2

LEMMA LockBase ==
    ASSUME Base, NEW t \in Threads, Lock(t)
    PROVE  Base'
<1> DEFINE helper == thread[t].on.helper
           on == thread[t].on
<1>0. TypeOK /\ Owned
  BY DEF Base
<1>1. /\ thread[t] \in Places /\ thread[t].pc = "lock"
      /\ messages \in [Helpers -> Seq(Message)]
      /\ chat_mutex_ \in [Helpers -> Threads \cup {NoThread}]
      /\ chatInformation' \subseteq Helpers /\ sessionsIdsMap' \in [Users -> Seq(Chats)]
      /\ messages' = messages
      /\ UNCHANGED <<queueState, serving, chat_message, ghostVars>>
  BY <1>0 DEF Lock, TypeOK, helperVars
<1>2. /\ on \in [helper : Helpers, owner : Helpers] /\ helper \in Helpers
      /\ thread[t] = [pc |-> "lock", on |-> on, relocks |-> thread[t].relocks]
  BY <1>1, PlaceTypes
<1>3. on.owner = on.helper
  BY <1>0, <1>1 DEF Owned
<1>4. TypeOK => messages' \in [Helpers -> Seq(Message)]
  BY <1>1
<1>5. CASE thread' = [thread EXCEPT ![t] = Idle] /\ UNCHANGED chat_mutex_
  <2>1. Idle \in Places /\ Idle.pc = "idle"
    BY DEF Places, Idle
  <2>2. chat_mutex_' \in [Helpers -> Threads \cup {NoThread}]
    BY <1>1, <1>5
  <2> QED BY <1>1, <1>4, <1>5, <2>1, <2>2, ThreadBase
<1>6. CASE thread' = [thread EXCEPT ![t].relocks = FALSE] /\ UNCHANGED chat_mutex_
  <2> DEFINE place == [thread[t] EXCEPT !.relocks = FALSE]
             Locking == [pc : {"lock"}, on : [helper : Helpers, owner : Helpers], relocks : BOOLEAN]
  <2>0. thread[t] \in Locking
    BY <1>1 DEF Places, Idle
  <2>1. place \in Places /\ place.pc = "lock" /\ place.on = on
    <3>1. place \in Locking
      BY <2>0
    <3>2. place.pc = "lock" /\ place.on = on
      BY <2>0
    <3> QED BY <3>1, <3>2 DEF Places
  <2>2. thread' = [thread EXCEPT ![t] = place]
    BY <1>6
  <2>3. chat_mutex_' \in [Helpers -> Threads \cup {NoThread}]
    BY <1>1, <1>6
  <2> HIDE DEF place, on
  <2> QED BY <1>1, <1>3, <1>4, <2>1, <2>2, <2>3, ThreadBase
<1>7. CASE /\ thread' = [thread EXCEPT ![t] =
                           [pc |-> "model", on |-> on, request |-> messages[helper]]]
           /\ KeepsLock(t, helper)
  <2> DEFINE place == [pc |-> "model", on |-> on, request |-> messages[helper]]
  <2>0. messages[helper] \in Seq(Message)
    BY <1>1, <1>2
  <2>1. place \in Places /\ place.pc = "model" /\ place.on = on
    BY <1>2, <2>0, PlaceKinds
  <2>2. thread' = [thread EXCEPT ![t] = place]
    BY <1>7
  <2>3. chat_mutex_' \in [Helpers -> Threads \cup {NoThread}]
    BY <1>1, <1>2, <1>7 DEF KeepsLock
  <2> HIDE DEF place, on
  <2> QED BY <1>1, <1>3, <1>4, <2>1, <2>2, <2>3, ThreadBase
<1> QED BY <1>5, <1>6, <1>7 DEF Lock

LEMMA UnlockType ==
    ASSUME TypeOK, NEW helper, Unlock(helper)
    PROVE  chat_mutex_' \in [Helpers -> Threads \cup {NoThread}]
BY DEF TypeOK, Unlock

LEMMA ModelFailsBase ==
    ASSUME Base, NEW t \in Threads, ModelFails(t)
    PROVE  Base'
<1>0. TypeOK
  BY DEF Base
<1>1. Idle \in Places /\ Idle.pc = "idle"
  BY DEF Places, Idle
<1>2. chat_mutex_' \in [Helpers -> Threads \cup {NoThread}]
  BY <1>0, UnlockType DEF ModelFails
<1>3. /\ chatInformation' \subseteq Helpers /\ sessionsIdsMap' \in [Users -> Seq(Chats)]
      /\ TypeOK => messages' \in [Helpers -> Seq(Message)]
      /\ UNCHANGED <<queueState, serving, chat_message, ghostVars>>
      /\ thread' = [thread EXCEPT ![t] = Idle]
  BY <1>0 DEF ModelFails, TypeOK, helperVars
<1> QED BY <1>1, <1>2, <1>3, ThreadBase

\* The client's reply.
LEMMA RepliedBase ==
    ASSUME Base, NEW t \in Threads, thread[t].pc \in {"model", "swap"},
           NEW job \in Jobs, NEW ok \in BOOLEAN, Replied(t, job, ok), Unlock(thread[t].on.helper),
           TypeOK => messages' \in [Helpers -> Seq(Message)],
           UNCHANGED <<queueState, serving, chatInformation, sessionsIdsMap, chat_message, ghostVars>>
    PROVE  Base'
<1> DEFINE on == thread[t].on
           place == [pc |-> "done", on |-> on, job |-> job, ok |-> ok]
<1>0. TypeOK /\ Owned /\ thread[t] \in Places
  BY DEF Base, TypeOK
<1>1. on \in [helper : Helpers, owner : Helpers]
  BY <1>0, PlaceTypes
<1>2. on.owner = on.helper
  BY <1>0 DEF Owned
<1>3. place \in Places /\ place.pc = "done" /\ place.on = on
  BY <1>1, PlaceKinds
<1>4. chat_mutex_' \in [Helpers -> Threads \cup {NoThread}]
  BY <1>0, UnlockType
<1>5. chatInformation' \subseteq Helpers /\ sessionsIdsMap' \in [Users -> Seq(Chats)]
  BY <1>0 DEF TypeOK
<1>6. thread' = [thread EXCEPT ![t] = place]
  BY DEF Replied
<1> HIDE DEF place, on
<1> QED BY <1>2, <1>3, <1>4, <1>5, <1>6, ThreadBase

LEMMA PublishRefusedBase ==
    ASSUME Base, NEW t \in Threads, NEW job \in Jobs, PublishRefused(t, job)
    PROVE  Base'
<1>1. TypeOK => messages' \in [Helpers -> Seq(Message)]
  BY DEF PublishRefused, Refused, TypeOK
<1>2. Replied(t, job, FALSE) /\ thread[t].pc = "model" /\ Unlock(thread[t].on.helper)
  BY DEF PublishRefused
<1> QED BY <1>1, <1>2, RepliedBase DEF PublishRefused

LEMMA SwapBase ==
    ASSUME Base, NEW t \in Threads, Swap(t)
    PROVE  Base'
<1> DEFINE helper == thread[t].on.helper
           job == thread[t].job
           ts == thread[t].ts
<1>0. /\ TypeOK /\ thread[t] \in Places /\ thread[t].pc = "swap"
      /\ messages \in [Helpers -> Seq(Message)]
  BY DEF Base, TypeOK, Swap
<1>1. helper \in Helpers /\ job \in Jobs /\ ts \in 0..MaxTime
  BY <1>0, PlaceTypes
<1>2. ts \in 0..(MaxTime - 1)
  BY <1>0, <1>1, TimeAssumption DEF Base, Room
<1>3. messages[helper] \o Exchange(job, ts) \in Seq(Message)
  BY <1>0, <1>1, <1>2, Appended
<1>4. messages' \in [Helpers -> Seq(Message)]
  BY <1>0, <1>3 DEF Swap
<1>5. Replied(t, job, TRUE) /\ Unlock(helper)
  BY DEF Swap
<1> HIDE DEF job
<1> QED BY <1>0, <1>1, <1>4, <1>5, RepliedBase DEF Swap

\* A new exchange is filed at the end of one log.
LEMMA FilesBase ==
    ASSUME TypeOK, LogInv, NEW helper \in Helpers, NEW job \in Jobs, NEW ts \in 0..(MaxTime - 1),
           Fresh(job), log' = [log EXCEPT ![helper] = @ \o Exchange(job, ts)]
    PROVE  /\ log' \in [Helpers -> Seq(Message)]
           /\ Whole' /\ OnePlace'
           /\ \A j \in Jobs : Filed(j) \/ j = job => Filed(j)'
           /\ Has(log'[helper], Question(job, ts)) /\ Has(log'[helper], Answer(job, ts))
<1> DEFINE old == log[helper]
           len == Len(log[helper])
<1>0. log \in [Helpers -> Seq(Message)] /\ log[helper] \in Seq(Message)
  BY DEF TypeOK
<1>1. /\ log'[helper] = log[helper] \o Exchange(job, ts)
      /\ \A h \in Helpers \ {helper} : log'[h] = log[h]
  BY <1>0
<1>2. /\ log'[helper] \in Seq(Message)
      /\ len \in Nat /\ DOMAIN log[helper] = 1..len /\ DOMAIN log'[helper] = 1..(len + 2)
      /\ \A n \in 1..len : log'[helper][n] = log[helper][n]
      /\ log'[helper][len + 1] = Question(job, ts) /\ log'[helper][len + 2] = Answer(job, ts)
      /\ \A n \in DOMAIN log'[helper] : n \in 1..len \/ n = len + 1 \/ n = len + 2
  BY <1>0, <1>1, Appended
<1>3. log' \in [Helpers -> Seq(Message)]
  BY <1>0, <1>1, <1>2
<1>4. Has(log'[helper], Question(job, ts)) /\ Has(log'[helper], Answer(job, ts))
  <2>1. len + 1 \in DOMAIN log'[helper] /\ len + 2 \in DOMAIN log'[helper]
    BY <1>2
  <2> QED BY <1>2, <2>1, Zenon DEF Has
<1>5. /\ \A h \in Helpers : \A n \in DOMAIN log[h] : n \in DOMAIN log'[h] /\ log'[h][n] = log[h][n]
      /\ \A h \in Helpers : \A n \in DOMAIN log'[h] :
            n \in DOMAIN log[h] \/ (h = helper /\ (n = len + 1 \/ n = len + 2))
  BY <1>1, <1>2
<1>6. /\ Question(job, ts).job = job /\ Question(job, ts).isUser
      /\ Answer(job, ts).job = job /\ ~Answer(job, ts).isUser
      /\ job # NoJob
  BY NoneAssumption DEF Question, Answer
<1>7. \A h \in Helpers : \A n \in DOMAIN log[h] : log[h][n].job # job
  BY DEF Fresh
<1>8. Whole'
  <2> SUFFICES ASSUME NEW h \in Helpers, NEW n \in DOMAIN log'[h], log'[h][n].job # NoJob
               PROVE  \E time \in 0..(MaxTime - 1) :
                         /\ Has(log'[h], Question(log'[h][n].job, time))
                         /\ Has(log'[h], Answer(log'[h][n].job, time))
    BY DEF Whole
  <2>1. CASE n \in DOMAIN log[h]
    <3>1. log'[h][n] = log[h][n]
      BY <1>5, <2>1
    <3>2. PICK time \in 0..(MaxTime - 1) : /\ Has(log[h], Question(log[h][n].job, time))
                                           /\ Has(log[h], Answer(log[h][n].job, time))
      BY <2>1, <3>1 DEF LogInv, Whole
    <3>3. /\ Has(log'[h], Question(log[h][n].job, time))
          /\ Has(log'[h], Answer(log[h][n].job, time))
      BY <1>5, <3>2 DEF Has
    <3> QED BY <3>1, <3>3
  <2>2. CASE h = helper /\ (n = len + 1 \/ n = len + 2)
    <3>1. log'[h][n].job = job
      BY <1>2, <1>6, <2>2
    <3> QED BY <1>4, <2>2, <3>1
  <2> QED BY <1>5, <2>1, <2>2
<1>9. OnePlace'
  <2> SUFFICES ASSUME NEW g \in Helpers, NEW h \in Helpers,
                      NEW i \in DOMAIN log'[g], NEW j \in DOMAIN log'[h],
                      Same(log'[g][i], log'[h][j])
               PROVE  g = h /\ i = j
    BY Zenon DEF OnePlace
  <2>1. CASE i \in DOMAIN log[g] /\ j \in DOMAIN log[h]
    <3>1. log'[g][i] = log[g][i] /\ log'[h][j] = log[h][j]
      BY <1>5, <2>1
    <3> QED BY <2>1, <3>1 DEF LogInv, OnePlace
  <2>2. CASE i \notin DOMAIN log[g] /\ j \notin DOMAIN log[h]
    <3>1. ~Same(Question(job, ts), Answer(job, ts)) /\ ~Same(Answer(job, ts), Question(job, ts))
      BY DEF Same, Question, Answer
    <3>2. g = helper /\ h = helper /\ i \in {len + 1, len + 2} /\ j \in {len + 1, len + 2}
      BY <1>5, <2>2
    <3> HIDE DEF len
    <3> QED BY <1>2, <3>1, <3>2
  <2>3. CASE i \in DOMAIN log[g] /\ j \notin DOMAIN log[h]
    <3>1. log'[g][i].job # job
      BY <1>5, <1>7, <2>3
    <3>2. log'[h][j].job = job
      BY <1>2, <1>5, <1>6, <2>3
    <3> QED BY <3>1, <3>2 DEF Same
  <2>4. CASE i \notin DOMAIN log[g] /\ j \in DOMAIN log[h]
    <3>1. log'[h][j].job # job
      BY <1>5, <1>7, <2>4
    <3>2. log'[g][i].job = job
      BY <1>2, <1>5, <1>6, <2>4
    <3> QED BY <3>1, <3>2 DEF Same
  <2> QED BY <2>1, <2>2, <2>3, <2>4
<1>10. ASSUME NEW j \in Jobs, Filed(j) \/ j = job PROVE Filed(j)'
  <2>1. CASE Filed(j)
    BY <1>5, <2>1 DEF Filed
  <2>2. CASE j = job
    <3>1. len + 1 \in DOMAIN log'[helper] /\ log'[helper][len + 1].job = job
      BY <1>2, <1>6
    <3> QED BY <2>2, <3>1 DEF Filed
  <2> QED BY <1>10, <2>1, <2>2
<1> QED BY <1>3, <1>4, <1>8, <1>9, <1>10

LEMMA PublishBase ==
    ASSUME Base, NEW t \in Threads, NEW job \in Jobs, NEW now \in 0..MaxClock,
           Publish(t, job, now)
    PROVE  Base'
<1> DEFINE on == thread[t].on
           helper == on.helper
           ts == Timestamp(messages[helper], now)
           place == [pc |-> "swap", on |-> on, request |-> thread[t].request, job |-> job, ts |-> ts]
<1>0. /\ TypeOK /\ Owned /\ Room /\ LogInv /\ thread[t] \in Places /\ thread[t].pc = "model"
      /\ messages \in [Helpers -> Seq(Message)] /\ thread \in [Threads -> Places]
  BY DEF Base, TypeOK, Publish
<1>1. /\ on \in [helper : Helpers, owner : Helpers] /\ helper \in Helpers
      /\ thread[t].request \in Seq(Message)
  BY <1>0, PlaceTypes
<1>2. on.owner = helper
  BY <1>0 DEF Owned
<1>3. now \in Nat /\ messages[helper] \in Seq(Message) /\ TimeLeft(messages[helper], now)
  BY <1>0, <1>1, TimeAssumption DEF Publish
<1>4. ts \in 0..(MaxTime - 1)
  BY <1>3, TimestampIs
<1>5. /\ Fresh(job) /\ Accept(job)
      /\ log' = [log EXCEPT ![on.owner] = @ \o Exchange(job, ts)]
      /\ thread' = [thread EXCEPT ![t] = place]
      /\ UNCHANGED <<serving, helperVars, chat_mutex_, chat_message, incomplete, restored>>
  BY DEF Publish
<1> HIDE DEF ts
<1>6. ts \in 0..MaxTime /\ ts < MaxTime
  BY <1>4, TimeAssumption
<1>7. place \in Places /\ place.pc = "swap" /\ place.on = on /\ place.ts = ts
  BY <1>1, <1>6, PlaceKinds
<1> HIDE DEF place
<1>8. /\ thread' \in [Threads -> Places] /\ thread'[t] = place
      /\ \A u \in Threads \ {t} : thread'[u] = thread[u]
  BY <1>0, <1>5, <1>7
<1>9. /\ log' \in [Helpers -> Seq(Message)] /\ Whole' /\ OnePlace'
      /\ \A j \in Jobs : Filed(j) \/ j = job => Filed(j)'
  BY <1>0, <1>1, <1>2, <1>4, <1>5, FilesBase
<1>10. TypeOK'
  BY <1>0, <1>5, <1>8, <1>9 DEF TypeOK, helperVars
<1>11. Owned'
  BY <1>0, <1>2, <1>7, <1>8 DEF Owned
<1>12. Room'
  BY <1>0, <1>6, <1>7, <1>8 DEF Room
<1>13. QueuedIsFiled'
  <2>1. /\ stored' = stored
        /\ \A j \in (outbox \cup Held)' : j \in outbox \cup Held \/ j = job
    BY <1>5 DEF Accept, Held
  <2>2. stored \subseteq Jobs /\ \A j \in Jobs \cap (outbox \cup Held) : Filed(j)
    BY <1>0 DEF LogInv, QueuedIsFiled
  <2> QED BY <1>9, <2>1, <2>2 DEF QueuedIsFiled
<1> QED BY <1>9, <1>10, <1>11, <1>12, <1>13 DEF Base, LogInv

QuestionRow(job, helper, ts) == [job |-> job, helper |-> helper, is_user |-> 1, ts |-> ts]
AnswerRow(job, helper, ts)   == [job |-> job, helper |-> helper, is_user |-> 0, ts |-> ts + 1]

\* The rows of a filed exchange are its question and its answer, as they are in the log.
LEMMA RowsAre ==
    ASSUME TypeOK, LogInv, NEW job \in Jobs, Filed(job)
    PROVE  \E helper \in Helpers, ts \in 0..(MaxTime - 1) :
              /\ RowsOf(job) = <<QuestionRow(job, helper, ts), AnswerRow(job, helper, ts)>>
              /\ Has(log[helper], Question(job, ts)) /\ Has(log[helper], Answer(job, ts))
              /\ \A g \in Helpers : \A n \in DOMAIN log[g] : log[g][n].job = job =>
                    g = helper /\ log[g][n] \in {Question(job, ts), Answer(job, ts)}
<1> DEFINE helper == CHOOSE h \in Helpers : \E i \in DOMAIN log[h] : log[h][i].job = job
           first == CHOOSE i \in DOMAIN log[helper] : log[helper][i].job = job /\ log[helper][i].isUser
           time == log[helper][first].ts
<1>1. helper \in Helpers /\ \E i \in DOMAIN log[helper] : log[helper][i].job = job
  BY DEF Filed
<1>2. PICK k \in DOMAIN log[helper] : log[helper][k].job = job
  BY <1>1
<1>3. RowsOf(job) = <<[job |-> job, helper |-> helper, is_user |-> 1, ts |-> time],
                      [job |-> job, helper |-> helper, is_user |-> 0, ts |-> time + 1]>>
  BY DEF RowsOf
<1>0. job # NoJob
  BY NoneAssumption
<1>4. PICK ts \in 0..(MaxTime - 1) :
        Has(log[helper], Question(job, ts)) /\ Has(log[helper], Answer(job, ts))
  <2> HIDE DEF helper
  <2> QED BY <1>0, <1>1, <1>2 DEF LogInv, Whole
<1> HIDE DEF helper
<1>5. /\ Question(job, ts).job = job /\ Question(job, ts).isUser = TRUE /\ Question(job, ts).ts = ts
      /\ Answer(job, ts).job = job /\ Answer(job, ts).isUser = FALSE /\ Answer(job, ts).ts = ts + 1
  BY DEF Question, Answer
<1>6. PICK q \in DOMAIN log[helper] : log[helper][q] = Question(job, ts)
  BY <1>4 DEF Has
<1>7. PICK a \in DOMAIN log[helper] : log[helper][a] = Answer(job, ts)
  BY <1>4 DEF Has
<1>8. /\ first \in DOMAIN log[helper] /\ log[helper][first].job = job /\ log[helper][first].isUser
  BY <1>5, <1>6
<1> HIDE DEF first
<1>9. \A g \in Helpers : \A n \in DOMAIN log[g] :
         log[g][n] \in Message /\ log[g][n].isUser \in BOOLEAN
  <2>1. \A g \in Helpers : \A n \in DOMAIN log[g] : log[g][n] \in Message
    BY DEF TypeOK
  <2>2. \A m \in Message : m.isUser \in BOOLEAN
    BY DEF Message
  <2> QED BY <2>1, <2>2
<1>10. ASSUME NEW g \in Helpers, NEW n \in DOMAIN log[g], log[g][n].job = job
       PROVE  /\ g = helper /\ log[g][n] \in {Question(job, ts), Answer(job, ts)}
              /\ log[g][n].isUser => log[g][n] = Question(job, ts)
  <2>1. CASE log[g][n].isUser = TRUE
    <3>1. Same(log[g][n], log[helper][q])
      BY <1>0, <1>5, <1>6, <1>10, <2>1 DEF Same
    <3>2. g = helper /\ n = q
      BY <1>1, <3>1 DEF LogInv, OnePlace
    <3> QED BY <1>6, <3>2
  <2>2. CASE log[g][n].isUser = FALSE
    <3>1. Same(log[g][n], log[helper][a])
      BY <1>0, <1>5, <1>7, <1>10, <2>2 DEF Same
    <3>2. g = helper /\ n = a
      BY <1>1, <3>1 DEF LogInv, OnePlace
    <3> QED BY <1>7, <2>2, <3>2
  <2> QED BY <1>9, <2>1, <2>2
<1>11. time = ts
  BY <1>1, <1>5, <1>8, <1>10
<1>12. RowsOf(job) = <<QuestionRow(job, helper, ts), AnswerRow(job, helper, ts)>>
  BY <1>3, <1>11 DEF QuestionRow, AnswerRow
<1> QED BY <1>1, <1>4, <1>10, <1>12

LEMMA NewRowsType ==
    ASSUME NEW job \in Jobs, NEW helper \in Helpers, NEW ts \in 0..(MaxTime - 1)
    PROVE  /\ QuestionRow(job, helper, ts) \in Row /\ AnswerRow(job, helper, ts) \in Row
           /\ MessageOf(QuestionRow(job, helper, ts)) = Question(job, ts)
           /\ MessageOf(AnswerRow(job, helper, ts)) = Answer(job, ts)
<1>1. ts \in 0..MaxTime /\ ts + 1 \in 0..MaxTime
  BY TimeAssumption
<1>2. QuestionRow(job, helper, ts) \in Row /\ AnswerRow(job, helper, ts) \in Row
  BY <1>1 DEF QuestionRow, AnswerRow, Row
<1>3. MessageOf(QuestionRow(job, helper, ts)) = Question(job, ts)
  <2>1. (1 = 1) = TRUE
    OBVIOUS
  <2> QED BY <2>1 DEF QuestionRow, MessageOf, Question
<1>4. MessageOf(AnswerRow(job, helper, ts)) = Answer(job, ts)
  <2>1. (0 = 1) = FALSE
    OBVIOUS
  <2> QED BY <2>1 DEF AnswerRow, MessageOf, Answer
<1> QED BY <1>2, <1>3, <1>4

LEMMA PersistBase ==
    ASSUME Base, NEW job \in Jobs, Persist(job)
    PROVE  Base'
<1>0. TypeOK /\ Owned /\ Room /\ LogInv /\ chat_message \in Seq(Row)
  BY DEF Base, TypeOK
<1>1. /\ job \in queued /\ stored' = stored \cup {job}
      /\ UNCHANGED <<outbox, queued, quarantined, serving, helperVars, chat_mutex_, thread, ghostVars>>
      /\ chat_message' = Inserted(job)
  BY DEF Persist, Store
<1>2. Filed(job)
  BY <1>0, <1>1 DEF LogInv, QueuedIsFiled, Held
<1>3. RowsOf(job) \in Seq(Row)
  <2>1. PICK helper \in Helpers, ts \in 0..(MaxTime - 1) :
          RowsOf(job) = <<QuestionRow(job, helper, ts), AnswerRow(job, helper, ts)>>
    BY <1>0, <1>2, RowsAre
  <2>2. QuestionRow(job, helper, ts) \in Row /\ AnswerRow(job, helper, ts) \in Row
    BY NewRowsType
  <2> QED BY <2>1, <2>2
<1>4. chat_message' \in Seq(Row)
  BY <1>0, <1>1, <1>3 DEF Inserted
<1>5. TypeOK'
  BY <1>0, <1>1, <1>4 DEF TypeOK, helperVars, ghostVars
<1>6. Owned' /\ Room'
  BY <1>0, <1>1 DEF Owned, Room
<1>7. Whole' /\ OnePlace'
  BY <1>0, <1>1 DEF LogInv, Whole, OnePlace, ghostVars
<1>8. QueuedIsFiled'
  <2>1. (outbox \cup Held)' \subseteq outbox \cup Held
    BY <1>1 DEF Held
  <2>2. \A j \in Jobs : Filed(j) => Filed(j)'
    BY <1>1 DEF Filed, ghostVars
  <2> QED BY <1>0, <1>1, <2>1, <2>2 DEF LogInv, QueuedIsFiled
<1> QED BY <1>5, <1>6, <1>7, <1>8 DEF Base, LogInv

\* Steps that move exchanges the queue already has.
LEMMA MovesBase ==
    ASSUME Base, (outbox \cup Held)' \subseteq outbox \cup Held, stored' = stored,
           UNCHANGED <<serving, helperVars, chat_mutex_, thread, chat_message, ghostVars>>
    PROVE  Base'
<1>1. TypeOK' /\ Owned' /\ Room'
  BY DEF Base, TypeOK, Owned, Room, helperVars, ghostVars
<1>2. Whole' /\ OnePlace'
  BY DEF Base, LogInv, Whole, OnePlace, ghostVars
<1>3. \A j \in Jobs : Filed(j) => Filed(j)'
  BY DEF Filed, ghostVars
<1>4. QueuedIsFiled'
  BY <1>3 DEF Base, LogInv, QueuedIsFiled
<1> QED BY <1>1, <1>2, <1>4 DEF Base, LogInv

LEMMA QueueMovesBase ==
    ASSUME Base, QueueMoves
    PROVE  Base'
<1>1. (outbox \cup Held)' \subseteq outbox \cup Held /\ stored' = stored
  <2>1. CASE \E job \in Jobs \cup Legacy : Replace(job) \/ Deposit(job) \/ Remove(job)
    BY <2>1 DEF Replace, Deposit, Remove, Held
  <2>2. CASE \E jobs \in SUBSET outbox : Forget(jobs)
    BY <2>2 DEF Forget, Held
  <2> QED BY <2>1, <2>2 DEF QueueMoves
<1> QED BY <1>1, MovesBase DEF QueueMoves

LEMMA ProcessEndsBase ==
    ASSUME Base, ProcessEnds
    PROVE  Base'
<1>1. (outbox \cup Held)' \subseteq outbox \cup Held /\ stored' = stored
  BY DEF ProcessEnds, LoseOutbox, Held
<1>2. TypeOK'
  <2>1. thread' \in [Threads -> Places]
    BY DEF ProcessEnds, Places
  <2>2. /\ sessionsIdsMap' \in [Users -> Seq(Chats)] /\ messages' \in [Helpers -> Seq(Message)]
        /\ chat_mutex_' \in [Helpers -> Threads \cup {NoThread}] /\ restored' \in [Helpers -> Nat]
    BY DEF ProcessEnds
  <2> QED BY <2>1, <2>2 DEF ProcessEnds, Base, TypeOK
<1>3. Owned' /\ Room'
  BY DEF ProcessEnds, Owned, Room, Idle
<1>4. Whole' /\ OnePlace'
  BY DEF ProcessEnds, Base, LogInv, Whole, OnePlace
<1>5. \A j \in Jobs : Filed(j) => Filed(j)'
  BY DEF ProcessEnds, Filed
<1>6. QueuedIsFiled'
  BY <1>1, <1>5 DEF Base, LogInv, QueuedIsFiled
<1> QED BY <1>2, <1>3, <1>4, <1>6 DEF Base, LogInv

\* The rows in the order the query returned them.
ResultRows(order) == [n \in DOMAIN order |-> chat_message[order[n]]]

LEMMA ResultType ==
    ASSUME TypeOK, NEW order \in Orders
    PROVE  /\ ResultRows(order) \in Seq(Row) /\ Len(ResultRows(order)) = Len(chat_message)
           /\ Len(chat_message) \in Nat /\ DOMAIN chat_message = 1..Len(chat_message)
           /\ order \in [1..Len(chat_message) -> 1..Len(chat_message)]
           /\ \A n \in 1..Len(chat_message) : ResultRows(order)[n] = chat_message[order[n]]
<1> DEFINE rows == ResultRows(order)
<1>1. /\ chat_message \in Seq(Row) /\ Len(chat_message) \in Nat
      /\ DOMAIN chat_message = 1..Len(chat_message)
  BY DEF TypeOK
<1>2. order \in [1..Len(chat_message) -> 1..Len(chat_message)]
  BY <1>1 DEF Orders
<1>3. \A n \in 1..Len(chat_message) : order[n] \in 1..Len(chat_message) /\ chat_message[order[n]] \in Row
  BY <1>1, <1>2
<1>4. rows = [n \in 1..Len(chat_message) |-> chat_message[order[n]]]
  BY <1>2 DEF ResultRows
<1>5. rows \in [1..Len(chat_message) -> Row]
  BY <1>3, <1>4
<1>6. rows \in Seq(Row) /\ Len(rows) = Len(chat_message)
  <2> HIDE DEF rows
  <2> QED BY <1>1, <1>5
<1> QED BY <1>1, <1>2, <1>4, <1>6

LEMMA RestoreReads ==
    ASSUME Restore
    PROVE  \E order \in Orders :
              LET read == ReadRows(ResultRows(order))
              IN  /\ chatInformation' = read.helpers /\ sessionsIdsMap' = read.lists
                  /\ messages' = read.histories
BY DEF Restore, ResultRows

LEMMA RestoreBase ==
    ASSUME Base, Restore
    PROVE  Base'
<1>0. TypeOK
  BY DEF Base
<1>1. PICK order \in Orders :
         LET read == ReadRows(ResultRows(order))
         IN  /\ chatInformation' = read.helpers /\ sessionsIdsMap' = read.lists
             /\ messages' = read.histories
  BY RestoreReads
<1>2. /\ HistoriesRead(ReadRows(ResultRows(order)), ResultRows(order), Len(ResultRows(order)))
      /\ ListsRead(ReadRows(ResultRows(order)))
  BY <1>0, ResultType, RowsAreRead
<1>3. /\ chatInformation' \subseteq Helpers /\ sessionsIdsMap' \in [Users -> Seq(Chats)]
      /\ messages' \in [Helpers -> Seq(Message)]
  BY <1>1, <1>2 DEF HistoriesRead, ListsRead
<1>4. /\ serving' = TRUE
      /\ restored' = [helper \in Helpers |-> Len(messages'[helper])]
      /\ incomplete' = [helper \in Helpers |-> incomplete[helper] \/ Lacks(helper)]
      /\ UNCHANGED <<queueState, chat_mutex_, thread, chat_message, log>>
  BY DEF Restore
<1>5. restored' \in [Helpers -> Nat]
  BY <1>3, <1>4
<1>6. incomplete' \in [Helpers -> BOOLEAN]
  BY <1>4
<1>7. TypeOK'
  BY <1>0, <1>3, <1>4, <1>5, <1>6 DEF TypeOK
<1>8. Owned' /\ Room'
  BY <1>4 DEF Base, Owned, Room
<1>9. LogInv'
  BY <1>4 DEF Base, LogInv, Whole, OnePlace, QueuedIsFiled, Filed, Held, queueState
<1> QED BY <1>7, <1>8, <1>9 DEF Base

LEMMA NextBase ==
    ASSUME Base, [Next]_vars
    PROVE  Base'
<1>1. CASE Requests
  BY <1>1, RequestsBase
<1>2. CASE Commits
  BY <1>2, PublishBase, PublishRefusedBase DEF Commits
<1>3. CASE Chatting
  BY <1>3, LockBase, ModelFailsBase, SwapBase DEF Chatting
<1>4. CASE \E job \in Jobs : Persist(job)
  BY <1>4, PersistBase
<1>5. CASE QueueMoves
  BY <1>5, QueueMovesBase
<1>6. CASE ProcessEnds
  BY <1>6, ProcessEndsBase
<1>7. CASE Restore
  BY <1>7, RestoreBase
<1>8. CASE UNCHANGED vars
  <2>1. (outbox \cup Held)' \subseteq outbox \cup Held /\ stored' = stored
    BY <1>8 DEF vars, queueState, Held
  <2> QED BY <1>8, <2>1, MovesBase DEF vars
<1> QED BY <1>1, <1>2, <1>3, <1>4, <1>5, <1>6, <1>7, <1>8 DEF Next

\* The log of accepted exchanges has whole exchanges, each once, and everything in the
\* queue is in it; no timestamp passes the largest one (commitExchange's test).
THEOREM BaseCorrect == Spec => []Base
<1>1. Init => Base
  BY InitBase
<1>2. Base /\ [Next]_vars => Base'
  BY NextBase
<1> QED BY <1>1, <1>2, PTL DEF Spec

\* Every variable keeps its type and no timestamp, of a history or of a row, passes the
\* largest one, wherever the clock is set (commitExchange's two tests).
THEOREM TypeCorrect == Spec => []TypeOK
<1>1. Base => TypeOK
  BY DEF Base
<1> QED BY <1>1, BaseCorrect, PTL

-----------------------------------------------------------------------------
(* The context of an answer *)

\* What the steps below need of the types.
Shape ==
    /\ DOMAIN thread = Threads
    /\ DOMAIN chat_mutex_ = Helpers
    /\ DOMAIN messages = Helpers
    /\ chatInformation \subseteq Helpers
    /\ \A t \in Threads : thread[t].pc = "lock" =>
          thread[t] \in [pc : {"lock"}, on : [helper : Helpers, owner : Helpers],
                         relocks : BOOLEAN]

\* A thread that has taken its snapshot holds the helper's mutex, and the snapshot
\* is still the history.
InContext ==
    \A t \in Threads : thread[t].pc \in {"model", "swap"} =>
        /\ thread[t].on.helper \in Helpers
        /\ chat_mutex_[thread[t].on.helper] = t
        /\ thread[t].request = messages[thread[t].on.helper]

\* No request lives outside a serving process.
Stopped == ~serving => \A t \in Threads : thread[t] = Idle

Inv == Shape /\ InContext /\ Stopped

LEMMA InitInv == Init => Inv
BY DEF Init, Inv, Shape, InContext, Stopped, Idle

\* A step that enters a request changes one free thread only.
LEMMA EntersInv ==
    ASSUME Inv, NEW t \in Threads, NEW user \in Users, NEW chat \in Chats,
           NEW relocks \in BOOLEAN, NEW helper \in Helpers,
           Free(t), Enters(t, helper, user, chat, relocks),
           chatInformation' \subseteq Helpers,
           UNCHANGED <<serving, messages, chat_mutex_>>
    PROVE  Inv'
<1>1. <<user, chat>> \in Helpers
  BY DEF Helpers
<1>2. /\ DOMAIN thread' = Threads
      /\ thread'[t] = [pc |-> "lock", on |-> [helper |-> helper, owner |-> <<user, chat>>],
                       relocks |-> relocks]
      /\ \A u \in Threads \ {t} : thread'[u] = thread[u]
  BY DEF Inv, Shape, Enters
<1>3. Shape'
  BY <1>1, <1>2 DEF Inv, Shape
<1>4. InContext'
  BY <1>2 DEF Inv, InContext
<1>5. Stopped'
  BY DEF Free, Stopped
<1> QED BY <1>3, <1>4, <1>5 DEF Inv

LEMMA RequestsInv ==
    ASSUME Inv, Requests
    PROVE  Inv'
<1> PICK t \in Threads, user \in Users, chat \in Chats, relocks \in BOOLEAN :
         Send(t, user, chat, relocks) \/ CreateAndSend(t, user, chat, relocks)
  BY DEF Requests
<1>1. CASE Send(t, user, chat, relocks)
  <2>1. PICK helper \in Found(user, chat) : Enters(t, helper, user, chat, relocks)
    BY <1>1 DEF Send
  <2>2. helper \in Helpers
    BY DEF Found, Inv, Shape
  <2> QED BY <1>1, <2>1, <2>2, EntersInv DEF Send, helperVars, Inv, Shape
<1>2. CASE CreateAndSend(t, user, chat, relocks)
  <2>1. <<user, chat>> \in Helpers
    BY DEF Helpers
  <2>2. chatInformation' \subseteq Helpers
    BY <1>2, <2>1 DEF CreateAndSend, Inv, Shape
  <2> QED BY <1>2, <2>1, <2>2, EntersInv DEF CreateAndSend
<1> QED BY <1>1, <1>2

\* Only one thread is past its snapshot in each helper.
LEMMA OneHolder ==
    ASSUME InContext, NEW t \in Threads, NEW u \in Threads,
           thread[t].pc \in {"model", "swap"}, thread[u].pc \in {"model", "swap"},
           thread[t].on.helper = thread[u].on.helper
    PROVE  t = u
BY DEF InContext

LEMMA LockInv ==
    ASSUME Inv, NEW t \in Threads, Lock(t)
    PROVE  Inv'
<1> DEFINE helper == thread[t].on.helper
<1>0. /\ thread[t].pc = "lock" /\ helper \in Helpers /\ chat_mutex_[helper] = NoThread
      /\ thread[t] \in [pc : {"lock"}, on : [helper : Helpers, owner : Helpers],
                        relocks : BOOLEAN]
  BY DEF Lock, Inv, Shape
<1>1. serving
  BY <1>0 DEF Inv, Stopped, Idle
<1>2. UNCHANGED <<serving, messages, chatInformation>>
  BY DEF Lock, helperVars
<1>3. CASE /\ thread' = [thread EXCEPT ![t] = Idle]
           /\ UNCHANGED chat_mutex_
  <2>1. Shape'
    BY <1>2, <1>3 DEF Inv, Shape, Idle
  <2>2. InContext'
    BY <1>2, <1>3 DEF Inv, Shape, InContext, Idle
  <2> QED BY <1>1, <1>2, <2>1, <2>2 DEF Inv, Stopped
<1>4. CASE /\ thread' = [thread EXCEPT ![t].relocks = FALSE]
           /\ UNCHANGED chat_mutex_
  <2>1. /\ DOMAIN thread' = Threads
        /\ thread'[t] = [thread[t] EXCEPT !.relocks = FALSE]
        /\ \A u \in Threads \ {t} : thread'[u] = thread[u]
    BY <1>4 DEF Inv, Shape
  <2>2. thread'[t] \in [pc : {"lock"}, on : [helper : Helpers, owner : Helpers],
                        relocks : BOOLEAN]
    BY <1>0, <2>1
  <2>3. thread'[t].pc = "lock"
    BY <2>2
  <2>4. Shape'
    BY <1>2, <1>4, <2>1, <2>2 DEF Inv, Shape
  <2>5. InContext'
    BY <1>2, <1>4, <2>1, <2>3 DEF Inv, InContext
  <2> QED BY <1>1, <1>2, <2>4, <2>5 DEF Inv, Stopped
<1>5. CASE /\ thread' = [thread EXCEPT ![t] =
                           [pc |-> "model", on |-> thread[t].on, request |-> messages[helper]]]
           /\ KeepsLock(t, helper)
  <2>1. /\ DOMAIN thread' = Threads
        /\ thread'[t] = [pc |-> "model", on |-> thread[t].on, request |-> messages[helper]]
        /\ \A u \in Threads \ {t} : thread'[u] = thread[u]
    BY <1>5 DEF Inv, Shape
  <2>2. /\ DOMAIN chat_mutex_' = Helpers
        /\ chat_mutex_'[helper] = t
        /\ \A h \in Helpers \ {helper} : chat_mutex_'[h] = chat_mutex_[h]
    BY <1>0, <1>5 DEF Inv, Shape, KeepsLock
  <2>3. Shape'
    BY <1>2, <2>1, <2>2 DEF Inv, Shape
  <2>4. \A u \in Threads \ {t} : thread[u].pc \in {"model", "swap"} =>
            thread[u].on.helper # helper
    BY <1>0, NoneAssumption DEF Inv, InContext
  <2>5. InContext'
    BY <1>0, <1>2, <2>1, <2>2, <2>4 DEF Inv, InContext
  <2> QED BY <1>1, <1>2, <2>3, <2>5 DEF Inv, Stopped
<1> QED BY <1>3, <1>4, <1>5 DEF Lock

\* A thread that gives its mutex back leaves the others in context, whether or not
\* it has extended its helper's history.
LEMMA UnlockInv ==
    ASSUME Inv, NEW t \in Threads, thread[t].pc \in {"model", "swap"},
           Unlock(thread[t].on.helper),
           DOMAIN thread' = Threads,
           thread'[t].pc \in {"idle", "done"},
           \A u \in Threads \ {t} : thread'[u] = thread[u],
           DOMAIN messages' = Helpers,
           \A h \in Helpers \ {thread[t].on.helper} : messages'[h] = messages[h],
           UNCHANGED <<serving, chatInformation>>
    PROVE  Inv'
<1> DEFINE helper == thread[t].on.helper
<1>1. helper \in Helpers
  BY DEF Inv, InContext
<1>2. serving
  BY DEF Inv, Stopped, Idle
<1>3. /\ DOMAIN chat_mutex_' = Helpers
      /\ \A h \in Helpers \ {helper} : chat_mutex_'[h] = chat_mutex_[h]
  BY <1>1 DEF Unlock, Inv, Shape
<1>4. Shape'
  BY <1>3 DEF Inv, Shape
<1>5. \A u \in Threads \ {t} : thread[u].pc \in {"model", "swap"} =>
          thread[u].on.helper # helper
  BY OneHolder DEF Inv
<1>6. InContext'
  BY <1>3, <1>5 DEF Inv, InContext
<1> QED BY <1>2, <1>4, <1>6 DEF Inv, Stopped

LEMMA ModelFailsInv ==
    ASSUME Inv, NEW t \in Threads, ModelFails(t)
    PROVE  Inv'
<1>1. /\ DOMAIN thread' = Threads
      /\ thread'[t] = Idle
      /\ \A u \in Threads \ {t} : thread'[u] = thread[u]
  BY DEF ModelFails, Inv, Shape
<1>2. thread'[t].pc = "idle"
  BY <1>1 DEF Idle
<1> QED BY <1>1, <1>2, UnlockInv DEF ModelFails, helperVars, Inv, Shape

LEMMA PublishInv ==
    ASSUME Inv, NEW t \in Threads, NEW job \in Jobs, NEW now \in 0..MaxClock,
           Publish(t, job, now)
    PROVE  Inv'
<1> DEFINE ts == Timestamp(messages[thread[t].on.helper], now)
<1>1. /\ thread[t].pc = "model"
      /\ UNCHANGED <<serving, messages, chat_mutex_, chatInformation>>
  BY DEF Publish, helperVars
<1>2. /\ DOMAIN thread' = Threads
      /\ thread'[t] = [pc |-> "swap", on |-> thread[t].on, request |-> thread[t].request,
                       job |-> job, ts |-> ts]
      /\ \A u \in Threads \ {t} : thread'[u] = thread[u]
  BY DEF Publish, Inv, Shape
<1>3. /\ thread'[t].pc = "swap" /\ thread'[t].on = thread[t].on
      /\ thread'[t].request = thread[t].request
  BY <1>2
<1>4. Shape'
  BY <1>1, <1>2, <1>3 DEF Inv, Shape
<1>5. InContext'
  BY <1>1, <1>2, <1>3 DEF Inv, InContext
<1>6. serving
  BY <1>1 DEF Inv, Stopped, Idle
<1> QED BY <1>1, <1>4, <1>5, <1>6 DEF Inv, Stopped

LEMMA PublishRefusedInv ==
    ASSUME Inv, NEW t \in Threads, NEW job \in Jobs, PublishRefused(t, job)
    PROVE  Inv'
<1>1. /\ DOMAIN thread' = Threads
      /\ thread'[t] = [pc |-> "done", on |-> thread[t].on, job |-> job, ok |-> FALSE]
      /\ \A u \in Threads \ {t} : thread'[u] = thread[u]
  BY DEF PublishRefused, Replied, Inv, Shape
<1>2. thread'[t].pc = "done"
  BY <1>1
<1> QED BY <1>1, <1>2, UnlockInv DEF PublishRefused, Refused, Inv, Shape

LEMMA SwapInv ==
    ASSUME Inv, NEW t \in Threads, Swap(t)
    PROVE  Inv'
<1>1. /\ DOMAIN thread' = Threads
      /\ thread'[t] = [pc |-> "done", on |-> thread[t].on, job |-> thread[t].job, ok |-> TRUE]
      /\ \A u \in Threads \ {t} : thread'[u] = thread[u]
  BY DEF Swap, Replied, Inv, Shape
<1>2. thread'[t].pc = "done"
  BY <1>1
<1>3. /\ DOMAIN messages' = Helpers
      /\ \A h \in Helpers \ {thread[t].on.helper} : messages'[h] = messages[h]
  BY DEF Swap, Inv, Shape
<1> QED BY <1>1, <1>2, <1>3, UnlockInv DEF Swap

LEMMA ProcessEndsInv ==
    ASSUME Inv, ProcessEnds
    PROVE  Inv'
BY DEF ProcessEnds, Inv, Shape, InContext, Stopped, Idle

LEMMA RestoreInv ==
    ASSUME Inv, TypeOK', Restore
    PROVE  Inv'
<1>1. /\ \A t \in Threads : thread'[t] = Idle
      /\ serving'
      /\ UNCHANGED <<thread, chat_mutex_>>
  BY DEF Restore, Inv, Stopped
<1>2. /\ DOMAIN messages' = Helpers
      /\ chatInformation' \subseteq Helpers
  BY DEF TypeOK
<1>3. Shape'
  BY <1>1, <1>2 DEF Inv, Shape, Idle
<1>4. InContext'
  BY <1>1 DEF InContext, Idle
<1> QED BY <1>1, <1>3, <1>4 DEF Inv, Stopped

\* The steps of the queue and of the consumer touch neither threads nor helpers.
LEMMA QuietInv ==
    ASSUME Inv, UNCHANGED <<serving, helperVars, chat_mutex_, thread>>
    PROVE  Inv'
BY DEF Inv, Shape, InContext, Stopped, helperVars

LEMMA NextInv ==
    ASSUME Inv, TypeOK', [Next]_vars
    PROVE  Inv'
<1>1. CASE Requests
  BY <1>1, RequestsInv
<1>2. CASE Commits
  BY <1>2, PublishInv, PublishRefusedInv DEF Commits
<1>3. CASE Chatting
  BY <1>3, LockInv, ModelFailsInv, SwapInv DEF Chatting
<1>4. CASE \E job \in Jobs : Persist(job)
  BY <1>4, QuietInv DEF Persist
<1>5. CASE QueueMoves
  BY <1>5, QuietInv DEF QueueMoves
<1>6. CASE ProcessEnds
  BY <1>6, ProcessEndsInv
<1>7. CASE Restore
  BY <1>7, RestoreInv
<1>8. CASE UNCHANGED vars
  BY <1>8, QuietInv DEF vars
<1> QED BY <1>1, <1>2, <1>3, <1>4, <1>5, <1>6, <1>7, <1>8 DEF Next

\* The only step that changes a history while the process serves is a thread's own
\* swap, and the snapshot it sent to the model is that history.
LEMMA GrowsInContext ==
    ASSUME Inv, [Next]_vars, NEW helper \in Helpers, Grows(helper)
    PROVE  \E t \in Threads :
              /\ thread[t].pc = "swap" /\ thread[t].on.helper = helper
              /\ thread[t].request = messages[helper]
              /\ messages'[helper] = messages[helper] \o Exchange(thread[t].job, thread[t].ts)
<1>1. ~UNCHANGED messages /\ serving /\ serving'
  BY DEF Grows
<1>2. PICK t \in Threads : Swap(t)
  <2>1. ~Requests
    BY <1>1 DEF Requests, Send, CreateAndSend, helperVars
  <2>2. ~Commits
    BY <1>1 DEF Commits, Publish, PublishRefused, Refused, helperVars
  <2>3. \A t \in Threads : ~Lock(t) /\ ~ModelFails(t)
    BY <1>1 DEF Lock, ModelFails, helperVars
  <2>4. (\A job \in Jobs : ~Persist(job)) /\ ~QueueMoves
    BY <1>1 DEF Persist, QueueMoves, helperVars
  <2>5. ~ProcessEnds /\ ~Restore
    BY <1>1 DEF ProcessEnds, Restore
  <2>6. ~UNCHANGED vars
    BY <1>1 DEF vars, helperVars
  <2> QED BY <2>1, <2>2, <2>3, <2>4, <2>5, <2>6 DEF Next, Chatting
<1>3. /\ thread[t].pc = "swap"
      /\ messages' = [messages EXCEPT ![thread[t].on.helper] =
                        @ \o Exchange(thread[t].job, thread[t].ts)]
  BY <1>2 DEF Swap
<1>4. thread[t].on.helper = helper
  BY <1>3 DEF Grows, Inv, Shape
<1>5. thread[t].request = messages[helper]
  BY <1>3, <1>4 DEF Inv, InContext
<1>6. messages'[helper] = messages[helper] \o Exchange(thread[t].job, thread[t].ts)
  BY <1>3, <1>4 DEF Inv, Shape
<1> QED BY <1>3, <1>4, <1>5, <1>6

\* Every thread past its snapshot holds its helper's mutex and its snapshot is
\* current (chat_mutex_ is kept from the copy of `messages` to the swap).
THEOREM InvCorrect == Spec => []Inv
<1>1. Init => Inv
  BY InitInv
<1>2. Inv /\ TypeOK' /\ [Next]_vars => Inv'
  BY NextInv
<1> QED BY <1>1, <1>2, TypeCorrect, PTL DEF Spec

\* Each answer is appended to exactly the history the model was given: concurrent
\* requests to one chat, streamed or not, and the unlock in chatStream's tool-calling
\* path never let another exchange in between.
THEOREM ContextCorrect == Spec => AnswersInContext
<1>1. Inv /\ [Next]_vars =>
        [\A helper \in Helpers : Grows(helper) =>
          \E t \in Threads : /\ thread[t].pc = "swap" /\ thread[t].on.helper = helper
                             /\ thread[t].request = messages[helper]
                             /\ messages'[helper] = messages[helper]
                                    \o Exchange(thread[t].job, thread[t].ts)]_vars
  BY GrowsInContext
<1> QED BY <1>1, InvCorrect, PTL DEF Spec, AnswersInContext

-----------------------------------------------------------------------------
(* The kinds of step, by what they do to threads, histories and the log *)

Still == UNCHANGED <<serving, messages, log, incomplete, restored>>

\* One thread goes on: to a request, to the model, or to a reply that is an error.
Turns(t) ==
    /\ Still /\ UNCHANGED <<chat_message, stored>>
    /\ thread[t].pc # "swap"
    /\ \A u \in Threads \ {t} : thread'[u] = thread[u]
    /\ \/ thread'[t].pc \in {"idle", "lock"}
       \/ /\ thread'[t].pc = "model" /\ thread'[t].on.helper \in Helpers
          /\ thread'[t].request = messages[thread'[t].on.helper]
          /\ Canonical(thread'[t].request)
       \/ /\ thread'[t].pc = "done" /\ ~thread'[t].ok /\ Fresh(thread'[t].job)

\* A new exchange is accepted.
Files(t, job, ts) ==
    LET helper == thread[t].on.helper
    IN  /\ UNCHANGED <<serving, messages, incomplete, restored, chat_message, stored>>
        /\ thread[t].pc = "model" /\ helper \in Helpers
        /\ messages[helper] # <<>> => LastTime(messages[helper]) < ts
        /\ Fresh(job) /\ job \notin stored
        /\ log' = [log EXCEPT ![helper] = @ \o Exchange(job, ts)]
        /\ \A u \in Threads \ {t} : thread'[u] = thread[u]
        /\ thread'[t].pc = "swap" /\ thread'[t].on = thread[t].on
        /\ thread'[t].request = thread[t].request
        /\ thread'[t].job = job /\ thread'[t].ts = ts

\* An accepted exchange gets into memory.
Enrols(t) ==
    LET helper == thread[t].on.helper
    IN  /\ UNCHANGED <<serving, log, incomplete, restored, chat_message, stored>>
        /\ thread[t].pc = "swap" /\ helper \in Helpers
        /\ thread[t].on.owner = helper /\ thread[t].job \in Jobs
        /\ thread[t].ts \in 0..(MaxTime - 1)
        /\ messages' = [messages EXCEPT ![helper] = @ \o Exchange(thread[t].job, thread[t].ts)]
        /\ \A u \in Threads \ {t} : thread'[u] = thread[u]
        /\ thread'[t].pc = "done" /\ thread'[t].on = thread[t].on
        /\ thread'[t].job = thread[t].job /\ thread'[t].ok

LEMMA TurnsOf ==
    ASSUME Base, Inv, NEW t \in Threads,
           \/ \E user \in Users, chat \in Chats, relocks \in BOOLEAN :
                Send(t, user, chat, relocks) \/ CreateAndSend(t, user, chat, relocks)
           \/ Lock(t) \/ ModelFails(t) \/ \E job \in Jobs : PublishRefused(t, job)
    PROVE  Turns(t)
<1>0. DOMAIN thread = Threads /\ thread[t].pc # "swap"
  BY DEF Inv, Shape, Send, CreateAndSend, Free, Lock, ModelFails, PublishRefused
<1>1. CASE \E user \in Users, chat \in Chats, relocks \in BOOLEAN :
             Send(t, user, chat, relocks) \/ CreateAndSend(t, user, chat, relocks)
  <2>1. PICK user \in Users, chat \in Chats, relocks \in BOOLEAN :
          Enters(t, <<user, chat>>, user, chat, relocks)
    BY <1>1 DEF Send, CreateAndSend, Found
  <2>2. Still /\ UNCHANGED <<chat_message, stored>>
    BY <1>1 DEF Send, CreateAndSend, Still, helperVars, ghostVars, queueState
  <2>3. thread'[t].pc = "lock" /\ \A u \in Threads \ {t} : thread'[u] = thread[u]
    BY <1>0, <2>1 DEF Enters
  <2> QED BY <1>0, <2>2, <2>3 DEF Turns
<1>2. CASE Lock(t)
  <2> DEFINE helper == thread[t].on.helper
  <2>1. Still /\ UNCHANGED <<chat_message, stored>>
    BY <1>2 DEF Lock, Still, helperVars, ghostVars, queueState
  <2>2. /\ thread[t].pc = "lock" /\ helper \in Helpers
        /\ thread[t] \in [pc : {"lock"}, on : [helper : Helpers, owner : Helpers], relocks : BOOLEAN]
    BY <1>2 DEF Lock, Inv, Shape
  <2>3. CASE thread' = [thread EXCEPT ![t] = Idle]
    BY <1>0, <2>1, <2>3 DEF Turns, Idle
  <2>4. CASE thread' = [thread EXCEPT ![t].relocks = FALSE]
    <3>1. thread'[t].pc = "lock" /\ \A u \in Threads \ {t} : thread'[u] = thread[u]
      BY <1>0, <2>2, <2>4
    <3> QED BY <1>0, <2>1, <3>1 DEF Turns
  <2>5. CASE /\ Canonical(messages[helper])
             /\ thread' = [thread EXCEPT ![t] =
                             [pc |-> "model", on |-> thread[t].on, request |-> messages[helper]]]
    <3>1. /\ thread'[t].pc = "model" /\ thread'[t].on = thread[t].on
          /\ thread'[t].request = messages[helper]
          /\ \A u \in Threads \ {t} : thread'[u] = thread[u]
      BY <1>0, <2>5
    <3> QED BY <1>0, <2>1, <2>2, <2>5, <3>1 DEF Turns
  <2> QED BY <1>2, <2>3, <2>4, <2>5 DEF Lock
<1>3. CASE ModelFails(t)
  <2>1. Still /\ UNCHANGED <<chat_message, stored>>
    BY <1>3 DEF ModelFails, Still, helperVars, ghostVars, queueState
  <2> QED BY <1>0, <1>3, <2>1 DEF ModelFails, Turns, Idle
<1>4. CASE \E job \in Jobs : PublishRefused(t, job)
  <2>0. PICK job \in Jobs : PublishRefused(t, job)
    BY <1>4
  <2>1. Still /\ UNCHANGED <<chat_message, stored>>
    BY <2>0 DEF PublishRefused, Refused, Still, ghostVars, queueState
  <2>2. /\ thread'[t] = [pc |-> "done", on |-> thread[t].on, job |-> job, ok |-> FALSE]
        /\ \A u \in Threads \ {t} : thread'[u] = thread[u]
    BY <1>0, <2>0 DEF PublishRefused, Replied
  <2>3. Fresh(job)
    BY <2>0 DEF PublishRefused
  <2> QED BY <1>0, <2>1, <2>2, <2>3 DEF Turns
<1> QED BY <1>1, <1>2, <1>3, <1>4

LEMMA FilesOf ==
    ASSUME Base, Inv, NEW t \in Threads, NEW job \in Jobs, NEW now \in 0..MaxClock,
           Publish(t, job, now)
    PROVE  \E ts \in 0..(MaxTime - 1) : Files(t, job, ts)
<1> DEFINE helper == thread[t].on.helper
           ts == Timestamp(messages[helper], now)
<1>0. /\ DOMAIN thread = Threads /\ thread[t].pc = "model"
      /\ thread[t] \in Places /\ messages \in [Helpers -> Seq(Message)]
  BY DEF Base, TypeOK, Publish
<1>1. helper \in Helpers
  BY <1>0, PlaceTypes
<1>2. thread[t].on.owner = helper
  BY <1>0 DEF Base, Owned
<1>3. now \in Nat /\ TimeLeft(messages[helper], now) /\ messages[helper] \in Seq(Message)
  BY <1>0, <1>1, TimeAssumption DEF Publish
<1>4. /\ ts \in 0..(MaxTime - 1)
      /\ messages[helper] # <<>> => LastTime(messages[helper]) < ts
  BY <1>3, TimestampIs
<1>5. /\ Fresh(job) /\ job \notin stored
      /\ log' = [log EXCEPT ![helper] = @ \o Exchange(job, ts)]
      /\ UNCHANGED <<serving, messages, incomplete, restored, chat_message, stored>>
      /\ thread' = [thread EXCEPT ![t] =
                      [pc |-> "swap", on |-> thread[t].on, request |-> thread[t].request,
                       job |-> job, ts |-> ts]]
  BY <1>2 DEF Publish, Accept, Held, helperVars
<1> HIDE DEF ts
<1>6. /\ thread'[t] = [pc |-> "swap", on |-> thread[t].on, request |-> thread[t].request,
                       job |-> job, ts |-> ts]
      /\ \A u \in Threads \ {t} : thread'[u] = thread[u]
  BY <1>0, <1>5
<1>7. /\ thread'[t].pc = "swap" /\ thread'[t].on = thread[t].on
      /\ thread'[t].request = thread[t].request
      /\ thread'[t].job = job /\ thread'[t].ts = ts
  BY <1>6
<1>8. Files(t, job, ts)
  BY <1>0, <1>1, <1>4, <1>5, <1>6, <1>7 DEF Files
<1> QED BY <1>4, <1>8

LEMMA EnrolsOf ==
    ASSUME Base, Inv, NEW t \in Threads, Swap(t)
    PROVE  Enrols(t)
<1> DEFINE helper == thread[t].on.helper
<1>0. DOMAIN thread = Threads /\ thread[t].pc = "swap" /\ thread[t] \in Places
  BY DEF Base, TypeOK, Swap
<1>1. helper \in Helpers /\ thread[t].job \in Jobs /\ thread[t].ts \in 0..MaxTime
  BY <1>0, PlaceTypes
<1>2. thread[t].on.owner = helper /\ thread[t].ts < MaxTime
  BY <1>0 DEF Base, Owned, Room
<1>3. thread[t].ts \in 0..(MaxTime - 1)
  BY <1>1, <1>2, TimeAssumption
<1>4. /\ messages' = [messages EXCEPT ![helper] = @ \o Exchange(thread[t].job, thread[t].ts)]
      /\ UNCHANGED <<serving, log, incomplete, restored, chat_message, stored>>
      /\ thread' = [thread EXCEPT ![t] = [pc |-> "done", on |-> thread[t].on,
                                          job |-> thread[t].job, ok |-> TRUE]]
  BY DEF Swap, Replied, ghostVars, queueState
<1>5. /\ thread'[t] = [pc |-> "done", on |-> thread[t].on, job |-> thread[t].job, ok |-> TRUE]
      /\ \A u \in Threads \ {t} : thread'[u] = thread[u]
  BY <1>0, <1>4
<1>6. /\ thread'[t].pc = "done" /\ thread'[t].on = thread[t].on
      /\ thread'[t].job = thread[t].job /\ thread'[t].ok
  BY <1>5
<1> QED BY <1>0, <1>1, <1>2, <1>3, <1>4, <1>5, <1>6 DEF Enrols

LEMMA StepKinds ==
    ASSUME Base, Inv, [Next]_vars
    PROVE  \/ \E t \in Threads : Turns(t)
           \/ \E t \in Threads, job \in Jobs, ts \in 0..(MaxTime - 1) : Files(t, job, ts)
           \/ \E t \in Threads : Enrols(t)
           \/ \E job \in Jobs : Persist(job)
           \/ Still /\ UNCHANGED <<thread, chat_message, stored>>
           \/ ProcessEnds
           \/ Restore
<1>1. CASE Requests
  BY <1>1, TurnsOf DEF Requests
<1>2. CASE Commits
  BY <1>2, TurnsOf, FilesOf DEF Commits
<1>3. CASE Chatting
  BY <1>3, TurnsOf, EnrolsOf DEF Chatting
<1>4. CASE QueueMoves
  BY <1>4 DEF QueueMoves, Replace, Deposit, Remove, Forget, Still, helperVars, ghostVars
<1>5. CASE UNCHANGED vars
  BY <1>5 DEF vars, queueState, Still, helperVars, ghostVars
<1> QED BY <1>1, <1>2, <1>3, <1>4, <1>5 DEF Next

-----------------------------------------------------------------------------
(* Only whole exchanges are continued *)

\* A history that was sent to a model is canonical, and the exchange that will extend
\* it is later than all of it.
Continuing ==
    \A t \in Threads :
        /\ thread[t].pc \in {"model", "swap"} => Canonical(thread[t].request)
        /\ thread[t].pc = "swap" /\ thread[t].request # <<>> =>
              LastTime(thread[t].request) < thread[t].ts

Ordered(history, from) == \A i \in from..(Len(history) - 1) : i > 0 => history[i].ts < history[i + 1].ts

Continued ==
    \A helper \in Helpers :
        /\ restored[helper] <= Len(messages[helper])
        /\ restored[helper] < Len(messages[helper]) =>
              Canonical(messages[helper]) /\ Ordered(messages[helper], restored[helper])

ContinueInv == Continuing /\ Continued

LEMMA CanonicalGrows ==
    ASSUME NEW history \in Seq(Message), NEW job \in Jobs, NEW ts \in 0..(MaxTime - 1),
           Canonical(history)
    PROVE  Canonical(history \o Exchange(job, ts))
<1> DEFINE longer == history \o Exchange(job, ts)
           len == Len(history)
<1>1. /\ len \in Nat /\ Len(longer) = len + 2 /\ DOMAIN longer = 1..(len + 2)
      /\ \A n \in 1..len : longer[n] = history[n]
      /\ longer[len + 1] = Question(job, ts) /\ longer[len + 2] = Answer(job, ts)
      /\ \A n \in DOMAIN longer : n \in 1..len \/ n = len + 1 \/ n = len + 2
  BY Appended
<1>2. len % 2 = 0 /\ \A i \in 1..len : history[i].isUser = (i % 2 = 1)
  BY DEF Canonical
<1> HIDE DEF longer, len
<1>3. Len(longer) % 2 = 0 /\ (len + 1) % 2 = 1 /\ (len + 2) % 2 = 0
  BY <1>1, <1>2
<1>4. Question(job, ts).isUser = TRUE /\ Answer(job, ts).isUser = FALSE
  BY DEF Question, Answer
<1>5. ASSUME NEW i \in 1..Len(longer) PROVE longer[i].isUser = (i % 2 = 1)
  <2>1. CASE i \in 1..len
    BY <1>1, <1>2, <2>1
  <2>2. CASE i = len + 1
    <3>1. (i % 2 = 1) = TRUE
      BY <1>3, <2>2
    <3>2. longer[i].isUser = TRUE
      BY <1>1, <1>4, <2>2
    <3> QED BY <3>1, <3>2
  <2>3. CASE i = len + 2
    <3>1. (i % 2 = 1) = FALSE
      BY <1>3, <2>3
    <3>2. longer[i].isUser = FALSE
      BY <1>1, <1>4, <2>3
    <3> QED BY <3>1, <3>2
  <2> QED BY <1>1, <2>1, <2>2, <2>3
<1>6. Canonical(longer)
  BY <1>3, <1>5 DEF Canonical
<1> QED BY <1>6 DEF longer

LEMMA OrderedGrows ==
    ASSUME NEW history \in Seq(Message), NEW job \in Jobs, NEW ts \in 0..(MaxTime - 1),
           NEW from \in Nat, from <= Len(history),
           from < Len(history) => Ordered(history, from),
           history # <<>> => LastTime(history) < ts
    PROVE  Ordered(history \o Exchange(job, ts), from)
<1> DEFINE longer == history \o Exchange(job, ts)
           len == Len(history)
<1>1. /\ len \in Nat /\ Len(longer) = len + 2 /\ DOMAIN longer = 1..(len + 2)
      /\ \A n \in 1..len : longer[n] = history[n]
      /\ longer[len + 1] = Question(job, ts) /\ longer[len + 2] = Answer(job, ts)
  BY Appended
<1>2. Question(job, ts).ts = ts /\ Answer(job, ts).ts = ts + 1
  BY DEF Question, Answer
<1>3. len > 0 => history[len].ts < ts
  BY DEF LastTime
<1> HIDE DEF longer
<1>4. ASSUME NEW i \in from..(Len(longer) - 1), i > 0 PROVE longer[i].ts < longer[i + 1].ts
  <2>1. CASE i < len
    <3>1. i \in from..(len - 1) /\ i \in 1..len /\ i + 1 \in 1..len
      BY <1>1, <1>4, <2>1
    <3>2. history[i].ts < history[i + 1].ts
      BY <1>4, <2>1, <3>1 DEF Ordered
    <3> QED BY <1>1, <3>1, <3>2
  <2>2. CASE i = len
    BY <1>1, <1>2, <1>3, <1>4, <2>2
  <2>3. CASE i = len + 1
    BY <1>1, <1>2, <2>3
  <2> QED BY <1>1, <1>4, <2>1, <2>2, <2>3
<1>5. Ordered(longer, from)
  BY <1>4 DEF Ordered
<1> QED BY <1>5 DEF longer

LEMMA InitContinue == Init => ContinueInv
<1> SUFFICES ASSUME Init PROVE ContinueInv
  OBVIOUS
<1>1. \A t \in Threads : thread[t].pc = "idle"
  BY DEF Init, Idle
<1>2. \A helper \in Helpers : messages[helper] = <<>> /\ restored[helper] = 0
  BY DEF Init
<1> QED BY <1>1, <1>2 DEF ContinueInv, Continuing, Continued

LEMMA EnrolsContinue ==
    ASSUME Base, Inv, ContinueInv, NEW t \in Threads, Enrols(t)
    PROVE  ContinueInv'
<1> DEFINE helper == thread[t].on.helper
           job == thread[t].job
           ts == thread[t].ts
<1>0. /\ messages \in [Helpers -> Seq(Message)] /\ restored \in [Helpers -> Nat]
  BY DEF Base, TypeOK
<1>1. /\ helper \in Helpers /\ job \in Jobs /\ ts \in 0..(MaxTime - 1) /\ thread[t].pc = "swap"
      /\ messages' = [messages EXCEPT ![helper] = @ \o Exchange(job, ts)]
      /\ restored' = restored /\ thread'[t].pc = "done"
      /\ \A u \in Threads \ {t} : thread'[u] = thread[u]
  BY DEF Enrols
<1>2. thread[t].request = messages[helper]
  BY <1>1 DEF Inv, InContext
<1>3. /\ Canonical(messages[helper])
      /\ messages[helper] # <<>> => LastTime(messages[helper]) < ts
  BY <1>1, <1>2 DEF ContinueInv, Continuing
<1> HIDE DEF helper, job, ts
<1>4. /\ messages'[helper] = messages[helper] \o Exchange(job, ts)
      /\ \A h \in Helpers \ {helper} : messages'[h] = messages[h]
      /\ messages[helper] \in Seq(Message) /\ restored[helper] \in Nat
      /\ restored[helper] <= Len(messages[helper])
  BY <1>0, <1>1 DEF ContinueInv, Continued
<1>5. Len(messages'[helper]) = Len(messages[helper]) + 2 /\ Len(messages[helper]) \in Nat
  BY <1>1, <1>4, Appended
<1>6. Canonical(messages'[helper])
  BY <1>1, <1>3, <1>4, CanonicalGrows
<1>7. restored[helper] < Len(messages[helper]) => Ordered(messages[helper], restored[helper])
  BY <1>1 DEF ContinueInv, Continued
<1>8. Ordered(messages'[helper], restored[helper])
  BY <1>1, <1>3, <1>4, <1>7, OrderedGrows
<1>9. restored[helper] <= Len(messages'[helper])
  BY <1>4, <1>5
<1>10. Continued'
  <2> SUFFICES ASSUME NEW h \in Helpers
               PROVE  /\ restored[h] <= Len(messages'[h])
                      /\ restored[h] < Len(messages'[h]) =>
                            Canonical(messages'[h]) /\ Ordered(messages'[h], restored[h])
    BY <1>1 DEF Continued
  <2>1. CASE h = helper
    BY <1>6, <1>8, <1>9, <2>1
  <2>2. CASE h # helper
    BY <1>4, <2>2 DEF ContinueInv, Continued
  <2> QED BY <2>1, <2>2
<1>11. Continuing'
  BY <1>1 DEF ContinueInv, Continuing
<1> QED BY <1>10, <1>11 DEF ContinueInv

LEMMA NextContinue ==
    ASSUME Base, Base', Inv, ContinueInv, [Next]_vars
    PROVE  ContinueInv'
<1>1. CASE \E t \in Threads : Turns(t)
  <2>1. PICK t \in Threads : Turns(t)
    BY <1>1
  <2>2. Continued'
    BY <2>1 DEF Turns, Still, ContinueInv, Continued
  <2>3. \A u \in Threads \ {t} : thread'[u] = thread[u]
    BY <2>1 DEF Turns
  <2>4. thread'[t].pc # "swap" /\ (thread'[t].pc = "model" => Canonical(thread'[t].request))
    BY <2>1 DEF Turns
  <2>5. Continuing'
    BY <2>3, <2>4 DEF ContinueInv, Continuing
  <2> QED BY <2>2, <2>5 DEF ContinueInv
<1>2. CASE \E t \in Threads, job \in Jobs, ts \in 0..(MaxTime - 1) : Files(t, job, ts)
  <2>1. PICK t \in Threads, job \in Jobs, ts \in 0..(MaxTime - 1) : Files(t, job, ts)
    BY <1>2
  <2> DEFINE helper == thread[t].on.helper
  <2>2. Continued'
    BY <2>1 DEF Files, ContinueInv, Continued
  <2>3. /\ \A u \in Threads \ {t} : thread'[u] = thread[u]
        /\ thread'[t].request = thread[t].request /\ thread'[t].ts = ts /\ thread[t].pc = "model"
        /\ messages[helper] # <<>> => LastTime(messages[helper]) < ts
    BY <2>1 DEF Files
  <2>4. thread[t].request = messages[helper] /\ Canonical(thread[t].request)
    BY <2>3 DEF Inv, InContext, ContinueInv, Continuing
  <2>5. /\ Canonical(thread'[t].request)
        /\ thread'[t].request # <<>> => LastTime(thread'[t].request) < thread'[t].ts
    BY <2>3, <2>4
  <2>6. Continuing'
    BY <2>3, <2>5 DEF ContinueInv, Continuing
  <2> QED BY <2>2, <2>6 DEF ContinueInv
<1>3. CASE \E t \in Threads : Enrols(t)
  BY <1>3, EnrolsContinue
<1>4. CASE (\E job \in Jobs : Persist(job)) \/ (Still /\ UNCHANGED <<thread, chat_message, stored>>)
  <2>1. UNCHANGED <<messages, restored, thread>>
    BY <1>4 DEF Persist, Still, helperVars, ghostVars
  <2> QED BY <2>1 DEF ContinueInv, Continuing, Continued
<1>5. CASE ProcessEnds
  <2>1. \A t \in Threads : thread'[t].pc = "idle"
    BY <1>5 DEF ProcessEnds, Idle
  <2>2. \A helper \in Helpers : messages'[helper] = <<>> /\ restored'[helper] = 0
    BY <1>5 DEF ProcessEnds
  <2> QED BY <2>1, <2>2 DEF ContinueInv, Continuing, Continued
<1>6. CASE Restore
  <2>1. thread' = thread
    BY <1>6 DEF Restore
  <2>2. messages' \in [Helpers -> Seq(Message)]
    BY DEF Base, TypeOK
  <2>3. \A helper \in Helpers : restored'[helper] = Len(messages'[helper]) /\ Len(messages'[helper]) \in Nat
    BY <1>6, <2>2 DEF Restore
  <2>4. Continued'
    BY <2>3 DEF Continued
  <2>5. Continuing'
    BY <2>1 DEF ContinueInv, Continuing
  <2> QED BY <2>4, <2>5 DEF ContinueInv
<1> QED BY <1>1, <1>2, <1>3, <1>4, <1>5, <1>6, StepKinds

\* Every history sent to a model is canonical, and every history that has grown is.
THEOREM ContinueInvCorrect == Spec => []ContinueInv
<1>1. Init => ContinueInv
  BY InitContinue
<1>2. Base /\ Base' /\ Inv /\ ContinueInv /\ [Next]_vars => ContinueInv'
  BY NextContinue
<1> QED BY <1>1, <1>2, BaseCorrect, InvCorrect, PTL DEF Spec

\* No history is extended unless it consists of questions and their answers, and the
\* exchanges that are appended are in the order of their timestamps, whatever rows were
\* restored and however the clock is set (validateCanonicalHistory, commitExchange).
THEOREM ContinuesCorrect == Spec => []ContinuesOnlyCanonical
<1>1. Base /\ ContinueInv => ContinuesOnlyCanonical
  <2> SUFFICES ASSUME Base, ContinueInv, NEW helper \in Helpers,
                      Len(messages[helper]) > restored[helper]
               PROVE  LET history == messages[helper]
                      IN  /\ \E n \in 0..Len(history) : Len(history) = 2 * n
                          /\ \A i \in 1..(Len(history) - 1) :
                                history[i].isUser # history[i + 1].isUser
                          /\ history[1].isUser
                          /\ \A i \in restored[helper]..(Len(history) - 1) :
                                i > 0 => history[i].ts < history[i + 1].ts
    BY DEF ContinuesOnlyCanonical
  <2> DEFINE history == messages[helper]
  <2>1. history \in Seq(Message) /\ restored[helper] \in Nat /\ Len(history) \in Nat
    BY DEF Base, TypeOK
  <2>2. Canonical(history) /\ Ordered(history, restored[helper])
    BY <2>1 DEF ContinueInv, Continued
  <2> HIDE DEF history
  <2>3. \E n \in 0..Len(history) : Len(history) = 2 * n
    BY <2>1, <2>2 DEF Canonical
  <2>4. \A i \in 1..(Len(history) - 1) : history[i].isUser # history[i + 1].isUser
    BY <2>1, <2>2 DEF Canonical
  <2>5. history[1].isUser
    <3>1. 1 \in 1..Len(history)
      BY <2>1 DEF history
    <3>2. history[1].isUser = (1 % 2 = 1)
      BY <2>2, <3>1 DEF Canonical
    <3>3. (1 % 2 = 1) = TRUE
      OBVIOUS
    <3> QED BY <3>2, <3>3
  <2> QED BY <2>2, <2>3, <2>4, <2>5 DEF Ordered, history
<1> QED BY <1>1, BaseCorrect, ContinueInvCorrect, PTL

-----------------------------------------------------------------------------
(* The table and the log *)

\* Every row is a message of its chat's log.
RowsLogged ==
    \A i \in DOMAIN chat_message :
        Has(log[chat_message[i].helper], MessageOf(chat_message[i]))

\* No exchange is stored twice.
RowsOnce ==
    \A i, j \in DOMAIN chat_message :
        Same(MessageOf(chat_message[i]), MessageOf(chat_message[j])) => i = j

\* Legacy rows of one chat and one time make it incomplete.
LegacyTimes ==
    \A i, j \in DOMAIN chat_message :
        /\ chat_message[i].job = NoJob /\ chat_message[j].job = NoJob
        /\ chat_message[i].helper = chat_message[j].helper
        /\ chat_message[i].ts = chat_message[j].ts
        /\ ~incomplete[chat_message[i].helper]
        => i = j

HasRow(helper, message) ==
    \E i \in DOMAIN chat_message :
        chat_message[i].helper = helper /\ MessageOf(chat_message[i]) = message

\* What is stored has its rows, and only what is stored has.
StoredHasRows ==
    \A helper \in Helpers : \A n \in DOMAIN log[helper] :
        log[helper][n].job \in stored \cup {NoJob} => HasRow(helper, log[helper][n])

RowsStored == \A i \in DOMAIN chat_message : chat_message[i].job \in stored \cup {NoJob}

TableInv == RowsLogged /\ RowsOnce /\ LegacyTimes /\ StoredHasRows /\ RowsStored

LEMMA MessageFields ==
    ASSUME NEW row
    PROVE  MessageOf(row).job = row.job /\ MessageOf(row).ts = row.ts
BY DEF MessageOf

LEMMA InitTable == Init => TableInv
<1> SUFFICES ASSUME Init PROVE TableInv
  OBVIOUS
<1>0. TypeOK
  BY InitBase DEF Base
<1>1. /\ chat_message \in Seq(Row) /\ Len(chat_message) \in Nat
      /\ DOMAIN chat_message = 1..Len(chat_message)
      /\ log \in [Helpers -> Seq(Message)]
  BY <1>0 DEF TypeOK
<1>2. \A i \in DOMAIN chat_message : chat_message[i] \in Row /\ chat_message[i].helper \in Helpers
  BY <1>1, RowTypes
<1>3. \A i \in DOMAIN chat_message : chat_message[i].job = NoJob
  <2> DEFINE Old == [job : {NoJob}, helper : Helpers, is_user : Nat, ts : 0..MaxTime]
  <2>1. chat_message \in Seq(Old)
    BY LegacyAssumption DEF Init
  <2>2. \A row \in Old : row.job = NoJob
    OBVIOUS
  <2> HIDE DEF Old
  <2> QED BY <2>1, <2>2
<1>4. \A helper \in Helpers : DOMAIN log[helper] = 1..Len(log[helper]) /\ Len(log[helper]) \in Nat
  BY <1>1
<1>5. HistoriesRead(ReadRows(chat_message), chat_message, Len(chat_message))
  BY <1>1, RowsAreRead
<1>6. \A helper \in Helpers : \E at : Selects(at, log[helper], chat_message, Len(chat_message), helper)
  BY <1>5 DEF HistoriesRead, Init
<1>7. RowsLogged
  <2> SUFFICES ASSUME NEW i \in DOMAIN chat_message
               PROVE  Has(log[chat_message[i].helper], MessageOf(chat_message[i]))
    BY DEF RowsLogged
  <2> DEFINE helper == chat_message[i].helper
  <2>1. PICK at : Selects(at, log[helper], chat_message, Len(chat_message), helper)
    BY <1>2, <1>6
  <2>2. PICK k \in 1..Len(log[helper]) : at[k] = i
    BY <1>1, <2>1 DEF Selects
  <2>3. log[helper][k] = MessageOf(chat_message[i])
    BY <2>1, <2>2 DEF Selects
  <2> QED BY <1>2, <1>4, <2>3 DEF Has
<1>8. RowsOnce
  BY <1>3, MessageFields DEF RowsOnce, Same
<1>9. LegacyTimes
  <2> SUFFICES ASSUME NEW i \in DOMAIN chat_message, NEW j \in DOMAIN chat_message,
                      chat_message[i].helper = chat_message[j].helper,
                      chat_message[i].ts = chat_message[j].ts,
                      ~incomplete[chat_message[i].helper], i # j
               PROVE  FALSE
    BY DEF LegacyTimes
  <2> DEFINE helper == chat_message[i].helper
  <2>0. helper \in Helpers
    BY <1>2
  <2>1. PICK at : Selects(at, log[helper], chat_message, Len(chat_message), helper)
    BY <1>2, <1>6
  <2>2. PICK k \in 1..Len(log[helper]) : at[k] = i
    BY <1>1, <2>1 DEF Selects
  <2>3. PICK l \in 1..Len(log[helper]) : at[l] = j
    BY <1>1, <2>1 DEF Selects
  <2>4. log[helper][k].ts = chat_message[i].ts /\ log[helper][l].ts = chat_message[i].ts
    BY <2>1, <2>2, <2>3, MessageFields DEF Selects
  <2>5. log[helper][k].ts \in Nat /\ log[helper][l].ts \in Nat
    <3>1. log[helper][k] \in Message /\ log[helper][l] \in Message
      BY <1>1, <2>0
    <3> QED BY <3>1 DEF Message
  <2>6. k < l \/ l < k
    BY <1>4, <2>0, <2>2, <2>3
  <2>7. incomplete[helper] = \E m, n \in DOMAIN log[helper] :
                                m < n /\ log[helper][m].ts >= log[helper][n].ts
    BY <2>0 DEF Init
  <2>8. k \in DOMAIN log[helper] /\ l \in DOMAIN log[helper]
    BY <1>4, <2>0
  <2>9. log[helper][k].ts >= log[helper][l].ts /\ log[helper][l].ts >= log[helper][k].ts
    BY <2>4, <2>5
  <2> QED BY <2>6, <2>7, <2>8, <2>9
<1>10. StoredHasRows
  <2> SUFFICES ASSUME NEW helper \in Helpers, NEW n \in DOMAIN log[helper]
               PROVE  HasRow(helper, log[helper][n])
    BY DEF StoredHasRows
  <2>1. PICK at : Selects(at, log[helper], chat_message, Len(chat_message), helper)
    BY <1>6
  <2>2. /\ at[n] \in DOMAIN chat_message /\ chat_message[at[n]].helper = helper
        /\ log[helper][n] = MessageOf(chat_message[at[n]])
    BY <1>1, <1>4, <2>1 DEF Selects
  <2> QED BY <2>2 DEF HasRow
<1>11. RowsStored
  BY <1>3 DEF RowsStored
<1> QED BY <1>7, <1>8, <1>9, <1>10, <1>11 DEF TableInv

\* The log grows at one end; what it has stays.
LEMMA FilesGrow ==
    ASSUME Base, NEW t \in Threads, NEW job \in Jobs, NEW ts \in 0..(MaxTime - 1),
           Files(t, job, ts)
    PROVE  LET helper == thread[t].on.helper
               len == Len(log[helper])
           IN  /\ len \in Nat /\ DOMAIN log[helper] = 1..len /\ DOMAIN log'[helper] = 1..(len + 2)
               /\ \A h \in Helpers \ {helper} : log'[h] = log[h]
               /\ \A n \in 1..len : log'[helper][n] = log[helper][n]
               /\ log'[helper][len + 1] = Question(job, ts)
               /\ log'[helper][len + 2] = Answer(job, ts)
               /\ \A n \in DOMAIN log'[helper] : n \in 1..len \/ n = len + 1 \/ n = len + 2
               /\ log'[helper] = log[helper] \o Exchange(job, ts)
               /\ \A h \in Helpers : \A m : Has(log[h], m) => Has(log'[h], m)
<1> DEFINE helper == thread[t].on.helper
           len == Len(log[helper])
<1>0. /\ log \in [Helpers -> Seq(Message)] /\ helper \in Helpers
      /\ log' = [log EXCEPT ![helper] = @ \o Exchange(job, ts)]
  BY DEF Base, TypeOK, Files
<1> HIDE DEF helper
<1>1. /\ log'[helper] = log[helper] \o Exchange(job, ts) /\ log[helper] \in Seq(Message)
      /\ \A h \in Helpers \ {helper} : log'[h] = log[h]
  BY <1>0
<1>2. /\ len \in Nat /\ DOMAIN log[helper] = 1..len /\ DOMAIN log'[helper] = 1..(len + 2)
      /\ \A n \in 1..len : log'[helper][n] = log[helper][n]
      /\ log'[helper][len + 1] = Question(job, ts) /\ log'[helper][len + 2] = Answer(job, ts)
      /\ \A n \in DOMAIN log'[helper] : n \in 1..len \/ n = len + 1 \/ n = len + 2
  BY <1>1, Appended
<1>3. ASSUME NEW h \in Helpers, NEW m, Has(log[h], m) PROVE Has(log'[h], m)
  <2>1. PICK n \in DOMAIN log[h] : log[h][n] = m
    BY <1>3 DEF Has
  <2>2. n \in DOMAIN log'[h] /\ log'[h][n] = m
    <3> HIDE DEF len
    <3>1. CASE h = helper
      <4>1. n \in 1..len
        BY <1>2, <2>1, <3>1
      <4>2. n \in 1..(len + 2) /\ log'[helper][n] = log[helper][n]
        BY <1>2, <4>1
      <4> QED BY <1>2, <2>1, <3>1, <4>2
    <3>2. CASE h # helper
      BY <1>1, <2>1, <3>2
    <3> QED BY <3>1, <3>2
  <2> QED BY <2>2 DEF Has
<1> QED BY <1>1, <1>2, <1>3 DEF helper

LEMMA FilesTable ==
    ASSUME Base, TableInv, NEW t \in Threads, NEW job \in Jobs, NEW ts \in 0..(MaxTime - 1),
           Files(t, job, ts)
    PROVE  TableInv'
<1> DEFINE helper == thread[t].on.helper
           len == Len(log[helper])
<1>0. /\ UNCHANGED <<chat_message, stored, incomplete>> /\ job \notin stored
      /\ chat_message \in Seq(Row)
  BY DEF Base, TypeOK, Files
<1>1. \A h \in Helpers : \A m : Has(log[h], m) => Has(log'[h], m)
  BY FilesGrow
<1>2. \A i \in DOMAIN chat_message : chat_message[i].helper \in Helpers
  BY <1>0, RowTypes
<1>3. RowsLogged'
  BY <1>0, <1>1, <1>2 DEF TableInv, RowsLogged
<1>4. RowsOnce' /\ LegacyTimes' /\ RowsStored'
  BY <1>0 DEF TableInv, RowsOnce, LegacyTimes, RowsStored
<1>5. Question(job, ts).job \notin stored \cup {NoJob} /\ Answer(job, ts).job \notin stored \cup {NoJob}
  BY <1>0, NoneAssumption DEF Question, Answer
<1>6. ASSUME NEW h \in Helpers, NEW n \in DOMAIN log'[h], log'[h][n].job \in stored \cup {NoJob}
      PROVE  HasRow(h, log'[h][n])
  <2>1. n \in DOMAIN log[h] /\ log'[h][n] = log[h][n]
    <3>1. CASE h = helper
      <4>1. /\ DOMAIN log[helper] = 1..len
            /\ \A k \in 1..len : log'[helper][k] = log[helper][k]
            /\ log'[helper][len + 1] = Question(job, ts) /\ log'[helper][len + 2] = Answer(job, ts)
            /\ \A k \in DOMAIN log'[helper] : k \in 1..len \/ k = len + 1 \/ k = len + 2
        BY FilesGrow
      <4> HIDE DEF helper, len
      <4> QED BY <1>5, <1>6, <3>1, <4>1
    <3>2. CASE h # helper
      BY <3>2, FilesGrow
    <3> QED BY <3>1, <3>2
  <2> QED BY <1>6, <2>1 DEF TableInv, StoredHasRows
<1>7. \A h, m : HasRow(h, m) => HasRow(h, m)'
  BY <1>0 DEF HasRow
<1>8. StoredHasRows'
  BY <1>0, <1>6, <1>7 DEF StoredHasRows
<1> QED BY <1>3, <1>4, <1>8 DEF TableInv

LEMMA PersistTable ==
    ASSUME Base, TableInv, NEW job \in Jobs, Persist(job)
    PROVE  TableInv'
<1>0. TypeOK /\ LogInv /\ chat_message \in Seq(Row)
  BY DEF Base, TypeOK
<1>1. /\ job \in queued /\ stored' = stored \cup {job}
      /\ UNCHANGED <<log, incomplete>> /\ chat_message' = Inserted(job)
  BY DEF Persist, Store, ghostVars
<1>2. Filed(job) /\ job # NoJob
  BY <1>0, <1>1, NoneAssumption DEF LogInv, QueuedIsFiled, Held
<1>3. CASE \E i \in DOMAIN chat_message : chat_message[i].job = job
  <2>1. chat_message' = chat_message
    BY <1>1, <1>3 DEF Inserted
  <2>2. stored' = stored
    BY <1>1, <1>2, <1>3 DEF TableInv, RowsStored
  <2> QED BY <1>1, <2>1, <2>2
          DEF TableInv, RowsLogged, RowsOnce, LegacyTimes, StoredHasRows, RowsStored, HasRow
<1>4. CASE ~\E i \in DOMAIN chat_message : chat_message[i].job = job
  <2>1. PICK helper \in Helpers, ts \in 0..(MaxTime - 1) :
           /\ RowsOf(job) = <<QuestionRow(job, helper, ts), AnswerRow(job, helper, ts)>>
           /\ Has(log[helper], Question(job, ts)) /\ Has(log[helper], Answer(job, ts))
           /\ \A g \in Helpers : \A n \in DOMAIN log[g] : log[g][n].job = job =>
                 g = helper /\ log[g][n] \in {Question(job, ts), Answer(job, ts)}
    BY <1>0, <1>2, RowsAre
  <2> DEFINE q == QuestionRow(job, helper, ts)
             a == AnswerRow(job, helper, ts)
             len == Len(chat_message)
  <2>2. /\ q \in Row /\ a \in Row /\ MessageOf(q) = Question(job, ts) /\ MessageOf(a) = Answer(job, ts)
    BY NewRowsType
  <2>3. q.job = job /\ a.job = job /\ q.helper = helper /\ a.helper = helper
    BY DEF QuestionRow, AnswerRow
  <2> HIDE DEF q, a
  <2>4. chat_message' = chat_message \o <<q, a>>
    BY <1>1, <1>4, <2>1 DEF Inserted, q, a
  <2>5. /\ len \in Nat /\ DOMAIN chat_message = 1..len
        /\ DOMAIN chat_message' = 1..(len + 2)
        /\ \A i \in 1..len : chat_message'[i] = chat_message[i]
        /\ chat_message'[len + 1] = q /\ chat_message'[len + 2] = a
    <3>1. len \in Nat /\ DOMAIN chat_message = 1..len
      BY <1>0
    <3>2. chat_message' \in Seq(Row) /\ Len(chat_message') = len + 2
      BY <1>0, <2>2, <2>4
    <3>3. \A i \in 1..len : chat_message'[i] = chat_message[i]
      BY <1>0, <2>2, <2>4
    <3>4. chat_message'[len + 1] = q /\ chat_message'[len + 2] = a
      BY <1>0, <2>2, <2>4
    <3>5. DOMAIN chat_message' = 1..(len + 2)
      BY <3>2
    <3> QED BY <3>1, <3>3, <3>4, <3>5
  <2> HIDE DEF len
  <2>6. \A i \in DOMAIN chat_message' : i \in 1..len \/ i = len + 1 \/ i = len + 2
    BY <2>5
  <2>7. RowsLogged'
    <3> SUFFICES ASSUME NEW i \in DOMAIN chat_message'
                 PROVE  Has(log[chat_message'[i].helper], MessageOf(chat_message'[i]))
      BY <1>1 DEF RowsLogged
    <3>1. CASE i \in 1..len
      BY <2>5, <3>1 DEF TableInv, RowsLogged
    <3>2. CASE i = len + 1
      BY <2>1, <2>2, <2>3, <2>5, <3>2
    <3>3. CASE i = len + 2
      BY <2>1, <2>2, <2>3, <2>5, <3>3
    <3> QED BY <2>6, <3>1, <3>2, <3>3
  <2>8. /\ ~Same(MessageOf(q), MessageOf(a)) /\ ~Same(MessageOf(a), MessageOf(q))
        /\ \A i \in 1..len : /\ ~Same(MessageOf(chat_message[i]), MessageOf(q))
                             /\ ~Same(MessageOf(chat_message[i]), MessageOf(a))
                             /\ ~Same(MessageOf(q), MessageOf(chat_message[i]))
                             /\ ~Same(MessageOf(a), MessageOf(chat_message[i]))
    <3>1. ~Same(MessageOf(q), MessageOf(a)) /\ ~Same(MessageOf(a), MessageOf(q))
      BY <2>2 DEF Same, Question, Answer
    <3>2. \A i \in 1..len : MessageOf(chat_message[i]).job # job
      BY <1>4, <2>5, MessageFields
    <3>3. MessageOf(q).job = job /\ MessageOf(a).job = job
      BY <2>3, MessageFields
    <3> QED BY <3>1, <3>2, <3>3 DEF Same
  <2>9. RowsOnce'
    <3> SUFFICES ASSUME NEW i \in DOMAIN chat_message', NEW j \in DOMAIN chat_message',
                        Same(MessageOf(chat_message'[i]), MessageOf(chat_message'[j]))
                 PROVE  i = j
      BY Zenon DEF RowsOnce
    <3>1. CASE i \in 1..len /\ j \in 1..len
      BY <2>5, <3>1 DEF TableInv, RowsOnce
    <3>2. CASE i \in 1..len /\ j \notin 1..len
      BY <2>5, <2>6, <2>8, <3>2
    <3>3. CASE i \notin 1..len /\ j \in 1..len
      BY <2>5, <2>6, <2>8, <3>3
    <3>4. CASE i \notin 1..len /\ j \notin 1..len
      BY <2>5, <2>6, <2>8, <3>4
    <3> QED BY <3>1, <3>2, <3>3, <3>4
  <2>10. LegacyTimes'
    <3>1. \A i \in DOMAIN chat_message' : chat_message'[i].job = NoJob =>
             i \in DOMAIN chat_message /\ chat_message'[i] = chat_message[i]
      BY <1>2, <2>3, <2>5, <2>6
    <3> QED BY <1>1, <3>1 DEF TableInv, LegacyTimes
  <2>11. ASSUME NEW h \in Helpers, NEW m, HasRow(h, m) PROVE HasRow(h, m)'
    <3>1. PICK i \in DOMAIN chat_message :
             chat_message[i].helper = h /\ MessageOf(chat_message[i]) = m
      BY <2>11 DEF HasRow
    <3>2. i \in DOMAIN chat_message' /\ chat_message'[i] = chat_message[i]
      BY <2>5
    <3> QED BY <3>1, <3>2 DEF HasRow
  <2>12. HasRow(helper, Question(job, ts))' /\ HasRow(helper, Answer(job, ts))'
    <3>1. len + 1 \in DOMAIN chat_message' /\ len + 2 \in DOMAIN chat_message'
      BY <2>5
    <3>2. /\ chat_message'[len + 1].helper = helper
          /\ MessageOf(chat_message'[len + 1]) = Question(job, ts)
          /\ chat_message'[len + 2].helper = helper
          /\ MessageOf(chat_message'[len + 2]) = Answer(job, ts)
      BY <2>2, <2>3, <2>5
    <3>3. HasRow(helper, Question(job, ts))'
      BY <3>1, <3>2 DEF HasRow
    <3>4. HasRow(helper, Answer(job, ts))'
      BY <3>1, <3>2 DEF HasRow
    <3> QED BY <3>3, <3>4
  <2>13. StoredHasRows'
    <3> SUFFICES ASSUME NEW h \in Helpers, NEW n \in DOMAIN log[h],
                        log[h][n].job \in stored' \cup {NoJob}
                 PROVE  HasRow(h, log[h][n])'
      BY <1>1 DEF StoredHasRows
    <3>1. CASE log[h][n].job = job
      <4>1. h = helper /\ (log[h][n] = Question(job, ts) \/ log[h][n] = Answer(job, ts))
        BY <2>1, <3>1
      <4> QED BY <1>1, <2>12, <4>1
    <3>2. CASE log[h][n].job # job
      <4>1. HasRow(h, log[h][n])
        BY <1>1, <3>2 DEF TableInv, StoredHasRows
      <4>2. PICK m : m = log[h][n]
        OBVIOUS
      <4>3. HasRow(h, m)'
        BY <2>11, <4>1, <4>2
      <4> QED BY <1>1, <4>2, <4>3
    <3> QED BY <3>1, <3>2
  <2>14. RowsStored'
    BY <1>1, <2>3, <2>5, <2>6 DEF TableInv, RowsStored
  <2> QED BY <2>7, <2>9, <2>10, <2>13, <2>14 DEF TableInv
<1> QED BY <1>3, <1>4

LEMMA NextTable ==
    ASSUME Base, Inv, TableInv, [Next]_vars
    PROVE  TableInv'
<1>1. CASE \E t \in Threads, job \in Jobs, ts \in 0..(MaxTime - 1) : Files(t, job, ts)
  BY <1>1, FilesTable
<1>2. CASE \E job \in Jobs : Persist(job)
  BY <1>2, PersistTable
<1>3. CASE UNCHANGED <<chat_message, log, stored, incomplete>>
  BY <1>3 DEF TableInv, RowsLogged, RowsOnce, LegacyTimes, StoredHasRows, RowsStored, HasRow
<1>4. CASE Restore
  <2>1. /\ UNCHANGED <<chat_message, log, stored>> /\ chat_message \in Seq(Row)
        /\ incomplete' = [helper \in Helpers |-> incomplete[helper] \/ Lacks(helper)]
    BY <1>4 DEF Restore, queueState, Base, TypeOK
  <2>2. \A i \in DOMAIN chat_message : chat_message[i].helper \in Helpers
    BY <2>1, RowTypes
  <2>3. LegacyTimes'
    BY <2>1, <2>2 DEF TableInv, LegacyTimes
  <2> QED BY <2>1, <2>3 DEF TableInv, RowsLogged, RowsOnce, StoredHasRows, RowsStored, HasRow
<1>5. CASE \E t \in Threads : Turns(t) \/ Enrols(t)
  <2>1. UNCHANGED <<chat_message, log, stored, incomplete>>
    BY <1>5 DEF Turns, Enrols, Still
  <2> QED BY <1>3, <2>1
<1>6. CASE ProcessEnds
  <2>1. UNCHANGED <<chat_message, log, stored, incomplete>>
    BY <1>6 DEF ProcessEnds, LoseOutbox
  <2> QED BY <1>3, <2>1
<1>7. CASE Still /\ UNCHANGED <<thread, chat_message, stored>>
  BY <1>3, <1>7 DEF Still
<1> QED BY <1>1, <1>2, <1>4, <1>5, <1>6, <1>7, StepKinds

\* The table has each stored exchange once, with its own user and chat, and nothing
\* that was not accepted, however often a delivery is stored (ON DUPLICATE KEY).
THEOREM TableInvCorrect == Spec => []TableInv
<1>1. Init => TableInv
  BY InitTable
<1>2. Base /\ Inv /\ TableInv /\ [Next]_vars => TableInv'
  BY NextTable
<1> QED BY <1>1, <1>2, BaseCorrect, InvCorrect, PTL DEF Spec

-----------------------------------------------------------------------------
(* What a restore makes of the table *)

\* A history consists of its chat's rows, each once, in the order of their times;
\* `at` says which row each message was.
ComesFrom(history, helper, at) ==
    /\ at \in [1..Len(history) -> DOMAIN chat_message]
    /\ \A k \in 1..Len(history) : /\ chat_message[at[k]].helper = helper
                                  /\ history[k] = MessageOf(chat_message[at[k]])
    /\ \A k, l \in 1..Len(history) : at[k] = at[l] => k = l
    /\ \A k, l \in 1..Len(history) : k < l => chat_message[at[k]].ts <= chat_message[at[l]].ts
    /\ \A i \in DOMAIN chat_message : chat_message[i].helper = helper =>
          \E k \in 1..Len(history) : at[k] = i

\* The query returns every row, each once, in the order of their times.
LEMMA OrdersAre ==
    ASSUME TypeOK, NEW order \in Orders
    PROVE  /\ \A m, n \in DOMAIN chat_message : order[m] = order[n] => m = n
           /\ \A i \in DOMAIN chat_message : \E n \in DOMAIN chat_message : order[n] = i
           /\ \A m, n \in DOMAIN chat_message :
                 m < n => chat_message[order[m]].ts <= chat_message[order[n]].ts
<1> DEFINE N == Len(chat_message)
<1>1. N \in Nat /\ DOMAIN chat_message = 1..N /\ order \in [1..N -> 1..N]
  BY ResultType
<1>2. \A m, n \in 1..N : m < n => order[m] # order[n] /\ Precedes(order[m], order[n])
  BY <1>1 DEF Orders
<1> HIDE DEF N
<1>3. \A m, n \in 1..N : order[m] = order[n] => m = n
  BY <1>1, <1>2
<1>4. order \in Injection(1..N, 1..N)
  BY <1>1, <1>3 DEF Injection, IsInjective
<1>5. IsFiniteSet(1..N)
  BY <1>1, FS_Interval
<1>6. order \in Surjection(1..N, 1..N)
  BY <1>4, <1>5, FS_Injection
<1>7. \A i \in 1..N : \E n \in 1..N : order[n] = i
  BY <1>6 DEF Surjection
<1>8. \A m, n \in 1..N : m < n => chat_message[order[m]].ts <= chat_message[order[n]].ts
  BY <1>2 DEF Precedes
<1> QED BY <1>1, <1>3, <1>7, <1>8

LEMMA RestoredFrom ==
    ASSUME TypeOK, Restore, NEW helper \in Helpers
    PROVE  \E at : ComesFrom(messages'[helper], helper, at)
<1>1. PICK order \in Orders : messages' = ReadRows(ResultRows(order)).histories
  BY RestoreReads
<1> DEFINE N == Len(chat_message)
           rows == ResultRows(order)
           history == messages'[helper]
<1>2. /\ rows \in Seq(Row) /\ Len(rows) = N /\ N \in Nat /\ DOMAIN chat_message = 1..N
      /\ order \in [1..N -> 1..N] /\ \A n \in 1..N : rows[n] = chat_message[order[n]]
  BY ResultType
<1>3. HistoriesRead(ReadRows(rows), rows, N)
  BY <1>2, RowsAreRead
<1>4. PICK sel : Selects(sel, history, rows, N, helper)
  BY <1>1, <1>3 DEF HistoriesRead
<1>5. /\ \A m, n \in 1..N : order[m] = order[n] => m = n
      /\ \A i \in 1..N : \E n \in 1..N : order[n] = i
      /\ \A m, n \in 1..N : m < n => chat_message[order[m]].ts <= chat_message[order[n]].ts
  <2>1. /\ \A m, n \in DOMAIN chat_message : order[m] = order[n] => m = n
        /\ \A i \in DOMAIN chat_message : \E n \in DOMAIN chat_message : order[n] = i
        /\ \A m, n \in DOMAIN chat_message :
              m < n => chat_message[order[m]].ts <= chat_message[order[n]].ts
    BY OrdersAre
  <2> HIDE DEF N
  <2> QED BY <1>2, <2>1, Zenon
<1>6. history \in Seq(Message) /\ Len(history) \in Nat
  BY <1>1, <1>3 DEF HistoriesRead
<1> HIDE DEF N, rows, history
<1> DEFINE at == [k \in 1..Len(history) |-> order[sel[k]]]
<1>7. \A k \in 1..Len(history) : /\ sel[k] \in 1..N /\ at[k] = order[sel[k]] /\ at[k] \in 1..N
                                 /\ rows[sel[k]] = chat_message[at[k]]
  BY <1>2, <1>4 DEF Selects
<1>8. at \in [1..Len(history) -> DOMAIN chat_message]
  BY <1>2, <1>7
<1> HIDE DEF at
<1>9. \A k \in 1..Len(history) : /\ chat_message[at[k]].helper = helper
                                 /\ history[k] = MessageOf(chat_message[at[k]])
  BY <1>4, <1>7 DEF Selects
<1>10. \A k, l \in 1..Len(history) : k < l => sel[k] < sel[l]
  BY <1>4 DEF Selects
<1>11. ASSUME NEW k \in 1..Len(history), NEW l \in 1..Len(history), at[k] = at[l] PROVE k = l
  <2>1. sel[k] \in 1..N /\ sel[l] \in 1..N /\ order[sel[k]] = order[sel[l]]
    BY <1>7, <1>11
  <2>2. sel[k] = sel[l]
    BY <1>5, <2>1
  <2>3. ~(sel[k] < sel[l]) /\ ~(sel[l] < sel[k])
    BY <1>2, <2>1, <2>2
  <2>4. ~(k < l) /\ ~(l < k)
    BY <1>10, <2>3
  <2> QED BY <1>6, <2>4
<1>12. ASSUME NEW k \in 1..Len(history), NEW l \in 1..Len(history), k < l
       PROVE  chat_message[at[k]].ts <= chat_message[at[l]].ts
  <2>1. sel[k] \in 1..N /\ sel[l] \in 1..N /\ sel[k] < sel[l]
    BY <1>7, <1>10, <1>12
  <2>2. chat_message[order[sel[k]]].ts <= chat_message[order[sel[l]]].ts
    BY <1>5, <2>1
  <2>3. at[k] = order[sel[k]] /\ at[l] = order[sel[l]]
    BY <1>7
  <2> QED BY <2>2, <2>3
<1>13. ASSUME NEW i \in DOMAIN chat_message, chat_message[i].helper = helper
       PROVE  \E k \in 1..Len(history) : at[k] = i
  <2>1. PICK n \in 1..N : order[n] = i
    BY <1>2, <1>5
  <2>2. rows[n].helper = helper
    BY <1>2, <1>13, <2>1
  <2>3. PICK k \in 1..Len(history) : sel[k] = n
    BY <1>4, <2>2 DEF Selects
  <2> QED BY <1>7, <2>1, <2>3
<1>14. ComesFrom(history, helper, at)
  BY <1>8, <1>9, <1>11, <1>12, <1>13 DEF ComesFrom
<1> QED BY <1>14 DEF history

-----------------------------------------------------------------------------
(* Histories in memory *)

\* A history has only messages of its chat's log, no exchange twice, and no half of one.
Known == \A helper \in Helpers : \A i \in DOMAIN messages[helper] : Has(log[helper], messages[helper][i])

Once ==
    \A helper \in Helpers : \A i, j \in DOMAIN messages[helper] :
        Same(messages[helper][i], messages[helper][j]) => i = j

Halves(m, n) == m.job = n.job /\ m.isUser # n.isUser

HasHalf(history, m) == \E j \in DOMAIN history : Halves(m, history[j])

NoHalf ==
    \A helper \in Helpers : \A i \in DOMAIN messages[helper] :
        messages[helper][i].job # NoJob => HasHalf(messages[helper], messages[helper][i])

HasJob(history, job) == \E i \in DOMAIN history : history[i].job = job

\* An exchange that was accepted and is not in memory yet.
Swapping ==
    \A t \in Threads : thread[t].pc = "swap" =>
        /\ Has(log[thread[t].on.helper], Question(thread[t].job, thread[t].ts))
        /\ Has(log[thread[t].on.helper], Answer(thread[t].job, thread[t].ts))
        /\ ~HasJob(messages[thread[t].on.helper], thread[t].job)

\* What the clients were told.
Told ==
    \A t \in Threads : thread[t].pc = "done" =>
        /\ thread[t].ok => HasJob(messages[thread[t].on.owner], thread[t].job)
        /\ ~thread[t].ok => ~Filed(thread[t].job)

MemoryInv == Known /\ Once /\ NoHalf /\ Swapping /\ Told

LEMMA InitMemory == Init => MemoryInv
<1> SUFFICES ASSUME Init PROVE MemoryInv
  OBVIOUS
<1>1. \A t \in Threads : thread[t].pc = "idle"
  BY DEF Init, Idle
<1>2. \A helper \in Helpers : messages[helper] = <<>> /\ DOMAIN messages[helper] = {}
  BY DEF Init
<1> QED BY <1>1, <1>2 DEF MemoryInv, Known, Once, NoHalf, Swapping, Told

LEMMA TurnsMemory ==
    ASSUME MemoryInv, NEW t \in Threads, Turns(t)
    PROVE  MemoryInv'
<1>1. /\ UNCHANGED <<messages, log>> /\ \A u \in Threads \ {t} : thread'[u] = thread[u]
      /\ thread'[t].pc # "swap"
      /\ thread'[t].pc = "done" => ~thread'[t].ok /\ Fresh(thread'[t].job)
  BY DEF Turns, Still
<1>2. Known' /\ Once' /\ NoHalf'
  BY <1>1 DEF MemoryInv, Known, Once, NoHalf
<1>3. Swapping'
  BY <1>1 DEF MemoryInv, Swapping
<1>4. ASSUME NEW job, Fresh(job) PROVE ~Filed(job)
  BY <1>4 DEF Fresh, Filed
<1>5. \A job : Filed(job)' <=> Filed(job)
  BY <1>1 DEF Filed
<1>6. ASSUME NEW u \in Threads, thread'[u].pc = "done"
      PROVE  /\ thread'[u].ok => HasJob(messages'[thread'[u].on.owner], thread'[u].job)
             /\ ~thread'[u].ok => ~(Filed(thread[u].job)')
  <2>1. CASE u = t
    <3>1. ~thread'[u].ok /\ ~Filed(thread'[u].job)
      BY <1>1, <1>4, <1>6, <2>1
    <3>2. PICK job : job = thread'[u].job
      OBVIOUS
    <3>3. ~Filed(job)'
      BY <1>5, <3>1, <3>2
    <3> QED BY <3>1, <3>2, <3>3
  <2>2. CASE u # t
    <3>1. thread'[u] = thread[u]
      BY <1>1, <2>2
    <3>2. PICK job : job = thread[u].job
      OBVIOUS
    <3>3. ~thread[u].ok => ~Filed(job)'
      BY <1>5, <1>6, <3>1, <3>2 DEF MemoryInv, Told
    <3>4. thread[u].ok => HasJob(messages'[thread[u].on.owner], thread[u].job)
      BY <1>1, <1>6, <3>1 DEF MemoryInv, Told
    <3> QED BY <3>1, <3>2, <3>3, <3>4
  <2> QED BY <2>1, <2>2
<1>7. Told'
  BY <1>6 DEF Told
<1> QED BY <1>2, <1>3, <1>7 DEF MemoryInv

LEMMA FilesMemory ==
    ASSUME Base, Inv, MemoryInv, NEW t \in Threads, NEW job \in Jobs, NEW ts \in 0..(MaxTime - 1),
           Files(t, job, ts)
    PROVE  MemoryInv'
<1> DEFINE helper == thread[t].on.helper
           len == Len(log[helper])
<1>0. TypeOK /\ LogInv /\ messages \in [Helpers -> Seq(Message)]
  BY DEF Base, TypeOK
<1>1. /\ messages' = messages /\ \A u \in Threads \ {t} : thread'[u] = thread[u]
      /\ thread'[t].pc = "swap" /\ thread'[t].on.helper = helper /\ thread'[t].job = job
      /\ thread'[t].ts = ts /\ helper \in Helpers /\ Fresh(job)
  BY DEF Files
<1>2. \A h \in Helpers : \A m : Has(log[h], m) => Has(log'[h], m)
  BY FilesGrow
<1>3. Has(log'[helper], Question(job, ts)) /\ Has(log'[helper], Answer(job, ts))
  <2>1. /\ len \in Nat /\ DOMAIN log'[helper] = 1..(len + 2)
        /\ log'[helper][len + 1] = Question(job, ts) /\ log'[helper][len + 2] = Answer(job, ts)
    BY FilesGrow
  <2> HIDE DEF len, helper
  <2>2. len + 1 \in DOMAIN log'[helper] /\ len + 2 \in DOMAIN log'[helper]
    BY <2>1
  <2> QED BY <2>1, <2>2, Zenon DEF Has
<1>4. Known'
  BY <1>1, <1>2 DEF MemoryInv, Known
<1>5. Once' /\ NoHalf'
  BY <1>1 DEF MemoryInv, Once, NoHalf
<1>6. \A u \in Threads : thread[u].pc \in {"swap", "done"} => thread[u].job # job
  BY <1>1 DEF Fresh
<1>7. ~HasJob(messages[helper], job)
  <2> SUFFICES ASSUME NEW i \in DOMAIN messages[helper], messages[helper][i].job = job PROVE FALSE
    BY DEF HasJob
  <2>1. PICK n \in DOMAIN log[helper] : log[helper][n] = messages[helper][i]
    BY <1>1 DEF MemoryInv, Known, Has
  <2> QED BY <1>1, <2>1 DEF Fresh
<1>8. \A u \in Threads : thread[u].pc = "swap" => thread[u].on.helper \in Helpers
  BY DEF Inv, InContext
<1>9. Swapping'
  <2> SUFFICES ASSUME NEW u \in Threads, thread'[u].pc = "swap"
               PROVE  /\ Has(log'[thread'[u].on.helper], Question(thread'[u].job, thread'[u].ts))
                      /\ Has(log'[thread'[u].on.helper], Answer(thread'[u].job, thread'[u].ts))
                      /\ ~HasJob(messages'[thread'[u].on.helper], thread'[u].job)
    BY DEF Swapping
  <2>1. CASE u = t
    BY <1>1, <1>3, <1>7, <2>1
  <2>2. CASE u # t
    BY <1>1, <1>2, <1>8, <2>2 DEF MemoryInv, Swapping
  <2> QED BY <2>1, <2>2
<1>10. ASSUME NEW j, Filed(j)' PROVE Filed(j) \/ j = job
  <2>1. PICK h \in Helpers : \E n \in DOMAIN log'[h] : log'[h][n].job = j
    BY <1>10 DEF Filed
  <2>2. PICK n \in DOMAIN log'[h] : log'[h][n].job = j
    BY <2>1
  <2>3. CASE h = helper
    <3>1. /\ DOMAIN log[helper] = 1..len
          /\ \A k \in 1..len : log'[helper][k] = log[helper][k]
          /\ log'[helper][len + 1] = Question(job, ts) /\ log'[helper][len + 2] = Answer(job, ts)
          /\ \A k \in DOMAIN log'[helper] : k \in 1..len \/ k = len + 1 \/ k = len + 2
      BY FilesGrow
    <3>2. Question(job, ts).job = job /\ Answer(job, ts).job = job
      BY DEF Question, Answer
    <3> HIDE DEF len, helper
    <3>3. CASE n \in 1..len
      BY <2>2, <2>3, <3>1, <3>3 DEF Filed
    <3>4. CASE n \notin 1..len
      BY <2>2, <2>3, <3>1, <3>2, <3>4
    <3> QED BY <3>3, <3>4
  <2>4. CASE h # helper
    <3>1. log'[h] = log[h]
      BY <2>4, FilesGrow
    <3> QED BY <2>2, <3>1 DEF Filed
  <2> QED BY <2>3, <2>4
<1>11. Told'
  <2> SUFFICES ASSUME NEW u \in Threads, thread'[u].pc = "done"
               PROVE  /\ thread'[u].ok => HasJob(messages'[thread'[u].on.owner], thread'[u].job)
                      /\ ~thread'[u].ok => ~(Filed(thread[u].job)')
    BY DEF Told
  <2>1. thread'[u] = thread[u] /\ thread[u].job # job
    BY <1>1, <1>6
  <2>2. thread[u].ok => HasJob(messages'[thread[u].on.owner], thread[u].job)
    BY <1>1, <2>1 DEF MemoryInv, Told
  <2>3. PICK j : j = thread[u].job
    OBVIOUS
  <2>4. ~thread[u].ok => ~Filed(j)
    BY <2>1, <2>3 DEF MemoryInv, Told
  <2>5. ~thread[u].ok => ~Filed(j)'
    BY <1>10, <2>1, <2>3, <2>4
  <2> QED BY <2>1, <2>2, <2>3, <2>5
<1> QED BY <1>4, <1>5, <1>9, <1>11 DEF MemoryInv

LEMMA EnrolsMemory ==
    ASSUME Base, Inv, MemoryInv, NEW t \in Threads, Enrols(t)
    PROVE  MemoryInv'
<1> DEFINE helper == thread[t].on.helper
           job == thread[t].job
           ts == thread[t].ts
           q == Question(job, ts)
           a == Answer(job, ts)
           len == Len(messages[helper])
<1>0. messages \in [Helpers -> Seq(Message)] /\ thread \in [Threads -> Places]
  BY DEF Base, TypeOK
<1>1. /\ log' = log /\ \A u \in Threads \ {t} : thread'[u] = thread[u]
      /\ thread[t].pc = "swap" /\ helper \in Helpers /\ job \in Jobs /\ ts \in 0..(MaxTime - 1)
      /\ messages' = [messages EXCEPT ![helper] = @ \o Exchange(job, ts)]
      /\ thread'[t].pc = "done" /\ thread'[t].on.owner = helper /\ thread'[t].job = job /\ thread'[t].ok
  BY DEF Enrols
<1>2. Has(log[helper], q) /\ Has(log[helper], a) /\ ~HasJob(messages[helper], job)
  BY <1>1 DEF MemoryInv, Swapping
<1>3. \A u \in Threads \ {t} : thread[u].pc = "swap" =>
          thread[u].on.helper \in Helpers /\ thread[u].on.helper # helper
  BY <1>1, OneHolder DEF Inv, InContext
<1>4. /\ q.job = job /\ a.job = job /\ ~Same(q, a) /\ ~Same(a, q) /\ Halves(q, a) /\ Halves(a, q)
  BY DEF Question, Answer, Same, Halves
<1> HIDE DEF helper, job, ts
<1>5. /\ messages'[helper] = messages[helper] \o Exchange(job, ts)
      /\ messages[helper] \in Seq(Message)
      /\ \A h \in Helpers \ {helper} : messages'[h] = messages[h]
  BY <1>0, <1>1
<1>6. /\ len \in Nat /\ DOMAIN messages[helper] = 1..len /\ DOMAIN messages'[helper] = 1..(len + 2)
      /\ \A n \in 1..len : messages'[helper][n] = messages[helper][n]
      /\ messages'[helper][len + 1] = q /\ messages'[helper][len + 2] = a
      /\ \A n \in DOMAIN messages'[helper] : n \in 1..len \/ n = len + 1 \/ n = len + 2
  BY <1>1, <1>5, Appended
<1> HIDE DEF q, a, len
<1>7. Known'
  <2> SUFFICES ASSUME NEW h \in Helpers, NEW i \in DOMAIN messages'[h]
               PROVE  Has(log[h], messages'[h][i])
    BY <1>1 DEF Known
  <2>1. CASE h = helper /\ i \in 1..len
    BY <1>6, <2>1 DEF MemoryInv, Known
  <2>2. CASE h = helper /\ i \notin 1..len
    BY <1>2, <1>6, <2>2
  <2>3. CASE h # helper
    BY <1>5, <2>3 DEF MemoryInv, Known
  <2> QED BY <2>1, <2>2, <2>3
<1>8. \A i \in 1..len : messages[helper][i].job # job
  BY <1>2, <1>6 DEF HasJob
<1>9. Once'
  <2> SUFFICES ASSUME NEW h \in Helpers, NEW i \in DOMAIN messages'[h], NEW j \in DOMAIN messages'[h],
                      Same(messages'[h][i], messages'[h][j])
               PROVE  i = j
    BY Zenon DEF Once
  <2>1. CASE h # helper
    BY <1>5, <2>1 DEF MemoryInv, Once
  <2>2. CASE h = helper /\ i \in 1..len /\ j \in 1..len
    BY <1>6, <2>2 DEF MemoryInv, Once
  <2>3. CASE h = helper /\ i \in 1..len /\ j \notin 1..len
    <3>1. messages'[h][i].job # job /\ messages'[h][j].job = job
      BY <1>4, <1>6, <1>8, <2>3
    <3> QED BY <3>1 DEF Same
  <2>4. CASE h = helper /\ i \notin 1..len /\ j \in 1..len
    <3>1. messages'[h][j].job # job /\ messages'[h][i].job = job
      BY <1>4, <1>6, <1>8, <2>4
    <3> QED BY <3>1 DEF Same
  <2>5. CASE h = helper /\ i \notin 1..len /\ j \notin 1..len
    BY <1>4, <1>6, <2>5
  <2> QED BY <2>1, <2>2, <2>3, <2>4, <2>5
<1>10. NoHalf'
  <2> SUFFICES ASSUME NEW h \in Helpers, NEW i \in DOMAIN messages'[h], messages'[h][i].job # NoJob
               PROVE  HasHalf(messages'[h], messages'[h][i])
    BY DEF NoHalf
  <2>1. CASE h # helper
    BY <1>5, <2>1 DEF MemoryInv, NoHalf
  <2>2. CASE h = helper /\ i \in 1..len
    <3>1. messages'[h][i] = messages[h][i] /\ i \in DOMAIN messages[h]
      BY <1>6, <2>2
    <3>2. PICK j \in DOMAIN messages[h] : Halves(messages[h][i], messages[h][j])
      BY <3>1 DEF MemoryInv, NoHalf, HasHalf
    <3>3. j \in 1..len
      BY <1>6, <2>2
    <3>4. j \in DOMAIN messages'[h] /\ messages'[h][j] = messages[h][j]
      BY <1>6, <2>2, <3>3
    <3> QED BY <3>1, <3>2, <3>4 DEF HasHalf
  <2>3. CASE h = helper /\ i \notin 1..len
    <3>1. len + 1 \in DOMAIN messages'[h] /\ len + 2 \in DOMAIN messages'[h]
      BY <1>6, <2>3
    <3>2. \/ i = len + 1 /\ Halves(messages'[h][i], messages'[h][len + 2])
          \/ i = len + 2 /\ Halves(messages'[h][i], messages'[h][len + 1])
      BY <1>4, <1>6, <2>3
    <3> QED BY <3>1, <3>2 DEF HasHalf
  <2> QED BY <2>1, <2>2, <2>3
<1>11. Swapping'
  <2> SUFFICES ASSUME NEW u \in Threads, thread'[u].pc = "swap"
               PROVE  /\ Has(log'[thread'[u].on.helper], Question(thread'[u].job, thread'[u].ts))
                      /\ Has(log'[thread'[u].on.helper], Answer(thread'[u].job, thread'[u].ts))
                      /\ ~HasJob(messages'[thread'[u].on.helper], thread'[u].job)
    BY DEF Swapping
  <2>1. u # t /\ thread'[u] = thread[u]
    BY <1>1
  <2>2. messages'[thread[u].on.helper] = messages[thread[u].on.helper]
    BY <1>3, <1>5, <2>1
  <2> QED BY <1>1, <2>1, <2>2 DEF MemoryInv, Swapping
<1>12. ASSUME NEW h \in Helpers, NEW x, HasJob(messages[h], x) PROVE HasJob(messages'[h], x)
  <2>1. CASE h # helper
    BY <1>5, <1>12, <2>1
  <2>2. CASE h = helper
    <3>1. PICK i \in DOMAIN messages[h] : messages[h][i].job = x
      BY <1>12 DEF HasJob
    <3>2. i \in DOMAIN messages'[h] /\ messages'[h][i] = messages[h][i]
      BY <1>6, <2>2
    <3> QED BY <3>1, <3>2 DEF HasJob
  <2> QED BY <2>1, <2>2
<1>13. HasJob(messages'[helper], job)
  <2>1. len + 1 \in DOMAIN messages'[helper] /\ messages'[helper][len + 1].job = job
    BY <1>4, <1>6
  <2> QED BY <2>1 DEF HasJob
<1>14. Told'
  <2> SUFFICES ASSUME NEW u \in Threads, thread'[u].pc = "done"
               PROVE  /\ thread'[u].ok => HasJob(messages'[thread'[u].on.owner], thread'[u].job)
                      /\ ~thread'[u].ok => ~(Filed(thread[u].job)')
    BY DEF Told
  <2>1. CASE u = t
    BY <1>1, <1>13, <2>1
  <2>2. CASE u # t
    <3>1. thread'[u] = thread[u] /\ thread[u] \in Places
      BY <1>0, <1>1, <2>2
    <3>2. thread[u].on.owner \in Helpers
      BY <3>1, PlaceTypes
    <3>3. thread[u].ok => HasJob(messages'[thread[u].on.owner], thread[u].job)
      BY <1>12, <3>1, <3>2 DEF MemoryInv, Told
    <3>4. PICK j : j = thread[u].job
      OBVIOUS
    <3>5. ~thread[u].ok => ~Filed(j)'
      BY <1>1, <3>1, <3>4 DEF MemoryInv, Told, Filed
    <3> QED BY <3>1, <3>3, <3>4, <3>5
  <2> QED BY <2>1, <2>2
<1> QED BY <1>7, <1>9, <1>10, <1>11, <1>14 DEF MemoryInv

LEMMA RestoreMemory ==
    ASSUME Base, Base', Inv, TableInv, MemoryInv, Restore
    PROVE  MemoryInv'
<1>0. TypeOK /\ LogInv /\ messages' \in [Helpers -> Seq(Message)] /\ log' = log /\ chat_message \in Seq(Row)
  BY DEF Base, TypeOK, Restore
<1>1. \A t \in Threads : thread'[t].pc = "idle"
  BY DEF Restore, Inv, Stopped, Idle
<1>2. Swapping' /\ Told'
  BY <1>1 DEF Swapping, Told
<1>3. ASSUME NEW helper \in Helpers
      PROVE  /\ \A i \in DOMAIN messages'[helper] : Has(log[helper], messages'[helper][i])
             /\ \A i, j \in DOMAIN messages'[helper] :
                   Same(messages'[helper][i], messages'[helper][j]) => i = j
             /\ \A i \in DOMAIN messages'[helper] : messages'[helper][i].job # NoJob =>
                   HasHalf(messages'[helper], messages'[helper][i])
  <2> DEFINE history == messages'[helper]
  <2>1. PICK at : ComesFrom(history, helper, at)
    BY <1>0, RestoredFrom
  <2>2. DOMAIN history = 1..Len(history) /\ history \in Seq(Message)
    BY <1>0
  <2> HIDE DEF history
  <2>3. \A i \in DOMAIN history : /\ at[i] \in DOMAIN chat_message
                                  /\ chat_message[at[i]].helper = helper
                                  /\ history[i] = MessageOf(chat_message[at[i]])
    BY <2>1, <2>2 DEF ComesFrom
  <2>4. \A i \in DOMAIN history : Has(log[helper], history[i])
    BY <2>3 DEF TableInv, RowsLogged
  <2>5. ASSUME NEW i \in DOMAIN history, NEW j \in DOMAIN history, Same(history[i], history[j])
        PROVE  i = j
    <3>1. Same(MessageOf(chat_message[at[i]]), MessageOf(chat_message[at[j]]))
      BY <2>3, <2>5
    <3>2. at[i] = at[j]
      BY <2>3, <3>1 DEF TableInv, RowsOnce
    <3> QED BY <2>1, <2>2, <3>2 DEF ComesFrom
  <2>6. ASSUME NEW i \in DOMAIN history, history[i].job # NoJob
        PROVE  HasHalf(history, history[i])
    <3> DEFINE job == history[i].job
    <3>1. PICK n \in DOMAIN log[helper] : log[helper][n] = history[i]
      BY <2>4 DEF Has
    <3>2. PICK ts \in 0..(MaxTime - 1) :
             Has(log[helper], Question(job, ts)) /\ Has(log[helper], Answer(job, ts))
      BY <1>0, <2>6, <3>1 DEF LogInv, Whole
    <3>3. chat_message[at[i]].job = job
      BY <2>3, MessageFields
    <3>4. job \in stored
      BY <2>3, <2>6, <3>3 DEF TableInv, RowsStored
    <3>5. ASSUME NEW m, Has(log[helper], m), m.job = job
          PROVE  \E k \in DOMAIN history : history[k] = m
      <4>1. PICK l \in DOMAIN log[helper] : log[helper][l] = m
        BY <3>5 DEF Has
      <4>2. HasRow(helper, m)
        BY <3>4, <3>5, <4>1 DEF TableInv, StoredHasRows
      <4>3. PICK r \in DOMAIN chat_message :
               chat_message[r].helper = helper /\ MessageOf(chat_message[r]) = m
        BY <4>2 DEF HasRow
      <4>4. PICK k \in 1..Len(history) : at[k] = r
        BY <2>1, <4>3 DEF ComesFrom
      <4> QED BY <2>2, <2>3, <4>3, <4>4
    <3>6. /\ Question(job, ts).job = job /\ Question(job, ts).isUser = TRUE
          /\ Answer(job, ts).job = job /\ Answer(job, ts).isUser = FALSE
      BY DEF Question, Answer
    <3> HIDE DEF job
    <3>7. PICK k \in DOMAIN history : history[k] = Question(job, ts)
      BY <3>2, <3>5, <3>6
    <3>8. PICK l \in DOMAIN history : history[l] = Answer(job, ts)
      BY <3>2, <3>5, <3>6
    <3>9. history[i].isUser \in BOOLEAN
      <4>1. history[i] \in Message
        BY <2>2
      <4> QED BY <4>1 DEF Message
    <3>10. CASE history[i].isUser = TRUE
      <4>1. Halves(history[i], history[l])
        BY <3>6, <3>8, <3>10 DEF Halves, job
      <4> QED BY <4>1 DEF HasHalf
    <3>11. CASE history[i].isUser = FALSE
      <4>1. Halves(history[i], history[k])
        BY <3>6, <3>7, <3>11 DEF Halves, job
      <4> QED BY <4>1 DEF HasHalf
    <3> QED BY <3>9, <3>10, <3>11
  <2> QED BY <2>4, <2>5, <2>6 DEF history
<1>4. Known'
  BY <1>0, <1>3 DEF Known
<1>5. Once' /\ NoHalf'
  BY <1>3 DEF Once, NoHalf
<1> QED BY <1>2, <1>4, <1>5 DEF MemoryInv

LEMMA NextMemory ==
    ASSUME Base, Base', Inv, TableInv, MemoryInv, [Next]_vars
    PROVE  MemoryInv'
<1>1. CASE (\E job \in Jobs : Persist(job)) \/ (Still /\ UNCHANGED <<thread, chat_message, stored>>)
  <2>1. UNCHANGED <<messages, log, thread>>
    BY <1>1 DEF Persist, Still, helperVars, ghostVars
  <2>2. Known' /\ Once' /\ NoHalf' /\ Swapping'
    BY <2>1 DEF MemoryInv, Known, Once, NoHalf, Swapping
  <2>3. Told'
    BY <2>1 DEF MemoryInv, Told, Filed
  <2> QED BY <2>2, <2>3 DEF MemoryInv
<1>2. CASE ProcessEnds
  <2>1. \A t \in Threads : thread'[t].pc = "idle"
    BY <1>2 DEF ProcessEnds, Idle
  <2>2. \A helper \in Helpers : messages'[helper] = <<>> /\ DOMAIN messages'[helper] = {}
    BY <1>2 DEF ProcessEnds
  <2> QED BY <2>1, <2>2 DEF MemoryInv, Known, Once, NoHalf, Swapping, Told
<1> QED BY <1>1, <1>2, TurnsMemory, FilesMemory, EnrolsMemory, RestoreMemory, StepKinds

\* Every history in memory is made of accepted exchanges of its own chat, whole and each
\* once, and the clients' replies agree with it.
THEOREM MemoryInvCorrect == Spec => []MemoryInv
<1>1. Init => MemoryInv
  BY InitMemory
<1>2. Base /\ Base' /\ Inv /\ TableInv /\ MemoryInv /\ [Next]_vars => MemoryInv'
  BY NextMemory
<1> QED BY <1>1, <1>2, BaseCorrect, InvCorrect, TableInvCorrect, PTL DEF Spec

\* A client that was answered finds its exchange in the history; one that was told of an
\* error does not, and nothing of it is queued, quarantined or stored (commitExchange
\* throws before memory changes, and publish has not taken what it refused).
THEOREM ReplyCorrect == Spec => []ReplyIsTrue
<1>1. Base /\ MemoryInv => ReplyIsTrue
  <2> SUFFICES ASSUME Base, MemoryInv, NEW t \in Threads, thread[t].pc = "done"
               PROVE  /\ (\E i \in DOMAIN messages[thread[t].on.owner] :
                             messages[thread[t].on.owner][i].job = thread[t].job) = thread[t].ok
                      /\ ~thread[t].ok => thread[t].job \notin outbox \cup Held
    BY DEF ReplyIsTrue
  <2> DEFINE owner == thread[t].on.owner
             job == thread[t].job
  <2>1. thread[t] \in Places
    BY DEF Base, TypeOK
  <2>2. owner \in Helpers /\ job \in Jobs /\ thread[t].ok \in BOOLEAN
    BY <2>1, PlaceTypes
  <2>3. ~thread[t].ok => ~Filed(job)
    BY DEF MemoryInv, Told
  <2>4. ~thread[t].ok => job \notin outbox \cup Held
    BY <2>2, <2>3 DEF Base, LogInv, QueuedIsFiled
  <2>5. thread[t].ok => \E i \in DOMAIN messages[owner] : messages[owner][i].job = job
    BY DEF MemoryInv, Told, HasJob
  <2>6. ASSUME NEW i \in DOMAIN messages[owner], messages[owner][i].job = job PROVE Filed(job)
    <3>1. PICK n \in DOMAIN log[owner] : log[owner][n] = messages[owner][i]
      BY <2>2 DEF MemoryInv, Known, Has
    <3> QED BY <2>2, <2>6, <3>1 DEF Filed
  <2>7. ~thread[t].ok => ~\E i \in DOMAIN messages[owner] : messages[owner][i].job = job
    BY <2>3, <2>6
  <2> QED BY <2>2, <2>4, <2>5, <2>7
<1> QED BY <1>1, BaseCorrect, MemoryInvCorrect, PTL

\* Whatever was lost, stored twice or restored with gaps, a shown history has only
\* accepted messages of this user's chat, no exchange twice and no half of one.
THEOREM GenuineCorrect == Spec => []HistoryIsGenuine
<1>1. MemoryInv => HistoryIsGenuine
  <2> SUFFICES ASSUME MemoryInv, NEW user \in Users, NEW chat \in Chats,
                      NEW history \in Shown(user, chat)
               PROVE  LET accepted == log[<<user, chat>>]
                      IN  /\ \A i \in DOMAIN history :
                                \E n \in DOMAIN accepted : history[i] = accepted[n]
                          /\ \A i, j \in DOMAIN history :
                                history[i] = history[j] /\ history[i].job # NoJob => i = j
                          /\ \A i \in DOMAIN history : history[i].job # NoJob =>
                                \E j \in DOMAIN history :
                                    /\ history[j].job = history[i].job
                                    /\ history[j].isUser # history[i].isUser
    BY DEF HistoryIsGenuine
  <2> DEFINE helper == <<user, chat>>
  <2>1. helper \in Helpers /\ history = messages[helper]
    BY DEF Helpers, Shown, Found
  <2> HIDE DEF helper
  <2>2. \A i \in DOMAIN history : \E n \in DOMAIN log[helper] : history[i] = log[helper][n]
    BY <2>1 DEF MemoryInv, Known, Has
  <2>3. \A i, j \in DOMAIN history : history[i] = history[j] /\ history[i].job # NoJob => i = j
    BY <2>1 DEF MemoryInv, Once, Same
  <2>4. ASSUME NEW i \in DOMAIN history, history[i].job # NoJob
        PROVE  \E j \in DOMAIN history : /\ history[j].job = history[i].job
                                         /\ history[j].isUser # history[i].isUser
    <3>1. PICK j \in DOMAIN history : Halves(history[i], history[j])
      BY <2>1, <2>4 DEF MemoryInv, NoHalf, HasHalf
    <3> QED BY <3>1 DEF Halves
  <2> QED BY <2>2, <2>3, <2>4 DEF helper
<1> QED BY <1>1, MemoryInvCorrect, PTL

-----------------------------------------------------------------------------
(* The order of a history *)

Increasing(history) ==
    \A i, j \in 1..Len(history) : i < j => history[i].ts < history[j].ts

\* The first place where two ordered histories of the same messages could differ.
LEMMA SortedPlace ==
    ASSUME NEW a \in Seq(Message), NEW b \in Seq(Message), Increasing(a), Increasing(b),
           \A i \in 1..Len(a) : Has(b, a[i]),
           NEW m \in 1..Len(a), \A k \in 1..(m - 1) : k \in 1..Len(b) /\ a[k] = b[k]
    PROVE  m \in 1..Len(b) /\ (a[m] = b[m] \/ b[m].ts < a[m].ts)
<1>1. Len(a) \in Nat /\ Len(b) \in Nat /\ DOMAIN b = 1..Len(b)
  OBVIOUS
<1>2. PICK j \in 1..Len(b) : b[j] = a[m]
  BY <1>1 DEF Has
<1>3. \A k \in 1..Len(a) : a[k].ts \in Nat
  <2> SUFFICES ASSUME NEW k \in 1..Len(a) PROVE a[k].ts \in Nat
    OBVIOUS
  <2>1. a[k] \in Message
    OBVIOUS
  <2> QED BY <2>1, TimeAssumption DEF Message
<1>4. ~(j < m)
  <2> SUFFICES ASSUME j < m PROVE FALSE
    OBVIOUS
  <2>1. j \in 1..(m - 1) /\ j \in 1..Len(a)
    BY <1>1
  <2>2. a[j] = a[m] /\ a[j].ts < a[m].ts
    BY <1>2, <2>1 DEF Increasing
  <2> QED BY <1>3, <2>1, <2>2
<1>5. m \in 1..Len(b)
  BY <1>1, <1>4
<1>6. CASE j = m
  BY <1>2, <1>5, <1>6
<1>7. CASE m < j
  BY <1>2, <1>5, <1>7 DEF Increasing
<1> QED BY <1>1, <1>4, <1>5, <1>6, <1>7

\* Two ordered histories with the same messages are the same.
LEMMA SortedEqual ==
    ASSUME NEW a \in Seq(Message), NEW b \in Seq(Message), Increasing(a), Increasing(b),
           \A i \in 1..Len(a) : Has(b, a[i]), \A i \in 1..Len(b) : Has(a, b[i])
    PROVE  a = b
<1> DEFINE Differ(m) == /\ m \in 1..Len(a) \/ m \in 1..Len(b)
                        /\ ~(m \in 1..Len(a) /\ m \in 1..Len(b) /\ a[m] = b[m])
           T == {m \in Nat : Differ(m)}
<1>1. Len(a) \in Nat /\ Len(b) \in Nat
  OBVIOUS
<1>2. CASE T = {}
  <2>1. Len(a) = Len(b)
    <3>1. CASE Len(a) < Len(b)
      <4>1. Len(b) \in Nat /\ Differ(Len(b))
        BY <1>1, <3>1
      <4> QED BY <1>2, <4>1
    <3>2. CASE Len(b) < Len(a)
      <4>1. Len(a) \in Nat /\ Differ(Len(a))
        BY <1>1, <3>2
      <4> QED BY <1>2, <4>1
    <3> QED BY <1>1, <3>1, <3>2
  <2>2. ASSUME NEW i \in 1..Len(a) PROVE a[i] = b[i]
    <3>1. i \in Nat /\ ~Differ(i)
      BY <1>1, <1>2
    <3> QED BY <2>1, <3>1
  <2> QED BY <2>1, <2>2
<1>3. CASE T # {}
  <2>1. PICK m \in T : \A n \in T : m <= n
    <3> HIDE DEF Differ
    <3> QED BY <1>3, LeastNumber
  <2>2. Differ(m) /\ m \in Nat
    BY <2>1
  <2>3. ASSUME NEW k \in 1..(m - 1) PROVE k \in 1..Len(a) /\ k \in 1..Len(b) /\ a[k] = b[k]
    <3>1. k \in Nat /\ k < m
      BY <2>2
    <3>2. ~Differ(k)
      <4> HIDE DEF Differ
      <4> QED BY <2>1, <2>2, <3>1
    <3>3. k \in 1..Len(a) \/ k \in 1..Len(b)
      BY <1>1, <2>2, <3>1
    <3> QED BY <3>2, <3>3
  <2>4. m \in 1..Len(a) => m \in 1..Len(b) /\ (a[m] = b[m] \/ b[m].ts < a[m].ts)
    <3> HIDE DEF T, Differ
    <3> QED BY <2>3, SortedPlace
  <2>5. m \in 1..Len(b) => m \in 1..Len(a) /\ (b[m] = a[m] \/ a[m].ts < b[m].ts)
    <3> HIDE DEF T, Differ
    <3> QED BY <2>3, SortedPlace
  <2>6. m \in 1..Len(a) /\ m \in 1..Len(b)
    BY <2>2, <2>4, <2>5
  <2>7. a[m].ts \in Nat /\ b[m].ts \in Nat
    <3>1. a[m] \in Message /\ b[m] \in Message
      BY <2>6
    <3> QED BY <3>1, TimeAssumption DEF Message
  <2>8. a[m] # b[m]
    BY <2>2, <2>6
  <2> QED BY <2>4, <2>5, <2>6, <2>7, <2>8
<1> QED BY <1>2, <1>3

LEMMA IncreasingGrows ==
    ASSUME NEW history \in Seq(Message), NEW job \in Jobs, NEW ts \in 0..(MaxTime - 1),
           Increasing(history), history # <<>> => LastTime(history) < ts
    PROVE  Increasing(history \o Exchange(job, ts))
<1> DEFINE longer == history \o Exchange(job, ts)
           len == Len(history)
<1>1. /\ len \in Nat /\ Len(longer) = len + 2 /\ DOMAIN longer = 1..(len + 2)
      /\ \A n \in 1..len : longer[n] = history[n]
      /\ longer[len + 1] = Question(job, ts) /\ longer[len + 2] = Answer(job, ts)
      /\ \A n \in DOMAIN longer : n \in 1..len \/ n = len + 1 \/ n = len + 2
  BY Appended
<1>2. Question(job, ts).ts = ts /\ Answer(job, ts).ts = ts + 1
  BY DEF Question, Answer
<1>3. \A n \in 1..len : history[n].ts \in Nat
  <2> SUFFICES ASSUME NEW n \in 1..len PROVE history[n].ts \in Nat
    OBVIOUS
  <2>1. history[n] \in Message
    OBVIOUS
  <2> QED BY <2>1, TimeAssumption DEF Message
<1>4. \A n \in 1..len : history[n].ts < ts
  <2> SUFFICES ASSUME NEW n \in 1..len PROVE history[n].ts < ts
    OBVIOUS
  <2>1. len \in 1..len /\ history[len].ts < ts
    BY <1>1 DEF LastTime
  <2>2. n = len \/ history[n].ts < history[len].ts
    BY <1>1, <2>1 DEF Increasing
  <2> QED BY <1>1, <1>3, <2>1, <2>2, TimeAssumption
<1>5. \A i, j \in 1..len : i < j => history[i].ts < history[j].ts
  BY DEF Increasing
<1> HIDE DEF longer, len
<1>6. ASSUME NEW i \in 1..(len + 2), NEW j \in 1..(len + 2), i < j
      PROVE  longer[i].ts < longer[j].ts
  <2>1. CASE j \in 1..len
    <3>1. i \in 1..len
      BY <1>1, <1>6, <2>1
    <3> QED BY <1>1, <1>5, <1>6, <2>1, <3>1
  <2>2. CASE j = len + 1
    <3>1. i \in 1..len
      BY <1>1, <1>6, <2>2
    <3> QED BY <1>1, <1>2, <1>4, <2>2, <3>1
  <2>3. CASE j = len + 2 /\ i = len + 1
    BY <1>1, <1>2, <2>3
  <2>4. CASE j = len + 2 /\ i # len + 1
    <3>1. i \in 1..len
      BY <1>1, <1>6, <2>4
    <3>2. longer[i].ts \in Nat /\ longer[i].ts < ts
      BY <1>1, <1>3, <1>4, <3>1
    <3> QED BY <1>1, <1>2, <2>4, <3>2, TimeAssumption
  <2> QED BY <1>1, <2>1, <2>2, <2>3, <2>4
<1>7. Increasing(longer)
  BY <1>1, <1>6 DEF Increasing
<1> QED BY <1>7 DEF longer

Swaps(t, helper) == thread[t].pc = "swap" /\ thread[t].on.helper = helper

\* The history is the log, or lacks the one exchange that is about to be swapped in.
InStep(helper) ==
    \/ messages[helper] = log[helper] /\ \A t \in Threads : ~Swaps(t, helper)
    \/ \E t \in Threads : /\ Swaps(t, helper)
                          /\ log[helper] = messages[helper]
                                              \o Exchange(thread[t].job, thread[t].ts)

\* A chat that never missed an exchange is in order, and its history is up to date.
OrderInv ==
    \A helper \in Helpers : ~incomplete[helper] =>
        Increasing(log[helper]) /\ (serving => InStep(helper))

LEMMA InitOrder == Init => OrderInv
<1> SUFFICES ASSUME Init, NEW helper \in Helpers, ~incomplete[helper]
             PROVE  Increasing(log[helper]) /\ (serving => InStep(helper))
  BY DEF OrderInv
<1>1. log \in [Helpers -> Seq(Message)] /\ ~serving
  BY InitBase DEF Base, TypeOK, Init
<1>2. \A i \in 1..Len(log[helper]) : log[helper][i].ts \in Nat
  <2> SUFFICES ASSUME NEW i \in 1..Len(log[helper]) PROVE log[helper][i].ts \in Nat
    OBVIOUS
  <2>1. log[helper][i] \in Message
    BY <1>1
  <2> QED BY <2>1, TimeAssumption DEF Message
<1>3. DOMAIN log[helper] = 1..Len(log[helper])
  BY <1>1
<1>4. ~\E i, j \in DOMAIN log[helper] : i < j /\ log[helper][i].ts >= log[helper][j].ts
  BY DEF Init
<1> QED BY <1>1, <1>2, <1>3, <1>4 DEF Increasing

LEMMA TurnsOrder ==
    ASSUME OrderInv, NEW t \in Threads, Turns(t)
    PROVE  OrderInv'
<1>1. /\ UNCHANGED <<serving, messages, log, incomplete>>
      /\ \A u \in Threads \ {t} : thread'[u] = thread[u]
      /\ thread[t].pc # "swap" /\ thread'[t].pc # "swap"
  BY DEF Turns, Still
<1>2. \A helper : \A u \in Threads : Swaps(u, helper)' = Swaps(u, helper)
  BY <1>1 DEF Swaps
<1>3. ASSUME NEW helper, InStep(helper) PROVE InStep(helper)'
  <2>1. CASE messages[helper] = log[helper] /\ \A u \in Threads : ~Swaps(u, helper)
    BY <1>1, <1>2, <2>1 DEF InStep
  <2>2. CASE \E u \in Threads : /\ Swaps(u, helper)
                                /\ log[helper] = messages[helper]
                                                    \o Exchange(thread[u].job, thread[u].ts)
    <3>1. PICK u \in Threads : /\ Swaps(u, helper)
                               /\ log[helper] = messages[helper]
                                                   \o Exchange(thread[u].job, thread[u].ts)
      BY <2>2
    <3>2. thread'[u] = thread[u]
      BY <1>1, <3>1 DEF Swaps
    <3> QED BY <1>1, <1>2, <3>1, <3>2 DEF InStep
  <2> QED BY <1>3, <2>1, <2>2 DEF InStep
<1> QED BY <1>1, <1>3 DEF OrderInv

LEMMA FilesOrder ==
    ASSUME Base, Inv, OrderInv, NEW t \in Threads, NEW job \in Jobs, NEW ts \in 0..(MaxTime - 1),
           Files(t, job, ts)
    PROVE  OrderInv'
<1>0. PICK helper : helper = thread[t].on.helper
  OBVIOUS
<1>1. /\ UNCHANGED <<serving, messages, incomplete>> /\ helper \in Helpers
      /\ thread[t].pc = "model"
      /\ messages[helper] # <<>> => LastTime(messages[helper]) < ts
      /\ \A u \in Threads \ {t} : thread'[u] = thread[u]
      /\ thread'[t].pc = "swap" /\ thread'[t].on = thread[t].on
      /\ thread'[t].job = job /\ thread'[t].ts = ts
      /\ log \in [Helpers -> Seq(Message)]
  BY <1>0 DEF Base, TypeOK, Files
<1>2. /\ log'[helper] = log[helper] \o Exchange(job, ts)
      /\ \A h \in Helpers \ {helper} : log'[h] = log[h]
  BY <1>0, FilesGrow
<1>3. serving
  BY <1>1 DEF Inv, Stopped, Idle
<1>4. \A u \in Threads : ~Swaps(u, helper)
  <2> SUFFICES ASSUME NEW u \in Threads, Swaps(u, helper) PROVE FALSE
    OBVIOUS
  <2>1. u = t
    BY <1>0, <1>1, OneHolder DEF Swaps, Inv
  <2> QED BY <1>1, <2>1 DEF Swaps
<1>5. \A h \in Helpers \ {helper} : ~Swaps(t, h) /\ ~Swaps(t, h)'
  BY <1>0, <1>1 DEF Swaps
<1>6. Swaps(t, helper)'
  BY <1>0, <1>1 DEF Swaps
<1>7. ASSUME ~incomplete[helper] PROVE Increasing(log'[helper]) /\ InStep(helper)'
  <2>1. messages[helper] = log[helper] /\ Increasing(log[helper])
    BY <1>1, <1>3, <1>4, <1>7 DEF OrderInv, InStep
  <2>2. Increasing(log'[helper])
    BY <1>1, <1>2, <2>1, IncreasingGrows
  <2>3. log'[helper] = messages'[helper] \o Exchange(thread'[t].job, thread'[t].ts)
    BY <1>1, <1>2, <2>1
  <2> QED BY <1>6, <2>2, <2>3 DEF InStep
<1>8. ASSUME NEW h \in Helpers, h # helper, InStep(h) PROVE InStep(h)'
  <2>1. \A u \in Threads : Swaps(u, h)' = Swaps(u, h)
    BY <1>1, <1>5, <1>8 DEF Swaps
  <2>2. log'[h] = log[h] /\ messages'[h] = messages[h]
    BY <1>1, <1>2, <1>8
  <2>3. CASE messages[h] = log[h] /\ \A u \in Threads : ~Swaps(u, h)
    BY <2>1, <2>2, <2>3 DEF InStep
  <2>4. CASE \E u \in Threads : /\ Swaps(u, h)
                                /\ log[h] = messages[h] \o Exchange(thread[u].job, thread[u].ts)
    <3>1. PICK u \in Threads : /\ Swaps(u, h)
                               /\ log[h] = messages[h] \o Exchange(thread[u].job, thread[u].ts)
      BY <2>4
    <3>2. thread'[u] = thread[u]
      BY <1>1, <3>1 DEF Swaps
    <3> QED BY <2>1, <2>2, <3>1, <3>2 DEF InStep
  <2> QED BY <1>8, <2>3, <2>4 DEF InStep
<1>9. ASSUME NEW h \in Helpers, ~incomplete'[h]
      PROVE  Increasing(log'[h]) /\ (serving' => InStep(h)')
  <2>1. CASE h = helper
    BY <1>1, <1>7, <1>9, <2>1
  <2>2. CASE h # helper
    <3>1. log'[h] = log[h] /\ Increasing(log[h]) /\ InStep(h)
      BY <1>1, <1>2, <1>3, <1>9, <2>2 DEF OrderInv
    <3> QED BY <1>8, <2>2, <3>1
  <2> QED BY <2>1, <2>2
<1> QED BY <1>9 DEF OrderInv

LEMMA EnrolsOrder ==
    ASSUME Base, Inv, OrderInv, NEW t \in Threads, Enrols(t)
    PROVE  OrderInv'
<1>0. PICK helper : helper = thread[t].on.helper
  OBVIOUS
<1>1. /\ UNCHANGED <<serving, log, incomplete>> /\ helper \in Helpers
      /\ thread[t].pc = "swap" /\ Swaps(t, helper)
      /\ messages' = [messages EXCEPT ![helper] = @ \o Exchange(thread[t].job, thread[t].ts)]
      /\ \A u \in Threads \ {t} : thread'[u] = thread[u]
      /\ thread'[t].pc = "done"
      /\ DOMAIN messages = Helpers
  BY <1>0 DEF Enrols, Swaps, Base, TypeOK
<1>2. serving
  BY <1>1 DEF Inv, Stopped, Idle
<1>3. /\ messages'[helper] = messages[helper] \o Exchange(thread[t].job, thread[t].ts)
      /\ \A h \in Helpers \ {helper} : messages'[h] = messages[h]
  BY <1>1
<1>4. \A u \in Threads : Swaps(u, helper) => u = t
  BY <1>0, <1>1, OneHolder DEF Swaps, Inv
<1>5. \A h \in Helpers \ {helper} : ~Swaps(t, h)
  BY <1>0 DEF Swaps
<1>6. \A h \in Helpers : ~Swaps(t, h)'
  BY <1>1 DEF Swaps
<1>7. \A h \in Helpers : \A u \in Threads \ {t} : Swaps(u, h)' = Swaps(u, h)
  BY <1>1 DEF Swaps
<1>8. ASSUME ~incomplete[helper] PROVE InStep(helper)'
  <2>1. InStep(helper)
    BY <1>1, <1>2, <1>8 DEF OrderInv
  <2>2. log[helper] = messages[helper] \o Exchange(thread[t].job, thread[t].ts)
    BY <1>1, <1>4, <2>1 DEF InStep
  <2>3. messages'[helper] = log'[helper]
    BY <1>1, <1>3, <2>2
  <2>4. \A u \in Threads : ~Swaps(u, helper)'
    BY <1>1, <1>4, <1>6, <1>7
  <2> QED BY <2>3, <2>4 DEF InStep
<1>9. ASSUME NEW h \in Helpers, h # helper, InStep(h) PROVE InStep(h)'
  <2>1. \A u \in Threads : Swaps(u, h)' = Swaps(u, h)
    BY <1>0, <1>1, <1>9 DEF Swaps
  <2>2. log'[h] = log[h] /\ messages'[h] = messages[h]
    BY <1>1, <1>3, <1>9
  <2>3. CASE messages[h] = log[h] /\ \A u \in Threads : ~Swaps(u, h)
    BY <2>1, <2>2, <2>3 DEF InStep
  <2>4. CASE \E u \in Threads : /\ Swaps(u, h)
                                /\ log[h] = messages[h] \o Exchange(thread[u].job, thread[u].ts)
    <3>1. PICK u \in Threads : /\ Swaps(u, h)
                               /\ log[h] = messages[h] \o Exchange(thread[u].job, thread[u].ts)
      BY <2>4
    <3>2. thread'[u] = thread[u]
      BY <1>1, <1>5, <1>9, <3>1
    <3> QED BY <2>1, <2>2, <3>1, <3>2 DEF InStep
  <2> QED BY <1>9, <2>3, <2>4 DEF InStep
<1>10. ASSUME NEW h \in Helpers, ~incomplete'[h]
       PROVE  Increasing(log'[h]) /\ (serving' => InStep(h)')
  <2>1. Increasing(log'[h]) /\ InStep(h)
    BY <1>1, <1>2, <1>10 DEF OrderInv
  <2> QED BY <1>1, <1>8, <1>9, <1>10, <2>1
<1> QED BY <1>10 DEF OrderInv

LEMMA RestoreOrder ==
    ASSUME Base, Base', Inv, TableInv, OrderInv, Restore
    PROVE  OrderInv'
<1>0. /\ TypeOK /\ messages' \in [Helpers -> Seq(Message)] /\ log' = log
      /\ log \in [Helpers -> Seq(Message)]
      /\ incomplete' = [helper \in Helpers |-> incomplete[helper] \/ Lacks(helper)]
  BY DEF Base, TypeOK, Restore
<1>1. \A t \in Threads : thread'[t].pc = "idle"
  BY DEF Restore, Inv, Stopped, Idle
<1>2. ASSUME NEW helper \in Helpers, ~incomplete'[helper]
      PROVE  Increasing(log'[helper]) /\ (serving' => InStep(helper)')
  <2> DEFINE history == messages'[helper]
             accepted == log[helper]
  <2>1. ~incomplete[helper] /\ ~Lacks(helper) /\ Increasing(accepted)
    BY <1>0, <1>2 DEF OrderInv
  <2>2. PICK at : ComesFrom(history, helper, at)
    BY <1>0, RestoredFrom
  <2>3. /\ history \in Seq(Message) /\ DOMAIN history = 1..Len(history) /\ Len(history) \in Nat
        /\ accepted \in Seq(Message) /\ DOMAIN accepted = 1..Len(accepted) /\ Len(accepted) \in Nat
    BY <1>0
  <2>4. \A n \in DOMAIN accepted : accepted[n].job \in stored \cup {NoJob}
    BY <2>1 DEF Lacks
  <2>5. \A n \in DOMAIN accepted : HasRow(helper, accepted[n])
    BY <2>4 DEF TableInv, StoredHasRows
  <2> HIDE DEF history, accepted
  <2>6. ASSUME NEW n \in 1..Len(accepted) PROVE Has(history, accepted[n])
    <3>1. PICK r \in DOMAIN chat_message :
             chat_message[r].helper = helper /\ MessageOf(chat_message[r]) = accepted[n]
      BY <2>3, <2>5 DEF HasRow
    <3>2. PICK k \in 1..Len(history) : at[k] = r
      BY <2>2, <3>1 DEF ComesFrom
    <3>3. history[k] = accepted[n]
      BY <2>2, <3>1, <3>2 DEF ComesFrom
    <3> QED BY <2>3, <3>3 DEF Has
  <2>7. \A i \in 1..Len(history) : /\ at[i] \in DOMAIN chat_message
                                   /\ chat_message[at[i]].helper = helper
                                   /\ history[i] = MessageOf(chat_message[at[i]])
    BY <2>2 DEF ComesFrom
  <2>8. \A i \in 1..Len(history) : Has(accepted, history[i])
    BY <2>7 DEF TableInv, RowsLogged, accepted
  <2>9. \A i \in 1..Len(history) : history[i].ts \in Nat /\ history[i].ts = chat_message[at[i]].ts
                                   /\ history[i].job = chat_message[at[i]].job
    <3> SUFFICES ASSUME NEW i \in 1..Len(history)
                 PROVE  history[i].ts \in Nat /\ history[i].ts = chat_message[at[i]].ts
                        /\ history[i].job = chat_message[at[i]].job
      OBVIOUS
    <3>1. history[i] \in Message
      BY <2>3
    <3> QED BY <2>7, <3>1, MessageFields, TimeAssumption DEF Message
  <2>10. ASSUME NEW k \in 1..Len(history), NEW l \in 1..Len(history), k < l,
                history[k].ts = history[l].ts
         PROVE  FALSE
    <3>1. PICK p \in 1..Len(accepted) : accepted[p] = history[k]
      BY <2>3, <2>8 DEF Has
    <3>2. PICK q \in 1..Len(accepted) : accepted[q] = history[l]
      BY <2>3, <2>8 DEF Has
    <3>3. ~(p < q) /\ ~(q < p)
      BY <2>1, <2>9, <2>10, <3>1, <3>2 DEF Increasing
    <3>4. p = q
      BY <2>3, <3>3
    <3>5. history[k] = history[l]
      BY <3>1, <3>2, <3>4
    <3>6. at[k] = at[l]
      <4>1. CASE history[k].job # NoJob
        <5>1. Same(MessageOf(chat_message[at[k]]), MessageOf(chat_message[at[l]]))
          BY <2>7, <3>5, <4>1 DEF Same
        <5> QED BY <2>7, <5>1 DEF TableInv, RowsOnce
      <4>2. CASE history[k].job = NoJob
        <5>1. /\ chat_message[at[k]].job = NoJob /\ chat_message[at[l]].job = NoJob
              /\ chat_message[at[k]].ts = chat_message[at[l]].ts
          BY <2>9, <3>5, <4>2
        <5> QED BY <2>1, <2>7, <5>1 DEF TableInv, LegacyTimes
      <4> QED BY <4>1, <4>2
    <3>7. k = l
      BY <2>2, <3>6 DEF ComesFrom
    <3> QED BY <2>3, <2>10, <3>7
  <2>11. \A k, l \in 1..Len(history) : k < l => history[k].ts <= history[l].ts
    BY <2>2, <2>9 DEF ComesFrom
  <2>12. Increasing(history)
    BY <2>9, <2>10, <2>11 DEF Increasing
  <2>13. history = accepted
    BY <2>1, <2>3, <2>6, <2>8, <2>12, SortedEqual
  <2>14. \A t \in Threads : ~Swaps(t, helper)'
    BY <1>1 DEF Swaps
  <2>15. InStep(helper)'
    BY <1>0, <2>13, <2>14 DEF InStep, history, accepted
  <2> QED BY <1>0, <2>1, <2>15 DEF accepted
<1> QED BY <1>2 DEF OrderInv

LEMMA NextOrder ==
    ASSUME Base, Base', Inv, TableInv, OrderInv, [Next]_vars
    PROVE  OrderInv'
<1>1. CASE (\E job \in Jobs : Persist(job)) \/ (Still /\ UNCHANGED <<thread, chat_message, stored>>)
  <2>1. UNCHANGED <<serving, messages, log, incomplete, thread>>
    BY <1>1 DEF Persist, Still, helperVars, ghostVars
  <2> QED BY <2>1 DEF OrderInv, InStep, Swaps
<1>2. CASE ProcessEnds
  <2>1. ~serving' /\ UNCHANGED <<log, incomplete>>
    BY <1>2 DEF ProcessEnds
  <2> QED BY <2>1 DEF OrderInv
<1> QED BY <1>1, <1>2, TurnsOrder, FilesOrder, EnrolsOrder, RestoreOrder, StepKinds

\* A chat that has missed nothing keeps its log in the order of the timestamps, and its
\* history lacks at most the exchange whose thread still holds the mutex.
THEOREM OrderInvCorrect == Spec => []OrderInv
<1>1. Init => OrderInv
  BY InitOrder
<1>2. Base /\ Base' /\ Inv /\ TableInv /\ OrderInv /\ [Next]_vars => OrderInv'
  BY NextOrder
<1> QED BY <1>1, <1>2, BaseCorrect, InvCorrect, TableInvCorrect, PTL DEF Spec

\* A chat whose exchanges were all stored at every restart shows all of them in the
\* order they were accepted, however often the process ended and however the clock was
\* set: commitExchange makes the timestamps increase, readDataFromMySQL sorts by them.
THEOREM RestoresCorrect == Spec => []RestoresInOrder
<1>1. Inv /\ OrderInv => RestoresInOrder
  <2> SUFFICES ASSUME Inv, OrderInv, NEW user \in Users, NEW chat \in Chats,
                      ~incomplete[<<user, chat>>], NEW history \in Shown(user, chat)
               PROVE  history = log[<<user, chat>>]
    BY DEF RestoresInOrder
  <2> DEFINE helper == <<user, chat>>
  <2>1. /\ helper \in Helpers /\ history = messages[helper]
        /\ serving /\ chat_mutex_[helper] = NoThread
    BY DEF Helpers, Shown, Found
  <2> HIDE DEF helper
  <2>2. \A t \in Threads : ~Swaps(t, helper)
    BY <2>1, NoneAssumption DEF Inv, InContext, Swaps
  <2>3. InStep(helper)
    BY <2>1 DEF OrderInv, helper
  <2> QED BY <2>1, <2>2, <2>3 DEF InStep, helper
<1> QED BY <1>1, InvCorrect, OrderInvCorrect, PTL

-----------------------------------------------------------------------------
(* The lists of chats *)

ListInv == \A user \in Users : Lists(sessionsIdsMap[user], user, chatInformation)

LEMMA CreateLists ==
    ASSUME Base, ListInv, NEW t \in Threads, NEW user \in Users, NEW chat \in Chats,
           NEW relocks \in BOOLEAN, CreateAndSend(t, user, chat, relocks)
    PROVE  ListInv'
<1>1. /\ sessionsIdsMap \in [Users -> Seq(Chats)]
      /\ chatInformation' = chatInformation \cup {<<user, chat>>}
      /\ sessionsIdsMap' = Listed(user, chat)
  BY DEF Base, TypeOK, CreateAndSend
<1>2. CASE <<user, chat>> \in chatInformation
  <2>1. Found(user, chat) # {}
    BY <1>2 DEF Found
  <2>2. UNCHANGED <<chatInformation, sessionsIdsMap>>
    BY <1>1, <1>2, <2>1 DEF Listed
  <2> QED BY <2>2 DEF ListInv
<1>3. CASE <<user, chat>> \notin chatInformation
  <2>1. Found(user, chat) = {}
    BY <1>3 DEF Found
  <2>2. sessionsIdsMap' = [sessionsIdsMap EXCEPT ![user] = Append(@, chat)]
    BY <1>1, <2>1 DEF Listed
  <2>3. ASSUME NEW other \in Users PROVE Lists(sessionsIdsMap'[other], other, chatInformation')
    <3>1. Lists(sessionsIdsMap[other], other, chatInformation) /\ sessionsIdsMap[other] \in Seq(Chats)
      BY <1>1 DEF ListInv
    <3>2. CASE other = user
      <4>1. sessionsIdsMap'[other] = Append(sessionsIdsMap[other], chat)
        BY <1>1, <2>2, <3>2
      <4> QED BY <1>1, <1>3, <3>1, <3>2, <4>1, ListsGrow
    <3>3. CASE other # user
      <4>1. sessionsIdsMap'[other] = sessionsIdsMap[other]
        BY <1>1, <2>2, <3>3
      <4> QED BY <1>1, <3>1, <3>3, <4>1, ListsOther
    <3> QED BY <3>2, <3>3
  <2> QED BY <2>3 DEF ListInv
<1> QED BY <1>2, <1>3

LEMMA NoLists ==
    ASSUME chatInformation = {}, sessionsIdsMap = [user \in Users |-> <<>>]
    PROVE  ListInv
BY DEF ListInv, Lists

LEMMA NextLists ==
    ASSUME Base, ListInv, [Next]_vars
    PROVE  ListInv'
<1>1. CASE Requests
  <2>1. PICK t \in Threads, user \in Users, chat \in Chats, relocks \in BOOLEAN :
           Send(t, user, chat, relocks) \/ CreateAndSend(t, user, chat, relocks)
    BY <1>1 DEF Requests
  <2>2. CASE Send(t, user, chat, relocks)
    BY <2>2 DEF Send, helperVars, ListInv
  <2> QED BY <2>1, <2>2, CreateLists
<1>2. CASE Commits \/ Chatting \/ (\E job \in Jobs : Persist(job)) \/ QueueMoves \/ UNCHANGED vars
  <2>1. UNCHANGED <<chatInformation, sessionsIdsMap>>
    BY <1>2 DEF Commits, PublishRefused, Publish, Chatting, Lock, ModelFails, Swap, Persist,
                QueueMoves, helperVars, vars
  <2> QED BY <2>1 DEF ListInv
<1>3. CASE ProcessEnds
  <2>1. chatInformation' = {} /\ sessionsIdsMap' = [user \in Users |-> <<>>]
    BY <1>3 DEF ProcessEnds
  <2> QED BY <2>1 DEF ListInv, Lists
<1>4. CASE Restore
  <2>1. PICK order \in Orders :
           LET read == ReadRows(ResultRows(order))
           IN  chatInformation' = read.helpers /\ sessionsIdsMap' = read.lists
    BY <1>4, RestoreReads
  <2>2. ListsRead(ReadRows(ResultRows(order)))
    BY ResultType, RowsAreRead DEF Base
  <2> QED BY <2>1, <2>2 DEF ListInv, ListsRead
<1> QED BY <1>1, <1>2, <1>3, <1>4 DEF Next

\* The list of a user's chats and the map of helpers agree at every moment: each helper
\* is listed for its user, once, and nothing else is, after a restore as well as after
\* new chats (ChatCreateAndSendHandler, readDataFromMySQL).
THEOREM ListsCorrect == Spec => []ListsEveryChat
<1>1. Init => ListInv
  BY NoLists DEF Init
<1>2. Base /\ ListInv /\ [Next]_vars => ListInv'
  BY NextLists
<1>3. Base /\ ListInv => ListsEveryChat
  <2> SUFFICES ASSUME Base, ListInv, NEW user \in Users
               PROVE  LET list == sessionsIdsMap[user]
                      IN  /\ {list[i] : i \in DOMAIN list}
                                = {chat \in Chats : <<user, chat>> \in chatInformation}
                          /\ \A i, j \in DOMAIN list : list[i] = list[j] => i = j
    BY DEF ListsEveryChat, ShownChats
  <2> DEFINE list == sessionsIdsMap[user]
  <2>1. list \in Seq(Chats)
    BY DEF Base, TypeOK
  <2>2. Lists(list, user, chatInformation)
    BY DEF ListInv
  <2> HIDE DEF list
  <2>3. \A i \in DOMAIN list : list[i] \in Chats
    BY <2>1
  <2>4. {list[i] : i \in DOMAIN list} = {chat \in Chats : <<user, chat>> \in chatInformation}
    BY <2>2, <2>3 DEF Lists
  <2> QED BY <2>2, <2>4 DEF Lists, list
<1> QED BY <1>1, <1>2, <1>3, BaseCorrect, PTL DEF Spec
=============================================================================
