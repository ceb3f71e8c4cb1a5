--------------------------- MODULE AccountsProofs ---------------------------
(***************************************************************************)
(* Proofs about Accounts, for any sets of requests, names and passwords    *)
(* and any number of resets: the stored credential is always one of the    *)
(* newest password, and every answer was true while its request ran.       *)
(***************************************************************************)
EXTENDS Accounts, FiniteSetTheorems, TLAPS

-----------------------------------------------------------------------------
(* The inductive invariant *)

Shape ==
    /\ DOMAIN users = Name /\ DOMAIN latest = Name
    /\ DOMAIN pc = Req /\ DOMAIN form = Req /\ DOMAIN account = Req
    /\ DOMAIN status = Req /\ DOMAIN seen = Req

\* Where a request is tells what it may rely on: a login about to upgrade has read a
\* credential of the password it was given, and a registration past its INSERT has
\* seen the row it made.
Progress(r) ==
    /\ pc[r] # "new" => form[r].name \in Name
    /\ pc[r] # "done" => status[r] = 0
    /\ pc[r] \in {"exists", "insert", "id"} => form[r].kind = "register"
    /\ pc[r] \in {"select", "upgrade"} => form[r].kind = "login"
    /\ pc[r] = "upgrade" => /\ account[r] # NoRow /\ account[r] \in seen[r]
                            /\ account[r].password = form[r].password
    /\ pc[r] = "id" => Hash(form[r].password, r) \in seen[r]

\* AnswersAreTrue, of one request.
Truth(r) ==
    LET p == form[r].password IN
    /\ status[r] = 200 /\ form[r].kind = "register" => Hash(p, r) \in seen[r]
    /\ status[r] = 409 => \E c \in seen[r] : c # NoRow
    /\ status[r] = 200 /\ form[r].kind = "login" =>
         \E c \in seen[r] : c # NoRow /\ c.password = p
    /\ status[r] = 401 =>
         Cardinality(seen[r]) > 1 \/ \E c \in seen[r] : c = NoRow \/ c.password # p

RequestOK(r) == IsFiniteSet(seen[r]) /\ Progress(r) /\ Truth(r)

Inv == Shape /\ CredentialIsLatest /\ \A r \in Req : RequestOK(r)

-----------------------------------------------------------------------------
(* Histories of requests *)

\* The second half of Next.
Observes ==
    seen' = [r \in Req |-> IF Running(r)
                           THEN seen[r] \cup {users[form'[r].name], users'[form'[r].name]}
                           ELSE seen[r]]

\* What a request has seen is finite and only grows, and is fixed once it is answered.
LEMMA SeenGrows ==
    ASSUME Shape, NEW r \in Req, IsFiniteSet(seen[r]), Observes
    PROVE  /\ DOMAIN seen' = Req
           /\ seen[r] \subseteq seen'[r] /\ IsFiniteSet(seen'[r])
           /\ pc[r] = "done" => seen'[r] = seen[r]
           /\ Running(r) => /\ users[form'[r].name] \in seen'[r]
                            /\ users'[form'[r].name] \in seen'[r]
<1> DEFINE pair == {users[form'[r].name], users'[form'[r].name]}
<1>1. seen'[r] = IF Running(r) THEN seen[r] \cup pair ELSE seen[r]
  BY DEF Observes
<1>2. IsFiniteSet(pair)
  <2>1. IsFiniteSet({users[form'[r].name]}) /\ IsFiniteSet({users'[form'[r].name]})
    BY FS_Singleton
  <2>2. IsFiniteSet({users[form'[r].name]} \cup {users'[form'[r].name]})
    BY <2>1, FS_Union
  <2>3. pair = {users[form'[r].name]} \cup {users'[form'[r].name]}
    OBVIOUS
  <2> QED BY <2>2, <2>3
<1>3. IsFiniteSet(seen'[r])
  BY <1>1, <1>2, FS_Union
<1> QED BY <1>1, <1>3 DEF Observes, Running

\* Two credentials make more than one.
LEMMA TwoSeen ==
    ASSUME NEW S, IsFiniteSet(S), NEW a \in S, NEW b \in S, a # b
    PROVE  Cardinality(S) > 1
<1>1. Cardinality(S) \in Nat
  BY FS_CardinalityType
<1>2. IsFiniteSet({a}) /\ Cardinality({a}) = 1
  BY FS_Singleton
<1>3. {a} \subseteq S /\ {a} # S
  OBVIOUS
<1>4. Cardinality({a}) <= Cardinality(S) /\ (Cardinality(S) = Cardinality({a}) => FALSE)
  BY <1>3, FS_Subset
<1> QED BY <1>1, <1>2, <1>4

\* A request that a step leaves alone is not disturbed by what it sees meanwhile.
LEMMA BystanderOK ==
    ASSUME Shape, NEW q \in Req, RequestOK(q), Observes,
           pc'[q] = pc[q], form'[q] = form[q], account'[q] = account[q],
           status'[q] = status[q]
    PROVE  RequestOK(q)'
<1>1. /\ seen[q] \subseteq seen'[q] /\ IsFiniteSet(seen'[q])
      /\ pc[q] = "done" => seen'[q] = seen[q]
  BY SeenGrows DEF RequestOK
<1>2. Progress(q)'
  BY <1>1 DEF RequestOK, Progress
<1>3. CASE pc[q] = "done"
  <2>1. Truth(q)'
    BY <1>1, <1>3 DEF RequestOK, Truth
  <2> QED BY <1>1, <1>2, <2>1 DEF RequestOK
<1>4. CASE pc[q] # "done"
  <2>1. status'[q] = 0
    BY <1>4 DEF RequestOK, Progress
  <2>2. Truth(q)'
    BY <2>1 DEF Truth
  <2> QED BY <1>1, <1>2, <2>2 DEF RequestOK
<1> QED BY <1>3, <1>4

\* The step of one request: the others are bystanders.
LEMMA StepOK ==
    ASSUME Inv, Observes, NEW r \in Req,
           DOMAIN users' = Name, DOMAIN latest' = Name, CredentialIsLatest',
           DOMAIN pc' = Req, DOMAIN form' = Req, DOMAIN account' = Req, DOMAIN status' = Req,
           \A q \in Req \ {r} : /\ pc'[q] = pc[q] /\ form'[q] = form[q]
                                /\ account'[q] = account[q] /\ status'[q] = status[q],
           Progress(r)', Truth(r)'
    PROVE  Inv'
<1>1. Shape'
  BY DEF Shape, Observes
<1>2. \A q \in Req \ {r} : RequestOK(q)'
  BY BystanderOK DEF Inv
<1>3. RequestOK(r)'
  BY SeenGrows DEF Inv, RequestOK
<1> QED BY <1>1, <1>2, <1>3 DEF Inv

-----------------------------------------------------------------------------
(* The steps *)

LEMMA InitInv == Init => Inv
<1> SUFFICES ASSUME Init PROVE Inv
  OBVIOUS
<1>1. Shape
  BY DEF Init, Shape
<1>2. CredentialIsLatest
  BY DEF Init, CredentialIsLatest
<1>3. ASSUME NEW r \in Req PROVE RequestOK(r)
  BY FS_EmptySet DEF Init, RequestOK, Progress, Truth
<1> QED BY <1>1, <1>2, <1>3 DEF Inv

LEMMA BeginInv ==
    ASSUME Inv, Observes, NEW r \in Req, NEW kind \in {"login", "register"},
           NEW n \in Name, NEW p \in Password, Begin(r, kind, n, p)
    PROVE  Inv'
<1>1. /\ DOMAIN pc' = Req /\ DOMAIN form' = Req /\ pc[r] = "new"
      /\ pc'[r] = IF kind = "login" THEN "select" ELSE "exists"
      /\ form'[r] = [kind |-> kind, name |-> n, password |-> p]
      /\ \A q \in Req \ {r} : pc'[q] = pc[q] /\ form'[q] = form[q]
      /\ UNCHANGED <<users, account, status, resets, latest>>
  BY DEF Begin, Step, Inv, Shape
<1>2. status'[r] = 0
  BY <1>1 DEF Inv, RequestOK, Progress
<1>3. Progress(r)'
  BY <1>1, <1>2 DEF Progress
<1>4. Truth(r)'
  BY <1>2 DEF Truth
<1>5. CredentialIsLatest'
  BY <1>1 DEF Inv, CredentialIsLatest
<1> QED BY <1>1, <1>3, <1>4, <1>5, StepOK DEF Inv, Shape

LEMMA ResetInv ==
    ASSUME Inv, Observes, NEW n \in Name, NEW p \in Password, ResetPassword(n, p)
    PROVE  Inv'
<1>1. /\ DOMAIN users' = Name /\ DOMAIN latest' = Name
      /\ users'[n] = Hash(p, resets) /\ latest'[n] = p
      /\ \A m \in Name \ {n} : users'[m] = users[m] /\ latest'[m] = latest[m]
      /\ UNCHANGED <<pc, form, account, status>>
  BY DEF ResetPassword, Inv, Shape
<1>2. CredentialIsLatest'
  BY <1>1 DEF Inv, CredentialIsLatest, Hash
<1>3. Shape'
  BY <1>1 DEF Inv, Shape, Observes
<1>4. \A q \in Req : RequestOK(q)'
  BY <1>1, BystanderOK DEF Inv
<1> QED BY <1>2, <1>3, <1>4 DEF Inv

-----------------------------------------------------------------------------
(* Registrations *)

\* What every step of a running request has in common.
LEMMA Answered ==
    ASSUME Inv, Observes, NEW r \in Req, NEW from, from \notin {"new", "done"}, NEW to,
           to # "new", Step(r, from, to), UNCHANGED form
    PROVE  /\ DOMAIN pc' = Req /\ pc[r] = from /\ pc'[r] = to
           /\ \A q \in Req \ {r} : pc'[q] = pc[q]
           /\ form[r].name \in Name
           /\ users[form[r].name] \in seen'[r] /\ users'[form[r].name] \in seen'[r]
           /\ seen[r] \subseteq seen'[r] /\ IsFiniteSet(seen'[r])
<1>1. /\ DOMAIN pc' = Req /\ pc[r] = from /\ pc'[r] = to
      /\ \A q \in Req \ {r} : pc'[q] = pc[q]
  BY DEF Step, Inv, Shape
<1>2. form[r].name \in Name
  BY <1>1 DEF Inv, RequestOK, Progress
<1>3. Running(r)
  BY <1>1 DEF Running
<1> QED BY <1>1, <1>2, <1>3, SeenGrows DEF Inv, RequestOK

\* The status of one request is set.
LEMMA AnswerSets ==
    ASSUME Inv, NEW r \in Req, NEW code, Answer(r, code)
    PROVE  /\ DOMAIN status' = Req /\ status'[r] = code
           /\ \A q \in Req \ {r} : status'[q] = status[q]
BY DEF Answer, Inv, Shape

\* A registration writes the credential of the password it is given.
LEMMA CreatedIsLatest ==
    ASSUME Inv, NEW r \in Req, form[r].name \in Name, Created(r)
    PROVE  /\ DOMAIN users' = Name /\ DOMAIN latest' = Name /\ CredentialIsLatest'
           /\ users'[form[r].name] = Hash(form[r].password, r)
<1> DEFINE n == form[r].name
<1>1. /\ DOMAIN users' = Name /\ DOMAIN latest' = Name
      /\ users'[n] = Hash(form[r].password, r) /\ latest'[n] = form[r].password
      /\ \A m \in Name \ {n} : users'[m] = users[m] /\ latest'[m] = latest[m]
  BY DEF Created, Store, Inv, Shape
<1>2. CredentialIsLatest'
  BY <1>1 DEF Inv, CredentialIsLatest, Hash
<1> QED BY <1>1, <1>2

LEMMA UnchangedIsLatest ==
    ASSUME Inv, UNCHANGED <<users, latest>>
    PROVE  DOMAIN users' = Name /\ DOMAIN latest' = Name /\ CredentialIsLatest'
BY DEF Inv, Shape, CredentialIsLatest

LEMMA IsUserExistInv ==
    ASSUME Inv, Observes, NEW r \in Req, IsUserExist(r)
    PROVE  Inv'
<1> DEFINE to == IF Row(r) = NoRow THEN "insert" ELSE "done"
           code == IF Row(r) = NoRow THEN 0 ELSE 409
<1>1. Step(r, "exists", to) /\ Answer(r, code) /\ UNCHANGED <<users, form, account, resets, latest>>
  BY DEF IsUserExist
<1>2. /\ DOMAIN pc' = Req /\ pc[r] = "exists" /\ pc'[r] = to
      /\ \A q \in Req \ {r} : pc'[q] = pc[q]
      /\ form[r].name \in Name /\ Row(r) \in seen'[r]
  BY <1>1, Answered DEF Row
<1>3. /\ DOMAIN status' = Req /\ status'[r] = code
      /\ \A q \in Req \ {r} : status'[q] = status[q]
  BY <1>1, AnswerSets
<1>4. form'[r].kind = "register"
  BY <1>1, <1>2 DEF Inv, RequestOK, Progress
<1>5. Progress(r)'
  BY <1>1, <1>2, <1>3, <1>4 DEF Progress
<1>6. Truth(r)'
  BY <1>2, <1>3 DEF Truth
<1> QED BY <1>1, <1>2, <1>3, <1>5, <1>6, UnchangedIsLatest, StepOK DEF Inv, Shape

LEMMA InsertInv ==
    ASSUME Inv, Observes, NEW r \in Req, Insert(r)
    PROVE  Inv'
<1>1. Step(r, "insert", "id") /\ Created(r) /\ UNCHANGED <<form, account, status, resets>>
  BY DEF Insert
<1>2. /\ DOMAIN pc' = Req /\ pc[r] = "insert" /\ pc'[r] = "id"
      /\ \A q \in Req \ {r} : pc'[q] = pc[q]
      /\ form[r].name \in Name /\ users'[form[r].name] \in seen'[r]
  BY <1>1, Answered
<1>3. /\ DOMAIN users' = Name /\ DOMAIN latest' = Name /\ CredentialIsLatest'
      /\ users'[form[r].name] = Hash(form[r].password, r)
  BY <1>1, <1>2, CreatedIsLatest
<1>4. form'[r].kind = "register" /\ status'[r] = 0
  BY <1>1, <1>2 DEF Inv, RequestOK, Progress
<1>5. Progress(r)'
  BY <1>1, <1>2, <1>3, <1>4 DEF Progress, Hash
<1>6. Truth(r)'
  BY <1>4 DEF Truth
<1> QED BY <1>1, <1>2, <1>3, <1>5, <1>6, StepOK DEF Inv, Shape

\* A request that ends with an error of the server promises nothing.
LEMMA ErrorOK ==
    ASSUME Inv, Observes, NEW r \in Req, NEW from, from \notin {"new", "done"},
           NEW code \in {400, 500}, Step(r, from, "done"), Answer(r, code),
           DOMAIN users' = Name, DOMAIN latest' = Name, CredentialIsLatest',
           UNCHANGED <<form, account>>
    PROVE  Inv'
<1>1. /\ DOMAIN pc' = Req /\ pc[r] = from /\ pc'[r] = "done"
      /\ \A q \in Req \ {r} : pc'[q] = pc[q]
      /\ form'[r].name \in Name
  BY DEF Step, Inv, Shape, RequestOK, Progress
<1>2. /\ DOMAIN status' = Req /\ status'[r] = code
      /\ \A q \in Req \ {r} : status'[q] = status[q]
  BY AnswerSets
<1>3. Progress(r)'
  BY <1>1 DEF Progress
<1>4. Truth(r)'
  BY <1>2 DEF Truth
<1> QED BY <1>1, <1>2, <1>3, <1>4, StepOK DEF Inv, Shape

LEMMA InsertFailsInv ==
    ASSUME Inv, Observes, NEW r \in Req, InsertFails(r)
    PROVE  Inv'
<1>1. /\ Step(r, "insert", "done") /\ Answer(r, 500) /\ UNCHANGED <<form, account, resets>>
      /\ Created(r) \/ UNCHANGED <<users, latest>>
  BY DEF InsertFails
<1>2. form[r].name \in Name
  BY <1>1, Answered
<1>3. DOMAIN users' = Name /\ DOMAIN latest' = Name /\ CredentialIsLatest'
  BY <1>1, <1>2, CreatedIsLatest, UnchangedIsLatest
<1>4. UNCHANGED <<form, account>>
  BY <1>1
<1> QED BY <1>1, <1>3, <1>4, ErrorOK

LEMMA SelectIdInv ==
    ASSUME Inv, Observes, NEW r \in Req, SelectId(r)
    PROVE  Inv'
<1> DEFINE code == IF Row(r) = NoRow THEN 409 ELSE 200
<1>1. Step(r, "id", "done") /\ Answer(r, code) /\ UNCHANGED <<users, form, account, resets, latest>>
  BY DEF SelectId
<1>2. /\ DOMAIN pc' = Req /\ pc[r] = "id" /\ pc'[r] = "done"
      /\ \A q \in Req \ {r} : pc'[q] = pc[q]
      /\ form[r].name \in Name /\ seen[r] \subseteq seen'[r]
  BY <1>1, Answered
<1>3. /\ DOMAIN status' = Req /\ status'[r] = code
      /\ \A q \in Req \ {r} : status'[q] = status[q]
  BY <1>1, AnswerSets
<1>4. form'[r] = form[r] /\ form[r].kind = "register" /\ Hash(form[r].password, r) \in seen'[r]
  BY <1>1, <1>2 DEF Inv, RequestOK, Progress
<1>5. Hash(form[r].password, r) # NoRow
  BY DEF Hash, NoRow
<1>6. Progress(r)'
  BY <1>2, <1>4 DEF Progress
<1>7. Truth(r)'
  BY <1>3, <1>4, <1>5 DEF Truth, Hash
<1> QED BY <1>1, <1>2, <1>3, <1>6, <1>7, UnchangedIsLatest, StepOK DEF Inv, Shape

LEMMA QueryFailsInv ==
    ASSUME Inv, Observes, NEW r \in Req, QueryFails(r)
    PROVE  Inv'
BY UnchangedIsLatest, ErrorOK DEF QueryFails

-----------------------------------------------------------------------------
(* Logins *)

LEMMA SelectAccountInv ==
    ASSUME Inv, Observes, NEW r \in Req, SelectAccount(r)
    PROVE  Inv'
<1> DEFINE p == form[r].password
           c == Row(r)
           verdict == IF c = NoRow THEN 401
                      ELSE IF IsHash(c) THEN (IF Verify(p, c) THEN 200 ELSE 401)
                      ELSE IF VerifyLegacy(p, c) THEN 0 ELSE 401
           to == IF verdict = 0 THEN "upgrade" ELSE "done"
<1>1. /\ Step(r, "select", to) /\ Answer(r, verdict)
      /\ account' = [account EXCEPT ![r] = c]
      /\ UNCHANGED <<users, form, resets, latest>>
  BY DEF SelectAccount
<1>2. /\ DOMAIN pc' = Req /\ pc[r] = "select" /\ pc'[r] = to
      /\ \A q \in Req \ {r} : pc'[q] = pc[q]
      /\ form[r].name \in Name /\ c \in seen'[r]
  <2>1. "select" \notin {"new", "done"} /\ to # "new" /\ UNCHANGED form
    BY <1>1
  <2> HIDE DEF to, verdict
  <2> QED BY <1>1, <2>1, Answered, Zenon DEF Row
<1>3. /\ DOMAIN status' = Req /\ status'[r] = verdict
      /\ \A q \in Req \ {r} : status'[q] = status[q]
  BY <1>1, AnswerSets
<1>4. /\ DOMAIN account' = Req /\ account'[r] = c
      /\ \A q \in Req \ {r} : account'[q] = account[q]
  BY <1>1 DEF Inv, Shape
<1>5. form'[r] = form[r] /\ form[r].kind = "login"
  BY <1>1, <1>2 DEF Inv, RequestOK, Progress
<1>6. /\ verdict = 200 => c # NoRow /\ c.password = p
      /\ verdict = 401 => c = NoRow \/ c.password # p
      /\ verdict = 0 => c # NoRow /\ c.password = p
      /\ verdict # 409
  BY DEF Verify, VerifyLegacy
<1>7. Progress(r)'
  <2> HIDE DEF c, verdict
  <2> QED BY <1>2, <1>3, <1>4, <1>5, <1>6 DEF Progress
<1>8. Truth(r)'
  <2> HIDE DEF c, verdict
  <2> QED BY <1>2, <1>3, <1>5, <1>6 DEF Truth
<1> QED BY <1>1, <1>2, <1>3, <1>4, <1>7, <1>8, UnchangedIsLatest, StepOK DEF Inv, Shape

\* An upgrade finds the row as it was read: its password is still the newest one.
LEMMA UpgradeIsLatest ==
    ASSUME Inv, NEW r \in Req, form[r].name \in Name, pc[r] = "upgrade", Matches(r),
           Store(r, Hash(form[r].password, r)), UNCHANGED latest
    PROVE  DOMAIN users' = Name /\ DOMAIN latest' = Name /\ CredentialIsLatest'
<1> DEFINE n == form[r].name
<1>1. /\ DOMAIN users' = Name /\ users'[n] = Hash(form[r].password, r)
      /\ \A m \in Name \ {n} : users'[m] = users[m]
  BY DEF Store, Inv, Shape
<1>2. users[n] # NoRow /\ users[n].password = form[r].password
  BY DEF Matches, Row, Inv, RequestOK, Progress
<1>3. form[r].password = latest[n]
  BY <1>2 DEF Inv, CredentialIsLatest
<1> QED BY <1>1, <1>3 DEF Inv, Shape, CredentialIsLatest, Hash

LEMMA UpgradeInv ==
    ASSUME Inv, Observes, NEW r \in Req, Upgrade(r)
    PROVE  Inv'
<1> DEFINE p == form[r].password
<1>1. /\ Step(r, "upgrade", "done") /\ UNCHANGED <<form, account, resets, latest>>
      /\ IF Matches(r) THEN Store(r, Hash(p, r)) /\ Answer(r, 200)
         ELSE Answer(r, 401) /\ UNCHANGED users
  BY DEF Upgrade
<1>2. /\ DOMAIN pc' = Req /\ pc[r] = "upgrade" /\ pc'[r] = "done"
      /\ \A q \in Req \ {r} : pc'[q] = pc[q]
      /\ form[r].name \in Name /\ seen[r] \subseteq seen'[r] /\ IsFiniteSet(seen'[r])
      /\ Row(r) \in seen'[r]
  <2>1. "upgrade" \notin {"new", "done"} /\ "done" # "new" /\ UNCHANGED form
    BY <1>1
  <2> QED BY <1>1, <2>1, Answered, Zenon DEF Row
<1>3. /\ form'[r] = form[r] /\ form[r].kind = "login"
      /\ account[r] # NoRow /\ account[r] \in seen'[r] /\ account[r].password = p
  BY <1>1, <1>2 DEF Inv, RequestOK, Progress
<1>4. Progress(r)'
  BY <1>2, <1>3 DEF Progress
<1>5. CASE Matches(r)
  <2>1. /\ DOMAIN status' = Req /\ status'[r] = 200
        /\ \A q \in Req \ {r} : status'[q] = status[q]
    BY <1>1, <1>5, AnswerSets
  <2>2. Truth(r)'
    BY <1>3, <2>1 DEF Truth
  <2>3. DOMAIN users' = Name /\ DOMAIN latest' = Name /\ CredentialIsLatest'
    BY <1>1, <1>2, <1>5, UpgradeIsLatest
  <2> QED BY <1>1, <1>2, <1>4, <2>1, <2>2, <2>3, StepOK DEF Inv, Shape
<1>6. CASE ~Matches(r)
  <2>1. /\ DOMAIN status' = Req /\ status'[r] = 401
        /\ \A q \in Req \ {r} : status'[q] = status[q]
    BY <1>1, <1>6, AnswerSets
  <2>2. Cardinality(seen'[r]) > 1
    BY <1>2, <1>3, <1>6, TwoSeen DEF Matches
  <2>3. Truth(r)'
    BY <2>1, <2>2 DEF Truth
  <2> QED BY <1>1, <1>2, <1>4, <1>6, <2>1, <2>3, UnchangedIsLatest, StepOK DEF Inv, Shape
<1> QED BY <1>5, <1>6

LEMMA LoginFailsInv ==
    ASSUME Inv, Observes, NEW r \in Req, LoginFails(r)
    PROVE  Inv'
<1>1. /\ pc[r] \in {"select", "upgrade"} /\ Step(r, pc[r], "done") /\ Answer(r, 400)
      /\ UNCHANGED <<form, account, resets, latest>>
      /\ \/ UNCHANGED users
         \/ pc[r] = "upgrade" /\ Matches(r) /\ Store(r, Hash(form[r].password, r))
  BY DEF LoginFails
<1>2. form[r].name \in Name
  BY <1>1, Answered
<1>3. DOMAIN users' = Name /\ DOMAIN latest' = Name /\ CredentialIsLatest'
  BY <1>1, <1>2, UnchangedIsLatest, UpgradeIsLatest
<1>4. UNCHANGED <<form, account>>
  BY <1>1
<1> QED BY <1>1, <1>3, <1>4, ErrorOK

-----------------------------------------------------------------------------
LEMMA NextInv == Inv /\ [Next]_vars => Inv'
<1> SUFFICES ASSUME Inv, [Next]_vars PROVE Inv'
  OBVIOUS
<1>1. CASE UNCHANGED vars
  BY <1>1 DEF vars, Inv, Shape, CredentialIsLatest, RequestOK, Progress, Truth
<1>2. CASE Next
  <2>1. Observes
    BY <1>2 DEF Next, Observes
  <2>2. \/ \E n \in Name, p \in Password : ResetPassword(n, p)
        \/ \E r \in Req : Register(r) \/ Login(r)
        \/ \E r \in Req, kind \in {"login", "register"}, n \in Name, p \in Password :
             Begin(r, kind, n, p)
    BY <1>2 DEF Next
  <2>3. ASSUME NEW r \in Req, Register(r) PROVE Inv'
    BY <2>1, <2>3, IsUserExistInv, InsertInv, InsertFailsInv, SelectIdInv, QueryFailsInv
       DEF Register
  <2>4. ASSUME NEW r \in Req, Login(r) PROVE Inv'
    BY <2>1, <2>4, SelectAccountInv, UpgradeInv, LoginFailsInv DEF Login
  <2> QED BY <2>1, <2>2, <2>3, <2>4, ResetInv, BeginInv
<1> QED BY <1>1, <1>2

\* The invariant above holds in every reachable state.
THEOREM InvCorrect == Spec => []Inv
<1>1. Init => Inv
  BY InitInv
<1>2. Inv /\ [Next]_vars => Inv'
  BY NextInv
<1> QED BY <1>1, <1>2, PTL DEF Spec

\* No upgrade of a plaintext password, alone or racing a reset, a registration or
\* another login, replaces a newer password.
THEOREM CredentialCorrect == Spec => []CredentialIsLatest
<1>1. Inv => CredentialIsLatest
  BY DEF Inv
<1> QED BY <1>1, InvCorrect, PTL

\* What a registration or a login answers was so at some moment while it ran, whatever
\* statements of other requests came between its own.
THEOREM AnswersCorrect == Spec => []AnswersAreTrue
<1>1. Inv => AnswersAreTrue
  BY DEF Inv, RequestOK, Truth, AnswersAreTrue
<1> QED BY <1>1, InvCorrect, PTL
=============================================================================
