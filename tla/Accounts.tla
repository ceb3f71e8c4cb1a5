------------------------------ MODULE Accounts ------------------------------
(***************************************************************************)
(* The users table as ChatRegisterHandler and ChatLoginHandler change it:  *)
(* registration, the password check of a login, and the upgrade of a       *)
(* plaintext password to a hash.  Each SQL statement is one step (MySQL,   *)
(* external, with autocommit and the UNIQUE key of deploy/init.sql);       *)
(* requests run between each other's statements, and any statement may     *)
(* fail, with or without its effect.  A login that passes goes on in       *)
(* SessionManager.                                                         *)
(*                                                                         *)
(* A credential is the text of users.password: the plaintext of an earlier *)
(* release, or a hash, which PasswordUtil::hash salts afresh each time.    *)
(* Plaintexts with the reserved prefix of hashes do not occur, as          *)
(* deploy/auth-password-migration.md requires.                             *)
(***************************************************************************)
EXTENDS Naturals, FiniteSets

CONSTANTS Req, Name, Password,
          MaxResets   \* bound: password resets by the operator

VARIABLES
    users,     \* the table: the credential of each name, or NoRow
    pc,        \* where each request is
    form,      \* its kind, username and password
    account,   \* the credential a login has read
    status,    \* the answer, 0 before it
    resets,
    latest,    \* history: the password last set for each name
    seen       \* history: the credentials of its name while the request ran

vars == <<users, pc, form, account, status, resets, latest, seen>>

NoRow == [kind |-> "none"]
Plain(p) == [kind |-> "plain", password |-> p]
NoForm == [kind |-> "none"]

-----------------------------------------------------------------------------
(* PasswordUtil *)

Hash(p, salt) == [kind |-> "hash", password |-> p, salt |-> salt]
IsHash(c) == c.kind = "hash"
Verify(p, c) == IsHash(c) /\ c.password = p
VerifyLegacy(p, c) == ~IsHash(c) /\ c.password = p

-----------------------------------------------------------------------------
Step(r, from, to) == pc[r] = from /\ pc' = [pc EXCEPT ![r] = to]
Answer(r, code) == status' = [status EXCEPT ![r] = code]
Row(r) == users[form[r].name]
Store(r, c) == users' = [users EXCEPT ![form[r].name] = c]

Init ==
    /\ users \in [Name -> {NoRow} \cup {Plain(p) : p \in Password}]
    /\ pc = [r \in Req |-> "new"] /\ form = [r \in Req |-> NoForm]
    /\ account = [r \in Req |-> NoRow] /\ status = [r \in Req |-> 0] /\ resets = 0
    /\ latest = [n \in Name |-> IF users[n] = NoRow THEN NoRow ELSE users[n].password]
    /\ seen = [r \in Req |-> {}]

Begin(r, kind, n, p) ==
    /\ Step(r, "new", IF kind = "login" THEN "select" ELSE "exists")
    /\ form' = [form EXCEPT ![r] = [kind |-> kind, name |-> n, password |-> p]]
    /\ UNCHANGED <<users, account, status, resets, latest>>

\* An operator resets a password: the explicit reset the migration document speaks of.
ResetPassword(n, p) ==
    /\ resets < MaxResets /\ users[n] # NoRow
    /\ resets' = resets + 1
    /\ users' = [users EXCEPT ![n] = Hash(p, resets)] /\ latest' = [latest EXCEPT ![n] = p]
    /\ UNCHANGED <<pc, form, account, status>>

-----------------------------------------------------------------------------
(* ChatRegisterHandler::insertUser *)

IsUserExist(r) ==
    /\ Step(r, "exists", IF Row(r) = NoRow THEN "insert" ELSE "done")
    /\ Answer(r, IF Row(r) = NoRow THEN 0 ELSE 409)
    /\ UNCHANGED <<users, form, account, resets, latest>>

Created(r) ==
    /\ Store(r, Hash(form[r].password, r))
    /\ latest' = [latest EXCEPT ![form[r].name] = form[r].password]

\* Mutant: a duplicate is passed over, as INSERT IGNORE would.
InsertIgnores(r) ==
    /\ Step(r, "insert", "id")
    /\ IF Row(r) = NoRow THEN Created(r) ELSE UNCHANGED <<users, latest>>
    /\ UNCHANGED <<form, account, status, resets>>

Insert(r) ==
    /\ Step(r, "insert", "id") /\ Row(r) = NoRow
    /\ Created(r)
    /\ UNCHANGED <<form, account, status, resets>>

\* The name is taken by now, hashing failed, or the connection broke, perhaps after
\* the row was stored: the exception leaves the handler, which answers 500.
InsertFails(r) ==
    /\ Step(r, "insert", "done") /\ Answer(r, 500)
    /\ IF Row(r) = NoRow THEN Created(r) \/ UNCHANGED <<users, latest>>
       ELSE UNCHANGED <<users, latest>>
    /\ UNCHANGED <<form, account, resets>>

SelectId(r) ==
    /\ Step(r, "id", "done") /\ Answer(r, IF Row(r) = NoRow THEN 409 ELSE 200)
    /\ UNCHANGED <<users, form, account, resets, latest>>

\* A SELECT of a registration fails.
QueryFails(r) ==
    /\ pc[r] \in {"exists", "id"} /\ Step(r, pc[r], "done") /\ Answer(r, 500)
    /\ UNCHANGED <<users, form, account, resets, latest>>

-----------------------------------------------------------------------------
(* ChatLoginHandler::queryUserId *)

SelectAccount(r) ==
    LET p == form[r].password
        c == Row(r)
        verdict == IF c = NoRow THEN 401
                   ELSE IF IsHash(c) THEN (IF Verify(p, c) THEN 200 ELSE 401)
                   ELSE IF VerifyLegacy(p, c) THEN 0 ELSE 401
    IN  /\ Step(r, "select", IF verdict = 0 THEN "upgrade" ELSE "done")
        /\ account' = [account EXCEPT ![r] = c]
        /\ Answer(r, verdict)
        /\ UNCHANGED <<users, form, resets, latest>>

\* Mutant: the row is found by its id alone.
MatchesById(r) == Row(r) # NoRow

\* WHERE id = ? AND BINARY password = ?
Matches(r) == Row(r) = account[r]

Upgrade(r) ==
    /\ Step(r, "upgrade", "done")
    /\ IF Matches(r) THEN Store(r, Hash(form[r].password, r)) /\ Answer(r, 200)
       ELSE Answer(r, 401) /\ UNCHANGED users
    /\ UNCHANGED <<form, account, resets, latest>>

\* A statement or the hashing fails, perhaps after the row was changed: 400.
LoginFails(r) ==
    /\ pc[r] \in {"select", "upgrade"} /\ Step(r, pc[r], "done") /\ Answer(r, 400)
    /\ \/ UNCHANGED users
       \/ pc[r] = "upgrade" /\ Matches(r) /\ Store(r, Hash(form[r].password, r))
    /\ UNCHANGED <<form, account, resets, latest>>

-----------------------------------------------------------------------------
Register(r) == IsUserExist(r) \/ Insert(r) \/ InsertFails(r) \/ SelectId(r) \/ QueryFails(r)
Login(r) == SelectAccount(r) \/ Upgrade(r) \/ LoginFails(r)

\* The history of a request: its name's credentials, from its first step to its last.
Running(r) == pc[r] # "done" /\ pc'[r] # "new"

Next ==
    /\ \/ \E n \in Name, p \in Password : ResetPassword(n, p)
       \/ \E r \in Req : Register(r) \/ Login(r)
       \/ \E r \in Req, kind \in {"login", "register"}, n \in Name, p \in Password :
            Begin(r, kind, n, p)
    /\ seen' = [r \in Req |-> IF Running(r)
                              THEN seen[r] \cup {users[form'[r].name], users'[form'[r].name]}
                              ELSE seen[r]]

Spec == Init /\ [][Next]_vars

-----------------------------------------------------------------------------
(* Properties *)

\* "never overwrite a newer password" (ChatLoginHandler.cpp): the stored credential is
\* always one of the password that was set last, by registration or reset; an upgrade
\* that races a reset or another upgrade changes nothing of it.
CredentialIsLatest ==
    \A n \in Name : users[n] # NoRow => users[n].password = latest[n]

\* The answers are true at some moment of the request.  A registration that reports
\* success made the account: of several with one name exactly one may, and its password
\* is the one stored until a reset or an upgrade.  A login passes only with the right
\* password, and the right one is turned away only if the row changed meanwhile.
AnswersAreTrue ==
    \A r \in Req :
       LET p == form[r].password IN
       /\ status[r] = 200 /\ form[r].kind = "register" => Hash(p, r) \in seen[r]
       /\ status[r] = 409 => \E c \in seen[r] : c # NoRow
       /\ status[r] = 200 /\ form[r].kind = "login" =>
            \E c \in seen[r] : c # NoRow /\ c.password = p
       /\ status[r] = 401 =>
            Cardinality(seen[r]) > 1 \/ \E c \in seen[r] : c = NoRow \/ c.password # p
=============================================================================
