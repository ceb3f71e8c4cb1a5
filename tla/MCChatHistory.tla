---------------------------- MODULE MCChatHistory ----------------------------
(* Small instances of ChatHistory for TLC. *)
EXTENDS ChatHistory, TLC

CONSTANTS u1, u2, c1, t1, t2, e1, e2

Symmetry == Permutations(Threads) \cup Permutations(Jobs)

LegacyRow(user, is_user, ts) ==
    [job |-> NoJob, helper |-> <<user, c1>>, is_user |-> is_user, ts |-> ts]

\* An exchange close to the largest timestamp; an exchange in one millisecond, which
\* may be read back to front; a question without an answer, and a row whose role is
\* neither.  The chats of u2 are new but for the last table.
Tables == {
    <<LegacyRow(u1, 1, MaxTime - 4), LegacyRow(u1, 0, MaxTime - 3)>>,
    <<LegacyRow(u1, 1, 1), LegacyRow(u1, 0, 1)>>,
    <<LegacyRow(u1, 1, 0), LegacyRow(u2, 2, 0)>>}
=============================================================================
