----------------------------- MODULE MCAccounts -----------------------------
EXTENDS Accounts, TLC

CONSTANTS r1, r2, r3, p1, p2

Symmetry == Permutations({r1, r2, r3}) \cup Permutations({p1, p2})
=============================================================================
