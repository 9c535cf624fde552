----------------------------- MODULE MCM3Runtime -----------------------------
(***************************************************************************)
(* Small instances of M3Runtime for TLC.                                   *)
(***************************************************************************)
EXTENDS M3Runtime, TLC

\* Every account is a tenant of its own.
MCTenantOf == [a \in Accounts |-> a]

\* No action or property tells the members of these sets apart.
Symmetry == UNION {Permutations(Accounts), Permutations(Credentials), Permutations(Calls),
                   Permutations(Pairings)}
=============================================================================
