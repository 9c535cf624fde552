---------------------------- MODULE MCBrokerStore ----------------------------
(***************************************************************************)
(* Small instances of BrokerStore for TLC.                                 *)
(***************************************************************************)
EXTENDS BrokerStore, TLC

\* The policy of the instances allows every package to every requester; what it
\* denies never reaches the database.
MCAllowed == Uids \X Packages

AllRules == CallerRules
NoRules == {}

\* No action or property tells the members of these sets apart.
Symmetry ==
  UNION {Permutations(Connections), Permutations(Credentials), Permutations(Requests),
         Permutations(OperationKeys), Permutations(Packages),
         Permutations(SigningKeys)}
=============================================================================
