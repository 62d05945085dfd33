----------------------------- MODULE MCAccounts -----------------------------
(* Instances of Accounts for TLC. *)
EXTENDS Accounts, TLC

CONSTANTS p1

SeedOrder    == <<"admin">>
SeededPerms  == [n \in Names |-> IF n = "admin" THEN {p1} ELSE {}]
Symmetry    == Permutations(RoleIds) \cup Permutations(Tokens)
                   \cup Permutations(Edits) \cup Permutations(Works)
=============================================================================
