----------------------------- MODULE MCAccounts -----------------------------
(* Instances of Accounts for TLC.                                          *)
EXTENDS Accounts, TLC
Symmetry == Permutations(Slots) \cup Permutations(Emails) \cup Permutations(Students) \cup Permutations(Teachers)
\* What hands out or takes away the logins of families, or those of
\* teachers, waits for the others of its kind.
Families == {"grantPortal", "revokePortal", "erase", "remove"}
Profiles == {"grantTeacher", "revokeTeacher", "removeTeacher"}
Everything == Ops \X Ops
Apart == (Ops \X Ops) \ ((Families \X Families) \cup (Profiles \X Profiles))
=============================================================================
