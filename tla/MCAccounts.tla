------------------------------ MODULE MCAccounts ------------------------------
(* Small instances of Accounts for TLC. *)
EXTENDS Accounts, TLC

MCRoles == AdminRoles \union {"reader"}

Nothing == [name |-> None, role |-> None, active |-> None]
Rename(n) == [Nothing EXCEPT !.name = n]
Assign(role) == [Nothing EXCEPT !.role = role]
Activate(b) == [Nothing EXCEPT !.active = b]

AllPatches == [name : Names \union {None}, role : MCRoles \union {None},
               active : BOOLEAN \union {None}]
FewPatches == {Rename("ann"), Assign("admin"), Activate(FALSE)}

AllNew == [name : Names, role : MCRoles]
FewNew == {[name |-> "ann", role |-> "reader"], [name |-> "bob", role |-> "head_admin"]}
BobIsHead == {[name |-> "bob", role |-> "head_admin"]}

Symmetry == Permutations(Requests) \union Permutations(UserIds)
=============================================================================
