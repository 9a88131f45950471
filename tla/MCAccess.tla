------------------------------ MODULE MCAccess ------------------------------
(* Small instances of Access for TLC. *)
EXTENDS Access, TLC

TwoRoles == {"head_admin", "editor"}

Nothing == [touch |-> {}, vis |-> None, owner |-> None, deleted |-> FALSE]
SetVis(v) == [Nothing EXCEPT !.vis = v]
SoftDelete == [Nothing EXCEPT !.deleted = TRUE]
SetOwner(u) == [Nothing EXCEPT !.owner = u]
Owners == {SetOwner(u) : u \in UserIds}

AllPatches == {Nothing, [Nothing EXCEPT !.touch = {"edit", "edit_status"}],
               [SetVis("private") EXCEPT !.touch = {"edit"}], SetVis("internal"),
               SoftDelete} \union Owners
OnePatch == {SetVis("private")}

To(t, s, p) == [subject_type |-> t, subject_id |-> s, permission |-> p]
ToUsers(p) == {To("user", u, p) : u \in UserIds}
AllOffers == {To("role", "editor", p) : p \in {"view_history", "manage", "manage_permissions"}}
               \union ToUsers("edit") \union ToUsers("manage")
               \union {To(None, None, "manage"), To("user", None, None), To("role", "editor", None)}
FewOffers == {To("role", "editor", "manage_permissions"), To("role", "editor", "manage")}
EditorsEdit == {To("role", "editor", "edit")}
EditOrGive == {[Nothing EXCEPT !.touch = {"edit"}]} \union Owners

Post(levels, deleted) == [vis : levels, deleted : deleted]
PublicOrPrivate == Post({"public", "private"}, {FALSE})
AnyPost == Post({"public", "private"}, BOOLEAN)
Public == Post({"public"}, {FALSE})

Symmetry == Permutations(Requests) \union Permutations(UserIds)
              \union Permutations(EntryIds) \union Permutations(GrantIds)
=============================================================================
