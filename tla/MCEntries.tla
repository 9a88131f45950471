------------------------------ MODULE MCEntries ------------------------------
(* Small instances of Entries for TLC. *)
EXTENDS Entries, TLC

\* Three values: two texts and a boolean.
MCValues == {"a", "b", "true"}
MCTypes == {"text", "boolean"}
MCClean == [text |-> [v \in MCValues |-> IF v = "true" THEN Invalid ELSE v],
            boolean |-> [v \in MCValues |-> IF v = "true" THEN v ELSE Invalid]]
MCStrOf == [v \in MCValues |-> IF v = "true" THEN "True" ELSE v]
MCTextOf == [v \in MCValues |-> v]

Plain == [active |-> TRUE, required |-> FALSE, unique |-> FALSE,
          allowNull |-> FALSE, default |-> Null, type |-> "text"]
UniqueText == [Plain EXCEPT !.unique = TRUE]
Defaulted == [UniqueText EXCEPT !.required = TRUE, !.default = "a"]
Nullable == [Plain EXCEPT !.allowNull = TRUE, !.required = TRUE]
Inactive == [UniqueText EXCEPT !.active = FALSE]
UniqueFlag == [UniqueText EXCEPT !.type = "boolean"]

TextRows == {UniqueText}
MixedRows == {Defaulted, Nullable, Inactive, UniqueFlag}

Doc(k, v) == [f \in FieldKeys |-> IF f = k THEN v ELSE Absent]
Empty == [f \in FieldKeys |-> Absent]
Docs(vals) == {Empty} \union {Doc(k, v) : k \in FieldKeys, v \in vals}
Nothing == [data |-> None, vis |-> None, delete |-> FALSE, touch |-> FALSE]

Posts(vals) == {[Nothing EXCEPT !.data = d, !.vis = "private"] : d \in Docs(vals)}
Patches(vals) ==
  {[Nothing EXCEPT !.data = d] : d \in Docs(vals)}
    \union {[Nothing EXCEPT !.vis = "public"], [Nothing EXCEPT !.delete = TRUE]}
Borders == {Nothing, [Nothing EXCEPT !.touch = TRUE],
            [Nothing EXCEPT !.data = Empty, !.vis = "public", !.delete = TRUE]}

OneText == Posts({"a"}) \union Patches({"a"})
AllBodies == Posts({"a", "b", "true", Null}) \union Patches({"a", "b", "true", Null}) \union Borders
Symmetry == Permutations(Requests) \union Permutations(EntryIds) \union Permutations(FieldKeys)
=============================================================================
