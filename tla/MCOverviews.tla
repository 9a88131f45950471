---------------------------- MODULE MCOverviews ----------------------------
(* Small instance of Overviews for TLC. *)
EXTENDS Overviews

CONSTANTS s1, s2

\* Entries 1 and 2 in an inactive schema, 3 in one that may not be there yet.
MCSchemaOf == [e \in EntryIds |-> IF e = 3 THEN s2 ELSE s1]

MCMaxWrites == [entries |-> 2, history |-> 3]

Fresh(l) == [level |-> l, created |-> 1, updated |-> None]
Edited(l) == [level |-> l, created |-> 0, updated |-> 0]
Old(l) == [level |-> l, created |-> 0, updated |-> None]
JustEdited(l) == [Old(l) EXCEPT !.updated = 1]

At(op_, s2now, e1, e2) ==
  [op |-> op_,
   schemas |-> [s \in SchemaIds |-> IF s = s1 THEN "inactive" ELSE s2now],
   entries |-> [e \in EntryIds |-> CASE e = 1 -> e1 [] e = 2 -> e2 [] OTHER -> Unborn]]

MCStart ==
  {At("entries", s2now, e1, e2) :
     s2now \in {"active", Unborn},
     e1 \in {Fresh("own"), Edited("open"), Edited("restricted"), Fresh("private")},
     e2 \in {Unborn, Fresh("open"), Fresh("restricted")}}
  \union {At("entries", s2now, JustEdited("open"), Old("open")) : s2now \in {"active", Unborn}}
  \union {At("history", Unborn, Fresh(l1), Fresh(l2)) :
     l1 \in {"own", "restricted"}, l2 \in {"open", "private"}}
=============================================================================
