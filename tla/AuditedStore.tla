----------------------------- MODULE AuditedStore -----------------------------
(***************************************************************************)
(* What the entries component promises to its clients, without requests,   *)
(* transactions, fields or schemas: entries that have one version after    *)
(* the other, and a trail that gets one truthful record of every version,  *)
(* some time after it was committed - or none, if failures may come        *)
(* between. Entries vanish for good, and their trail with them.            *)
(***************************************************************************)
EXTENDS Naturals, Sequences

CONSTANTS
  EntryIds, Versions,
  Lossy,         \* TRUE: a record that is due may never come
  None,
  Unborn, Gone   \* no version yet, none any more

VARIABLES
  content,   \* [EntryIds -> Versions \union {Unborn, Gone}]: what a reader gets
  versions,  \* [EntryIds -> Seq(Versions)]: all versions so far
  trail,     \* [EntryIds -> Seq(record)]
  due        \* [EntryIds -> SUBSET Nat]: numbers of versions not yet recorded

vars == <<content, versions, trail, due>>

Init ==
  /\ content = [e \in EntryIds |-> Unborn]
  /\ versions = [e \in EntryIds |-> <<>>]
  /\ trail = [e \in EntryIds |-> <<>>]
  /\ due = [e \in EntryIds |-> {}]

Commit(e, v) ==
  /\ content[e] # Gone
  /\ content' = [content EXCEPT ![e] = v]
  /\ versions' = [versions EXCEPT ![e] = Append(@, v)]
  /\ due' = [due EXCEPT ![e] = @ \union {Len(versions[e]) + 1}]
  /\ UNCHANGED trail

\* What a record says: a first version was created, a later one replaced one that
\* was there before it, and whether that changed who may see the entry.
TypeOf(old, new) ==
  IF old = None THEN "created"
  ELSE IF old.vis # new.vis THEN "visibility_changed" ELSE "updated"

Earlier(e, n) == IF n = 1 THEN {None} ELSE {versions[e][i] : i \in 1 .. (n - 1)}

Record(e, n) ==
  /\ n \in due[e]
  /\ \E old \in Earlier(e, n) :
       trail' = [trail EXCEPT ![e] =
                   Append(@, [type |-> TypeOf(old, versions[e][n]), old |-> old,
                              new |-> versions[e][n], version |-> n])]
  /\ due' = [due EXCEPT ![e] = @ \ {n}]
  /\ UNCHANGED <<content, versions>>

Lose(e, n) ==
  /\ Lossy
  /\ n \in due[e]
  /\ due' = [due EXCEPT ![e] = @ \ {n}]
  /\ UNCHANGED <<content, versions, trail>>

Erase(gone) ==
  /\ \A e \in gone : content[e] \in Versions
  /\ content' = [e \in EntryIds |-> IF e \in gone THEN Gone ELSE content[e]]
  /\ versions' = [e \in EntryIds |-> IF e \in gone THEN <<>> ELSE versions[e]]
  /\ trail' = [e \in EntryIds |-> IF e \in gone THEN <<>> ELSE trail[e]]
  /\ due' = [e \in EntryIds |-> IF e \in gone THEN {} ELSE due[e]]

Next ==
  \/ \E e \in EntryIds :
       \/ \E v \in Versions : Commit(e, v)
       \/ \E n \in due[e] : Record(e, n) \/ Lose(e, n)
  \/ \E gone \in SUBSET EntryIds : Erase(gone)

Spec == Init /\ [][Next]_vars
=============================================================================
