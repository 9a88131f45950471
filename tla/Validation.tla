----------------------------- MODULE Validation -----------------------------
(***************************************************************************)
(* The rules that decide what an entry's data_json may hold, and how two   *)
(* values are compared when a field is unique (validation/entries.py, and  *)
(* the uniqueness query of repositories/metadata.py).                      *)
(*                                                                         *)
(* A data_json document is a function from every field key to a value, to  *)
(* Null (JSON null) or to Absent (the document does not have the key).     *)
(* What the validator of one data type does to a value is the table Clean, *)
(* one row per configuration of a field.                                   *)
(***************************************************************************)
CONSTANTS
  FieldKeys,    \* the keys fields may have
  Values,       \* the JSON values a document may hold, null excepted
  FieldTypes,   \* data_type, validation_json and settings_json of a field
  Clean,        \* [FieldTypes -> [Values -> Values or Invalid]]
  StrOf,        \* str(value) in Python, for every value
  TextOf,       \* jsonb_extract_path_text of the stored value, for every value
  Null, Absent, Invalid, None

ASSUME CleanAssumption ==
  Clean \in [FieldTypes -> [Values -> Values \union {Invalid}]]

ASSUME MarkersAssumption ==
  /\ {Null, Absent, Invalid} \intersect Values = {}
  /\ Null # Absent /\ Null # Invalid /\ Absent # Invalid

Data == [FieldKeys -> Values \union {Null, Absent}]

\* The columns of a row of the fields table that decide what is accepted.
Field == [active : BOOLEAN, required : BOOLEAN, unique : BOOLEAN,
          allowNull : BOOLEAN, default : Values \union {Null}, type : FieldTypes]

\* The fields of one schema: a row, or None, for every key (a key is UNIQUE).
FieldMap == [FieldKeys -> Field \union {None}]

ASSUME NoneAssumption == None \notin Field /\ None \notin Data

\* The keys list_fields returns by default: rows with is_active.
ActiveKeys(fields) == {k \in FieldKeys : fields[k] # None /\ fields[k].active}

\* One value given for one field: a null passes only where it is allowed.
CleanValue(field, value) ==
  IF value = Null THEN (IF field.allowNull THEN Null ELSE Invalid)
  ELSE Clean[field.type][value]

\* A key the document leaves out: a partial document may; otherwise the default
\* stands in, or the field must not be required.
MayOmit(field, partial) ==
  partial \/ field.default # Null \/ ~field.required \/ field.allowNull

\* Mutant: the error of a value's validator is dropped.
AcceptsAnyValue(fields, data, partial) ==
  \A k \in FieldKeys :
    /\ data[k] # Absent => k \in ActiveKeys(fields)
    /\ (data[k] = Absent /\ k \in ActiveKeys(fields)) => MayOmit(fields[k], partial)

\* validate_entry_payload raises no error.
Accepts(fields, data, partial) ==
  \A k \in FieldKeys :
    /\ data[k] # Absent => /\ k \in ActiveKeys(fields)
                           /\ CleanValue(fields[k], data[k]) # Invalid
    /\ (data[k] = Absent /\ k \in ActiveKeys(fields)) => MayOmit(fields[k], partial)

\* What validate_entry_payload returns for a document it accepts. A default is
\* taken as it is: no validator sees it.
Normalize(fields, data, partial) ==
  [k \in FieldKeys |->
     IF data[k] # Absent THEN CleanValue(fields[k], data[k])
     ELSE IF ~partial /\ k \in ActiveKeys(fields) THEN
            (IF fields[k].default # Null THEN fields[k].default ELSE Absent)
     ELSE Absent]

\* Mutant: the document sent replaces the stored one.
MergeReplace(old, changes) == changes

\* new_data = dict(old_data); new_data.update(validated)
Merge(old, changes) ==
  [k \in FieldKeys |-> IF changes[k] = Absent THEN old[k] ELSE changes[k]]

\* Mutant: a field with a default is not looked up.
UniqueKeysNoDefault(fields, data) ==
  {k \in ActiveKeys(fields) :
     fields[k].unique /\ fields[k].default = Null /\ data[k] \notin {Null, Absent}}

\* The keys _ensure_unique_fields queries the table for.
UniqueKeys(fields, data) ==
  {k \in ActiveKeys(fields) : fields[k].unique /\ data[k] \notin {Null, Absent}}

\* jsonb_extract_path_text(data_json, key) = str(value): the stored value is
\* rendered by PostgreSQL, the new one by Python.
SameText(stored, value) == TextOf[stored] = StrOf[value]
=============================================================================
