---------------------------- MODULE SelectEnums ----------------------------
(***************************************************************************)
(* How get_doctype_sdl names the enums of a DocType's Select fields, in    *)
(* three passes over them (utils/generate_sdl/doctype.py): the type of     *)
(* each standard field, then of each custom field, then the enums          *)
(* themselves, which must be the types' own.                               *)
(*                                                                         *)
(* A field has the two names an enum can be given after it; whether it is  *)
(* a custom one; whether its options, none or some that no GraphQL name    *)
(* can be made of, are fit for an enum.                                    *)
(***************************************************************************)
EXTENDS Naturals, Sequences

CONSTANT FieldLists     \* the Select fields a DocType may have, in order

ASSUME FieldListsAssumption ==
    \A fields \in FieldLists :
        /\ Len(fields) \in Nat /\ DOMAIN fields = 1 .. Len(fields)
        /\ \A i \in DOMAIN fields : fields[i].custom \in BOOLEAN
        /\ \A i, j \in DOMAIN fields : fields[i].fieldname = fields[j].fieldname => i = j

Taken(made) == {made[i] : i \in DOMAIN made}

(* Mutant of EnumName: no second name is tried.                            *)
EnumNameByLabel(fields, i, made) ==
    IF i \in DOMAIN made THEN made[i] ELSE fields[i].label

(* get_select_docfield_enum_name, with generated_enums as it is so far.    *)
EnumName(fields, i, made) ==
    IF i \in DOMAIN made THEN made[i]
    ELSE IF fields[i].label \in Taken(made) THEN fields[i].fieldname
    ELSE fields[i].label

(* generated_enums after the fields of a set have been named in order.     *)
Generated(fields, todo, start) ==
    LET made[n \in 0 .. Len(fields)] ==
            IF n = 0 THEN start
            ELSE IF n \notin todo THEN made[n - 1]
            ELSE [i \in DOMAIN made[n - 1] \cup {n} |->
                    IF i = n THEN EnumName(fields, n, made[n - 1]) ELSE made[n - 1][i]]
    IN  made[Len(fields)]

Nothing == [i \in {} |-> "String"]
Standard(fields) == {i \in DOMAIN fields : ~fields[i].custom}

(* get_basic_doctype_sdl                                                   *)
Basic(fields) == Generated(fields, Standard(fields), Nothing)

(* get_custom_field_sdl passes no generated_enums.                         *)
Custom(fields, i) == EnumName(fields, i, Nothing)

(* get_graphql_type                                                        *)
FieldType(fields, i) ==
    IF ~fields[i].fit THEN "String"
    ELSE IF fields[i].custom THEN Custom(fields, i)
    ELSE Basic(fields)[i]

(* get_select_docfield_enums: the fields with an enum, and its name.       *)
Shown(fields, ignoreCustom) == IF ignoreCustom THEN Standard(fields) ELSE DOMAIN fields

Enums(fields, ignoreCustom) ==
    LET written == {i \in Shown(fields, ignoreCustom) : fields[i].fit}
        made == Generated(fields, written, Basic(fields))
    IN  [i \in written |-> made[i]]

-----------------------------------------------------------------------------
Earlier(fields, i, j) ==
    IF fields[i].custom = fields[j].custom THEN i < j ELSE fields[j].custom

(* No field is labelled like the fieldname of one that is named later.     *)
Unmixed(fields) ==
    \A i, j \in DOMAIN fields : Earlier(fields, i, j) => fields[i].label # fields[j].fieldname

(* A field's label is a name that one before it may have been given.       *)
LabelTaken(fields, i) ==
    \E j \in DOMAIN fields :
        Earlier(fields, j, i) /\ fields[i].label \in {fields[j].label, fields[j].fieldname}

(* Every field that is an enum has one of its own, also if labels repeat.  *)
(* A custom field may get that of an earlier one whose label, or fieldname *)
(* in its stead, is its own label.                                         *)
EnumsFit ==
    \A fields \in FieldLists, ignoreCustom \in BOOLEAN :
        Unmixed(fields) =>
            LET enums == Enums(fields, ignoreCustom)
            IN  /\ \A i, j \in DOMAIN enums : enums[i] = enums[j] => i = j
                /\ \A i \in DOMAIN enums :
                      \/ FieldType(fields, i) = enums[i]
                      \/ fields[i].custom /\ LabelTaken(fields, i)
                /\ \A i \in Shown(fields, ignoreCustom) \ DOMAIN enums :
                      FieldType(fields, i) = "String"
=============================================================================
