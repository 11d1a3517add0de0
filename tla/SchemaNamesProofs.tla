------------------------- MODULE SchemaNamesProofs -------------------------
(***************************************************************************)
(* Proofs about SchemaNames: SchemaInv is inductive, and names the enums   *)
(* of any Select fields fitly.                                             *)
(***************************************************************************)
EXTENDS SchemaNames, SetInduction

-----------------------------------------------------------------------------
(* Names.                                                                  *)

(* The field of a document is found under its name in the map, and that of *)
(* the lists of a DocType under its plural, but not under its own name.    *)
LEMMA FieldsAreKeys ==
    ASSUME NEW d \in Plain
    PROVE  /\ d \in Names
           /\ ~(Uncountable(d) /\ d \in Singles) => DocField(d) = Key("singular", d)
           /\ Format(Plural[d]) = Key("plural", d)
           /\ Format(Plural[d]) # Key("singular", d)
           /\ ~Uncountable(d) => Format(d) = Key("singular", d)
<1>1. /\ d \in Names /\ Format(d) = Spaceless(d)
      /\ Format(Plural[d]) = Spaceless(Plural[d])
      /\ Spaceless(d) \in Seq(Range(d))
      /\ Spaceless(Plural[d]) = Spaceless(d) => Plural[d] = d
  BY CoreAssumption, SpellingAssumption DEF Plain
<1>2. \E x : Prefix(d) = <<x>>
  BY DEF Prefix
<1>3. Prefix(d) \o Spaceless(d) # Spaceless(d)
  BY <1>1, <1>2
<1>4. Format(Plural[d]) # Key("singular", d)
  <2>1. CASE Uncountable(d)
    BY <1>1, <1>3, <2>1 DEF Key, Uncountable
  <2>2. CASE ~Uncountable(d)
    BY <1>1, <2>2 DEF Key, Uncountable
  <2> QED BY <2>1, <2>2
<1>5. ~(Uncountable(d) /\ d \in Singles) => DocField(d) = Key("singular", d)
  BY <1>1 DEF DocField, Key
<1>6. Format(Plural[d]) = Key("plural", d) /\ (~Uncountable(d) => Format(d) = Key("singular", d))
  BY <1>1 DEF Key
<1> QED BY <1>1, <1>4, <1>5, <1>6

(* It is the turn of something that is left.                               *)
LEMMA TurnIsLeft ==
    ASSUME schema.left # {}
    PROVE  Turn \in schema.left
<1>1. \E i \in schema.left : (\E j \in schema.left : j.what = "field") => i.what = "field"
  OBVIOUS
<1> QED BY <1>1 DEF Turn

-----------------------------------------------------------------------------
(* What the steps do to the maps.                                          *)
MapsInv == SchemaTypeOK /\ MapsAreRecent /\ LooksAreRecent /\ MapsKnowCore

LEMMA ReadKeepsMaps ==
    ASSUME MapsInv, NEW p \in Processes, NEW kind \in Kinds,
           Miss(p, kind) \/ ReadDocTypes(p, kind), UNCHANGED schema
    PROVE  MapsInv'
<1>1. PICK names \in {{}, doctypes} :
         \A q \in Processes : looking'[q] = IF q = p THEN [kind |-> kind, names |-> names] ELSE looking[q]
  BY DEF Miss, ReadDocTypes, MapsInv, SchemaTypeOK
<1>2. DOMAIN looking' = Processes /\ UNCHANGED <<doctypes, files, maps, apart, picked, recent, late>>
  BY DEF Miss, ReadDocTypes, MapsInv, SchemaTypeOK
<1>3. SchemaTypeOK'
  BY <1>1, <1>2 DEF MapsInv, SchemaTypeOK, Built
<1>4. LooksAreRecent'
  BY <1>1, <1>2 DEF MapsInv, LooksAreRecent, HasRead
<1> QED BY <1>2, <1>3, <1>4 DEF MapsInv, MapsAreRecent, MapsKnowCore

(* A name is looked up in a map that knows all of Core.                    *)
LEMMA LookupKeepsMaps ==
    ASSUME MapsInv, NEW p \in Processes, NEW kind \in Kinds, Lookup(p, kind),
           UNCHANGED <<doctypes, files, apart, picked, recent, late>>
    PROVE  /\ MapsAreRecent' /\ LooksAreRecent' /\ MapsKnowCore'
           /\ (Built => ~schema.missed)' => SchemaTypeOK'
           /\ Core \subseteq Known(p, kind) /\ Known(p, kind) \subseteq Names
<1>1. \A q \in Processes : looking'[q] = IF q = p THEN None ELSE looking[q]
  BY DEF Lookup, MapsInv, SchemaTypeOK
<1>2. \A k \in Kinds : maps'[k] = IF k = kind THEN Known(p, kind) ELSE maps[k]
  BY DEF Lookup, MapsInv, SchemaTypeOK
<1>3. DOMAIN looking' = Processes
  BY DEF Lookup, MapsInv, SchemaTypeOK
<1>4. /\ Core \subseteq Known(p, kind) /\ Known(p, kind) \subseteq Names
      /\ Known(p, kind) \in recent \cup late
  BY DEF Lookup, Known, HasRead, MapsInv, SchemaTypeOK, MapsAreRecent, LooksAreRecent, MapsKnowCore
<1>5. maps' \in [Kinds -> SUBSET Names]
  BY <1>4 DEF Lookup, MapsInv, SchemaTypeOK
<1>6. MapsAreRecent' /\ LooksAreRecent' /\ MapsKnowCore'
  BY <1>1, <1>2, <1>4 DEF MapsInv, MapsAreRecent, LooksAreRecent, MapsKnowCore, HasRead
<1>7. (Built => ~schema.missed)' => SchemaTypeOK'
  BY <1>1, <1>3, <1>5 DEF MapsInv, SchemaTypeOK
<1> QED BY <1>4, <1>6, <1>7

-----------------------------------------------------------------------------
(* What the builder's step does to its schema.                             *)
LEMMA WireKeeps ==
    ASSUME WiringIsRight, Building, NEW r, Wire(r),
           \A d \in Plain : Fits(d, Turn, r)
    PROVE  WiringIsRight' /\ (Built => ~schema.missed)'
<1>1. /\ schema'.missed = FALSE
      /\ schema' = [left |-> schema'.left, missed |-> schema'.missed,
                    resolver |-> schema'.resolver]
      /\ DOMAIN schema'.resolver = DOMAIN schema.resolver \cup {Turn}
      /\ \A i \in DOMAIN schema'.resolver :
            schema'.resolver[i] = IF i = Turn THEN r ELSE schema.resolver[i]
  BY DEF Wire
<1>2. \A d \in Plain, i \in DOMAIN schema'.resolver : Fits(d, i, schema'.resolver[i])
  BY <1>1 DEF WiringIsRight, Building
<1> QED BY <1>1, <1>2 DEF WiringIsRight

LEMMA FieldKeeps ==
    ASSUME WiringIsRight, Building, WireField,
           Core \subseteq Known(Builder, Wanted), Known(Builder, Wanted) \subseteq Names
    PROVE  WiringIsRight' /\ (Built => ~schema.missed)'
<1> DEFINE found == At(Wanted, Known(Builder, Wanted), Turn.name)
<1>1. Turn.what = "field" /\ Wanted = (IF schema.missed THEN "plural" ELSE "singular")
  BY DEF WireField, Wanted
<1>2. \A d \in Plain : d \in Core /\ d \in Names
  BY FieldsAreKeys DEF Plain
<1>3. \A d \in Plain : Turn # Item("type", Format(d))
  BY <1>1 DEF Item
<1>4. CASE found # {}
  <2>1. Wire(Item(Wanted, <<>>)) /\ Item(Wanted, <<>>).what = Wanted
    BY <1>4 DEF WireField, Item
  <2>2. ASSUME NEW d \in Plain, Turn \in {Item("field", f) : f \in DocFields(d)},
               ~(Uncountable(d) /\ d \in Singles)
        PROVE  Wanted = "singular"
    <3>1. Turn.name = Key("singular", d)
      BY <2>2, FieldsAreKeys DEF DocFields, Item
    <3> QED BY <1>1, <1>2, <3>1 DEF WiringIsRight, Building
  <2>3. ASSUME NEW d \in Plain, Turn \in {Item("field", f) : f \in ListFields(d)},
               Unambiguous(Turn.name, d)
        PROVE  Wanted = "plural"
    <3>1. Turn.name = Format(Plural[d])
      BY <2>3 DEF ListFields, Item
    <3>2. Key("singular", d) # Turn.name
      BY <3>1, FieldsAreKeys
    <3>3. \A e \in Names : Key("singular", e) # Turn.name
      BY <2>3, <3>2 DEF Unambiguous
    <3>4. At("singular", Known(Builder, Wanted), Turn.name) = {}
      BY <3>3 DEF At
    <3> QED BY <1>1, <1>4, <3>4
  <2>4. \A d \in Plain : Fits(d, Turn, Item(Wanted, <<>>))
    BY <1>3, <2>1, <2>2, <2>3 DEF Fits
  <2> QED BY <2>1, <2>4, WireKeeps
<1>5. CASE found = {} /\ schema.missed
  <2>1. Wire(Unresolved) /\ Wanted = "plural"
    BY <1>1, <1>5 DEF WireField
  <2>2. ASSUME NEW d \in Plain, Turn \in {Item("field", f) : f \in DocFields(d)}
        PROVE  Uncountable(d) /\ d \in Singles
    <3>1. ~(Uncountable(d) /\ d \in Singles) => Turn.name = Key("singular", d)
      BY <2>2, FieldsAreKeys DEF DocFields, Item
    <3> QED BY <1>2, <1>5, <3>1 DEF WiringIsRight, Building
  <2>3. ASSUME NEW d \in Plain, Turn \in {Item("field", f) : f \in ListFields(d)}
        PROVE  FALSE
    <3>1. Turn.name = Key("plural", d)
      BY <2>3, FieldsAreKeys DEF ListFields, Item
    <3>2. d \in found
      BY <1>2, <2>1, <3>1 DEF At
    <3> QED BY <1>5, <3>2
  <2>4. \A d \in Plain : Fits(d, Turn, Unresolved)
    BY <1>3, <2>2, <2>3 DEF Fits
  <2> QED BY <2>1, <2>4, WireKeeps
<1>6. CASE found = {} /\ ~schema.missed
  <2>1. schema' = [schema EXCEPT !.missed = TRUE]
    BY <1>6 DEF WireField
  <2>2. /\ schema'.left = schema.left /\ schema'.missed = TRUE
        /\ schema'.resolver = schema.resolver
        /\ schema' = [left |-> schema'.left, missed |-> schema'.missed,
                      resolver |-> schema'.resolver]
    BY <2>1 DEF WiringIsRight, Building
  <2>3. Turn' = Turn
    BY <2>2 DEF Turn
  <2>4. ASSUME NEW d \in Core, Key("singular", d) = Turn.name
        PROVE  FALSE
    BY <1>1, <1>6, <2>4 DEF At
  <2>5. (schema.missed)' => /\ schema'.left # {} /\ (Turn.what)' = "field"
                            /\ \A d \in Core : Key("singular", d) # (Turn.name)'
    BY <1>1, <2>2, <2>3, <2>4 DEF Building
  <2>6. \A d \in Plain, i \in DOMAIN schema'.resolver : Fits(d, i, schema'.resolver[i])
    BY <2>2 DEF WiringIsRight, Building
  <2>7. WiringIsRight'
    BY <2>2, <2>5, <2>6 DEF WiringIsRight
  <2>8. ~Built'
    BY <2>2 DEF Built, Building
  <2> QED BY <2>7, <2>8
<1> QED BY <1>4, <1>5, <1>6

LEMMA TypeKeeps ==
    ASSUME WiringIsRight, Building, WireType, Core \subseteq doctypes,
           Core \subseteq Known(Builder, Wanted), Known(Builder, Wanted) \subseteq Names
    PROVE  WiringIsRight' /\ (Built => ~schema.missed)'
<1> DEFINE found == At("singular", Known(Builder, "singular"), Turn.name)
<1>1. Turn.what = "type" /\ ~schema.missed /\ Wanted = "singular"
  BY DEF WireType, WiringIsRight, Building, Wanted
<1>2. \A d \in Plain : d \in Core /\ d \in Names
  BY FieldsAreKeys DEF Plain
<1>3. \A d \in Plain : \A f : Turn # Item("field", f)
  BY <1>1 DEF Item
<1>4. ASSUME NEW d \in Plain, Turn = Item("type", Format(d)), ~Uncountable(d),
             Unambiguous(Turn.name, d)
      PROVE  found = {d} /\ d \in doctypes
  <2>1. Turn.name = Key("singular", d)
    BY <1>4, FieldsAreKeys DEF Item
  <2>2. \A e \in Names \ {d} : Key("singular", e) # Turn.name
    BY <1>4 DEF Unambiguous
  <2> QED BY <1>1, <1>2, <2>1, <2>2 DEF At
<1>5. CASE found = {} /\ Wire(Unresolved)
  <2>1. \A d \in Plain : Fits(d, Turn, Unresolved)
    BY <1>3, <1>4, <1>5 DEF Fits
  <2> QED BY <1>5, <2>1, WireKeeps
<1>6. ASSUME NEW e \in found \cap doctypes, Wire(Item("type", e))
      PROVE  WiringIsRight' /\ (Built => ~schema.missed)'
  <2>1. \A d \in Plain : Fits(d, Turn, Item("type", e))
    BY <1>3, <1>4 DEF Fits
  <2> QED BY <1>6, <2>1, WireKeeps
<1>7. CASE schema' = None
  BY <1>7 DEF WiringIsRight, Built
<1> QED BY <1>5, <1>6, <1>7 DEF WireType

-----------------------------------------------------------------------------
LEMMA SchemaInit == Init => SchemaInv
BY CoreAssumption DEF Init, SchemaInv, SchemaTypeOK, MapsAreRecent, LooksAreRecent,
                      MapsKnowCore, WiringIsRight, FilesHaveCauses, Lone, Built, HasRead

(* What a call writes that neither names it nor is for a part of the site  *)
(* only is no s form of another DocType there.                             *)
LEMMA CausesKept ==
    ASSUME FilesHaveCauses,
           \/ \E d \in Names : Create(d) \/ Drop(d)
           \/ \E call \in Calls : Generate(call)
    PROVE  FilesHaveCauses'
<1>1. CASE \E d \in Names : Create(d) \/ Drop(d)
  BY <1>1 DEF Create, Drop, FilesHaveCauses
<1>2. ASSUME NEW call \in Calls, Generate(call)
      PROVE  FilesHaveCauses'
  <2>1. PICK written \in SUBSET (Requested(call) \ Skipped(call)) : files' \subseteq files \cup written
    BY <1>2 DEF Generate
  <2>2. /\ picked \subseteq picked' /\ call.doctypes \subseteq picked'
        /\ Requested(call) # doctypes => Requested(call) \subseteq picked'
        /\ UNCHANGED <<doctypes, apart>>
    BY <1>2 DEF Generate
  <2>3. ASSUME NEW d \in written, d \notin picked'
        PROVE  d \in Lone(doctypes)
    <3>1. d \in Requested(call) /\ Requested(call) = doctypes /\ d \notin call.doctypes
      BY <2>2, <2>3
    <3> QED BY <2>1, <2>3, <3>1 DEF Skipped, Lone
  <2> QED BY <2>1, <2>2, <2>3 DEF FilesHaveCauses
<1> QED BY <1>1, <1>2

(* The DocTypes and the files change.                                      *)
LEMMA OutsideKeeps ==
    ASSUME SchemaInv,
           \/ \E d \in Names : Create(d) \/ Drop(d)
           \/ \E call \in Calls : Generate(call)
    PROVE  SchemaInv'
<1>1. UNCHANGED <<maps, looking, schema, late>>
  BY DEF Create, Drop, Generate
<1>2. Core \subseteq doctypes' /\ doctypes' \subseteq Names
  BY DEF Create, Drop, Generate, SchemaInv, SchemaTypeOK
<1>3. doctypes' \in recent' /\ recent \subseteq recent'
  BY DEF Create, Drop, Generate, SchemaInv, LooksAreRecent
<1>4. files' \subseteq Names /\ apart' \subseteq Names /\ picked' \subseteq Names
  BY DEF Create, Drop, Generate, Requested, Lone, SchemaInv, SchemaTypeOK
<1>5. SchemaTypeOK' /\ MapsAreRecent' /\ LooksAreRecent' /\ MapsKnowCore'
  BY <1>1, <1>2, <1>3, <1>4 DEF SchemaInv, SchemaTypeOK, MapsAreRecent, LooksAreRecent,
                                MapsKnowCore, Built, HasRead
<1>6. WiringIsRight'
  BY <1>1 DEF SchemaInv, WiringIsRight, Turn
<1> QED BY <1>5, <1>6, CausesKept DEF SchemaInv

LEMMA ClearKeeps ==
    ASSUME SchemaInv, ClearCache
    PROVE  SchemaInv'
<1>1. \A k \in Kinds : maps'[k] = {}
  BY DEF ClearCache
<1>2. maps' \in [Kinds -> SUBSET Names]
  BY DEF ClearCache
<1>3. LooksAreRecent'
  BY DEF ClearCache, LooksAreRecent, HasRead
<1>4. SchemaTypeOK'
  BY <1>2 DEF ClearCache, SchemaInv, SchemaTypeOK, Built
<1>5. WiringIsRight'
  BY DEF ClearCache, SchemaInv, WiringIsRight, Turn
<1> QED BY <1>1, <1>3, <1>4, <1>5 DEF ClearCache, SchemaInv, MapsAreRecent, MapsKnowCore,
                                        FilesHaveCauses

LEMMA BuildKeeps ==
    ASSUME SchemaInv, BuildStart \/ BuildStep
    PROVE  SchemaInv'
<1>0. MapsInv /\ WiringIsRight /\ Builder \in Processes /\ Wanted \in Kinds
  BY BuilderAssumption DEF SchemaInv, MapsInv, Wanted, Kinds
<1>1. CASE BuildStart
  <2>1. SchemaTypeOK' /\ MapsAreRecent' /\ LooksAreRecent' /\ MapsKnowCore' /\ FilesHaveCauses'
    BY <1>1 DEF BuildStart, SchemaInv, SchemaTypeOK, MapsAreRecent, LooksAreRecent,
                MapsKnowCore, FilesHaveCauses, Built, HasRead
  <2>2. WiringIsRight'
    BY <1>1 DEF BuildStart, WiringIsRight
  <2> QED BY <2>1, <2>2 DEF SchemaInv
<1>2. CASE Building /\ (Miss(Builder, Wanted) \/ ReadDocTypes(Builder, Wanted))
  <2>1. UNCHANGED <<schema, files, doctypes, apart, picked>>
    BY <1>2 DEF Miss, ReadDocTypes
  <2>2. MapsInv'
    BY <1>0, <1>2, <2>1, ReadKeepsMaps
  <2>3. WiringIsRight'
    BY <1>0, <2>1 DEF WiringIsRight, Turn
  <2> QED BY <2>1, <2>2, <2>3 DEF SchemaInv, MapsInv, FilesHaveCauses
<1>3. CASE /\ Building /\ Lookup(Builder, Wanted) /\ (WireField \/ WireType)
           /\ UNCHANGED <<doctypes, files, apart, picked, recent, late>>
  <2>1. /\ MapsAreRecent' /\ LooksAreRecent' /\ MapsKnowCore'
        /\ (Built => ~schema.missed)' => SchemaTypeOK'
        /\ Core \subseteq Known(Builder, Wanted) /\ Known(Builder, Wanted) \subseteq Names
    BY <1>0, <1>3, LookupKeepsMaps
  <2>2. Core \subseteq doctypes
    BY DEF SchemaInv, SchemaTypeOK
  <2>3. WiringIsRight' /\ (Built => ~schema.missed)'
    BY <1>0, <1>3, <2>1, <2>2, FieldKeeps, TypeKeeps
  <2> QED BY <1>3, <2>1, <2>3 DEF SchemaInv, FilesHaveCauses
<1> QED BY <1>1, <1>2, <1>3 DEF BuildStep

LEMMA ProcessKeeps ==
    ASSUME SchemaInv, NEW p \in Processes, Ask(p) \/ Restart(p)
    PROVE  SchemaInv'
<1>0. MapsInv /\ WiringIsRight /\ (Built => ~schema.missed)
  BY DEF SchemaInv, MapsInv, SchemaTypeOK
<1>1. CASE Ask(p)
  <2>1. PICK kind \in Kinds :
           \/ Miss(p, kind) \/ ReadDocTypes(p, kind)
           \/ Lookup(p, kind) /\ UNCHANGED <<doctypes, files, schema, apart, picked, recent, late>>
    BY <1>1 DEF Ask, Kinds
  <2>2. UNCHANGED <<schema, files, doctypes, apart, picked>>
    BY <2>1 DEF Miss, ReadDocTypes
  <2>3. WiringIsRight' /\ (Built => ~schema.missed)'
    BY <1>0, <2>2 DEF WiringIsRight, Turn, Built
  <2>4. MapsInv'
    BY <1>0, <2>1, <2>2, <2>3, ReadKeepsMaps, LookupKeepsMaps DEF MapsInv
  <2> QED BY <2>2, <2>3, <2>4 DEF SchemaInv, MapsInv, FilesHaveCauses
<1>2. CASE Restart(p)
  <2>1. \A q \in Processes : looking'[q] = IF q = p THEN None ELSE looking[q]
    BY <1>2 DEF Restart, SchemaInv, SchemaTypeOK
  <2>2. DOMAIN looking' = Processes
    BY <1>2 DEF Restart, SchemaInv, SchemaTypeOK
  <2>3. WiringIsRight' /\ (Built => ~schema.missed)'
    BY <1>0, <1>2 DEF Restart, WiringIsRight, Turn, Built
  <2>4. SchemaTypeOK'
    BY <1>2, <2>1, <2>2, <2>3 DEF Restart, SchemaInv, SchemaTypeOK
  <2>5. MapsAreRecent' /\ LooksAreRecent' /\ MapsKnowCore' /\ FilesHaveCauses'
    BY <1>2, <2>1 DEF Restart, SchemaInv, MapsAreRecent, LooksAreRecent, MapsKnowCore,
                      FilesHaveCauses, HasRead
  <2> QED BY <2>3, <2>4, <2>5 DEF SchemaInv
<1> QED BY <1>1, <1>2

(* The inductive invariant of SchemaNames: maps are no older than they     *)
(* should be and know the DocTypes that are always there, and what the     *)
(* builder has wired so far is wired right.                                *)
THEOREM SchemaSafe == Spec => []SchemaInv
<1>1. SchemaInv /\ [Next]_vars => SchemaInv'
  <2> SUFFICES ASSUME SchemaInv, [Next]_vars PROVE SchemaInv'
    OBVIOUS
  <2>1. CASE UNCHANGED vars
    BY <2>1 DEF vars, SchemaInv, SchemaTypeOK, MapsAreRecent, LooksAreRecent, MapsKnowCore,
                WiringIsRight, FilesHaveCauses, Turn, Built, HasRead
  <2>2. CASE Next
    BY <2>2, OutsideKeeps, ClearKeeps, BuildKeeps, ProcessKeeps DEF Next
  <2> QED BY <2>1, <2>2
<1> QED BY <1>1, SchemaInit, PTL DEF Spec

(* Every variable stays in its range.                                      *)
COROLLARY SchemaTyped == Spec => []SchemaTypeOK
<1>1. SchemaInv => SchemaTypeOK
  BY DEF SchemaInv
<1> QED BY <1>1, SchemaSafe, PTL

(* After clear_cache no map is older than it, but for one that a process   *)
(* was computing.                                                          *)
COROLLARY MapsAreFresh == Spec => []MapsAreRecent
<1>1. SchemaInv => MapsAreRecent
  BY DEF SchemaInv
<1> QED BY <1>1, SchemaSafe, PTL

(* A DocType and its s form only have files that clash if the s form was   *)
(* once there without it, or asked for by name or with a part of the site. *)
COROLLARY ClashesHaveCauses == Spec => []ClashHasCause
<1>1. SchemaInv => ClashHasCause
  BY DEF SchemaInv, FilesHaveCauses, ClashHasCause
<1> QED BY <1>1, SchemaSafe, PTL

(* The fields and the type of a DocType that is always there lead to it.   *)
COROLLARY ResolversFit == Spec => []ResolverFits
<1>1. SchemaInv => ResolverFits
  BY DEF SchemaInv, WiringIsRight, ResolverFits, Built
<1> QED BY <1>1, SchemaSafe, PTL

-----------------------------------------------------------------------------
(* The names of enums.                                                     *)
NamesIn(fields) ==
    {fields[i].label : i \in DOMAIN fields} \cup {fields[i].fieldname : i \in DOMAIN fields}
Namings(fields) == UNION {[T -> NamesIn(fields)] : T \in SUBSET DOMAIN fields}

(* generated_enums after the first n fields.                               *)
GeneratedAt(fields, todo, start, made, n) ==
    IF n = 0 THEN start
    ELSE IF n \notin todo THEN made[n - 1]
    ELSE [i \in DOMAIN made[n - 1] \cup {n} |->
            IF i = n THEN EnumName(fields, n, made[n - 1]) ELSE made[n - 1][i]]

GeneratedBy(fields, todo, start) ==
    CHOOSE made : made = [n \in 0 .. Len(fields) |-> GeneratedAt(fields, todo, start, made, n)]

LEMMA NamedIsNaming ==
    ASSUME NEW fields, NEW made \in Namings(fields), NEW n \in DOMAIN fields
    PROVE  [i \in DOMAIN made \cup {n} |-> IF i = n THEN EnumName(fields, n, made) ELSE made[i]]
             \in Namings(fields)
<1>1. PICK T \in SUBSET DOMAIN fields : made \in [T -> NamesIn(fields)]
  BY DEF Namings
<1>2. fields[n].label \in NamesIn(fields) /\ fields[n].fieldname \in NamesIn(fields)
  BY DEF NamesIn
<1>3. EnumName(fields, n, made) \in NamesIn(fields)
  BY <1>1, <1>2 DEF EnumName
<1> DEFINE U == DOMAIN made \cup {n}
           new == [i \in U |-> IF i = n THEN EnumName(fields, n, made) ELSE made[i]]
<1>4. U \in SUBSET DOMAIN fields /\ DOMAIN made = T
  BY <1>1
<1>5. new \in [U -> NamesIn(fields)]
  BY <1>1, <1>3, <1>4
<1> QED BY <1>4, <1>5 DEF Namings

LEMMA GeneratedEquation ==
    ASSUME NEW fields \in FieldLists, NEW todo, todo \subseteq DOMAIN fields,
           NEW start \in Namings(fields)
    PROVE  /\ \A n \in 0 .. Len(fields) : GeneratedBy(fields, todo, start)[n]
                = GeneratedAt(fields, todo, start, GeneratedBy(fields, todo, start), n)
           /\ Generated(fields, todo, start) = GeneratedBy(fields, todo, start)[Len(fields)]
<1> DEFINE N == Len(fields)
           D == 0 .. N
           V == Namings(fields)
           R == [n \in D |-> N - n]
           At0(f, n) == GeneratedAt(fields, todo, start, f, n)
           F == [x \in D \X [D -> V] |-> At0(x[2], x[1])]
           Equation(f) == f = [n \in D |-> At0(f, n)]
<1>1. N \in Nat /\ DOMAIN fields = 1 .. N
  BY FieldListsAssumption
<1>2. R \in [D -> 0 .. N] /\ \A n \in D : R[n] = N - n /\ n \in Nat
  BY <1>1
<1>3. \A n \in D, f \in [D -> V] : At0(f, n) \in V
  <2> TAKE n \in D, f \in [D -> V]
  <2>1. CASE n = 0
    BY <2>1 DEF GeneratedAt
  <2>2. CASE n # 0
    <3>1. n - 1 \in D /\ n \in DOMAIN fields
      BY <1>1, <2>2
    <3>2. f[n - 1] \in V
      BY <3>1
    <3> HIDE DEF V
    <3> QED BY <2>2, <3>1, <3>2, NamedIsNaming DEF GeneratedAt, V
  <2> QED BY <2>1, <2>2
<1>4. ASSUME NEW n \in D, NEW f \in [D -> V], NEW g \in [D -> V],
             \A m \in D : R[m] > R[n] => f[m] = g[m]
      PROVE  At0(f, n) = At0(g, n)
  <2>1. CASE n = 0
    BY <2>1 DEF GeneratedAt
  <2>2. CASE n # 0
    <3>1. n - 1 \in D /\ R[n - 1] > R[n]
      BY <1>1, <1>2, <2>2
    <3>2. f[n - 1] = g[n - 1]
      BY <1>4, <3>1
    <3> QED BY <2>2, <3>2 DEF GeneratedAt
  <2> QED BY <2>1, <2>2
<1>5. V # {}
  OBVIOUS
<1>6. F \in [D \X [D -> V] -> V]
  <2> HIDE DEF D, V, At0
  <2> QED BY <1>3
<1>7. \A n \in D, f \in [D -> V] : F[<<n, f>>] = At0(f, n)
  <2> HIDE DEF D, V, At0
  <2> QED OBVIOUS
<1>8. RestsBeyond(F, D, R, V)
  <2> HIDE DEF F, D, R, V, At0
  <2> QED BY <1>4, <1>6, <1>7 DEF RestsBeyond
<1>9. HasSolution(F, D, V)
  <2> HIDE DEF F, D, R, N, V
  <2> QED BY <1>1, <1>2, <1>5, <1>8, DownwardRecursion
<1>10. \E f : Equation(f)
  <2> HIDE DEF F, D, V, At0
  <2> QED BY <1>7, <1>9 DEF HasSolution
<1>11. Equation(GeneratedBy(fields, todo, start))
  BY <1>10 DEF GeneratedBy
<1>12. Generated(fields, todo, start) = GeneratedBy(fields, todo, start)[N]
  BY DEF Generated, GeneratedBy, GeneratedAt
<1> QED BY <1>11, <1>12

(* Names given to some fields: of their own two, and no name twice.        *)
WellNamed(fields, made) ==
    /\ made \in Namings(fields)
    /\ \A i \in DOMAIN made : made[i] \in {fields[i].label, fields[i].fieldname}
    /\ \A i, j \in DOMAIN made : made[i] = made[j] => i = j

(* A field gets its label unless an earlier one has it.                    *)
LabelOrLate(fields, made, i) == made[i] = fields[i].label \/ LabelTaken(fields, i)

(* Fields that are named in their order are well named.                    *)
LEMMA GeneratedIsWell ==
    ASSUME NEW fields \in FieldLists, Unmixed(fields),
           NEW todo, todo \subseteq DOMAIN fields,
           NEW start, WellNamed(fields, start),
           \A i \in todo \ DOMAIN start :
              /\ \A j \in DOMAIN start : Earlier(fields, j, i)
              /\ \A j \in todo \ DOMAIN start : j < i => Earlier(fields, j, i)
    PROVE  LET made == Generated(fields, todo, start)
           IN  /\ WellNamed(fields, made)
               /\ DOMAIN made = DOMAIN start \cup todo
               /\ \A i \in DOMAIN start : made[i] = start[i]
               /\ \A i \in todo \ DOMAIN start : LabelOrLate(fields, made, i)
<1> DEFINE N == Len(fields)
           all == GeneratedBy(fields, todo, start)
           new == todo \ DOMAIN start
           Good(made, n) ==
               /\ WellNamed(fields, made)
               /\ DOMAIN made = DOMAIN start \cup {i \in todo : i <= n}
               /\ \A i \in DOMAIN start : made[i] = start[i]
               /\ \A i \in {k \in new : k <= n} : LabelOrLate(fields, made, i)
           T == {n \in Nat : n <= N => Good(all[n], n)}
<1>1. /\ N \in Nat /\ DOMAIN fields = 1 .. N
      /\ \A i, j \in DOMAIN fields : fields[i].fieldname = fields[j].fieldname => i = j
      /\ start \in Namings(fields)
  BY FieldListsAssumption DEF WellNamed
<1>2. \A n \in 0 .. N : all[n] = GeneratedAt(fields, todo, start, all, n)
  BY <1>1, GeneratedEquation
<1>3. \A made \in Namings(fields) : DOMAIN made \subseteq DOMAIN fields
  BY DEF Namings
<1>4. 0 \in T
  <2>1. all[0] = start
    <3>1. 0 \in 0 .. N
      BY <1>1
    <3> HIDE DEF all, N
    <3> QED BY <1>2, <3>1 DEF GeneratedAt
  <2>2. {i \in todo : i <= 0} = {} /\ {k \in new : k <= 0} = {}
    BY <1>1
  <2>3. Good(start, 0)
    BY <2>2
  <2> QED BY <2>1, <2>3
<1>5. ASSUME NEW n \in Nat, n \in T
      PROVE  n + 1 \in T
  <2> SUFFICES ASSUME n + 1 <= N PROVE Good(all[n + 1], n + 1)
    OBVIOUS
  <2> DEFINE m == n + 1
             old == all[n]
             next == [i \in DOMAIN old \cup {m} |->
                        IF i = m THEN EnumName(fields, m, old) ELSE old[i]]
  <2>1. m \in 0 .. N /\ m # 0 /\ m - 1 = n /\ m \in DOMAIN fields /\ n <= N /\ n \in 0 .. N
    BY <1>1
  <2>2. Good(old, n)
    BY <1>5, <2>1
  <2>3. all[m] = IF m \notin todo THEN old ELSE next
    <3>1. all[m] = GeneratedAt(fields, todo, start, all, m)
      BY <1>2, <2>1
    <3> HIDE DEF m
    <3> QED BY <2>1, <3>1 DEF GeneratedAt
  <2>4. \A i \in todo : i <= m <=> i <= n \/ i = m
    BY <1>1, <2>1
  <2>5. DOMAIN old \subseteq DOMAIN fields /\ old \in Namings(fields)
    BY <1>3, <2>2 DEF WellNamed
  <2> HIDE DEF m, old, all
  <2>6. CASE m \notin todo
    <3>1. {i \in todo : i <= m} = {i \in todo : i <= n} /\ {k \in new : k <= m} = {k \in new : k <= n}
      BY <2>4, <2>6
    <3> QED BY <2>2, <2>3, <2>6, <3>1 DEF m, all
  <2>7. CASE m \in todo /\ m \in DOMAIN start
    <3>1. m \in DOMAIN old
      BY <2>2, <2>7
    <3>2. next = old
      <4>1. \E U : old \in [U -> NamesIn(fields)]
        BY <2>5 DEF Namings
      <4>2. EnumName(fields, m, old) = old[m] /\ DOMAIN old \cup {m} = DOMAIN old
        BY <3>1 DEF EnumName
      <4> QED BY <4>1, <4>2
    <3>3. /\ DOMAIN start \cup {i \in todo : i <= m} = DOMAIN start \cup {i \in todo : i <= n}
          /\ {k \in new : k <= m} = {k \in new : k <= n}
      BY <2>4, <2>7
    <3> QED BY <2>2, <2>3, <2>7, <3>2, <3>3 DEF m, all
  <2>8. CASE m \in new
    <3>1. \A j \in DOMAIN old : Earlier(fields, j, m) /\ j # m /\ j \in DOMAIN fields
      <4>1. \A j \in todo : j <= n => j < m
        BY <1>1, <2>1
      <4> QED BY <2>1, <2>2, <2>5, <2>8, <4>1
    <3>2. m \notin DOMAIN old
      BY <3>1
    <3>3. EnumName(fields, m, old)
            = IF fields[m].label \in Taken(old) THEN fields[m].fieldname ELSE fields[m].label
      BY <3>2 DEF EnumName
    <3>4. \A j \in DOMAIN old : old[j] # EnumName(fields, m, old)
      <4> TAKE j \in DOMAIN old
      <4>1. old[j] # fields[m].fieldname
        <5>1. old[j] \in {fields[j].label, fields[j].fieldname}
          BY <2>2 DEF WellNamed
        <5>2. fields[j].label # fields[m].fieldname
          BY <2>1, <3>1 DEF Unmixed
        <5>3. fields[j].fieldname # fields[m].fieldname
          BY <1>1, <2>1, <3>1
        <5> QED BY <5>1, <5>2, <5>3
      <4>2. old[j] \in Taken(old)
        BY DEF Taken
      <4> QED BY <3>3, <4>1, <4>2
    <3>5. /\ DOMAIN next = DOMAIN old \cup {m}
          /\ next[m] = EnumName(fields, m, old)
          /\ \A j \in DOMAIN old : next[j] = old[j]
      BY <3>2
    <3>6. next \in Namings(fields)
      BY <2>1, <2>5, NamedIsNaming
    <3> HIDE DEF next
    <3>7. WellNamed(fields, next)
      BY <2>2, <3>3, <3>4, <3>5, <3>6 DEF WellNamed
    <3>8. LabelOrLate(fields, next, m)
      <4>1. CASE fields[m].label \in Taken(old)
        <5>1. PICK j \in DOMAIN old : old[j] = fields[m].label
          BY <4>1 DEF Taken
        <5>2. old[j] \in {fields[j].label, fields[j].fieldname}
          BY <2>2 DEF WellNamed
        <5> QED BY <3>1, <5>1, <5>2 DEF LabelOrLate, LabelTaken
      <4>2. CASE fields[m].label \notin Taken(old)
        BY <3>3, <3>5, <4>2 DEF LabelOrLate, LabelTaken
      <4> QED BY <4>1, <4>2
    <3>9. \A i \in {k \in new : k <= n} : i \in DOMAIN old /\ LabelOrLate(fields, next, i)
      <4> TAKE i \in {k \in new : k <= n}
      <4>1. i \in DOMAIN old /\ LabelOrLate(fields, old, i)
        BY <2>2
      <4> QED BY <3>5, <4>1 DEF LabelOrLate, LabelTaken
    <3>10. /\ DOMAIN next = DOMAIN start \cup {i \in todo : i <= m}
           /\ \A i \in DOMAIN start : next[i] = start[i]
      BY <2>2, <2>4, <2>8, <3>5
    <3>11. \A i \in {k \in new : k <= m} : LabelOrLate(fields, next, i)
      BY <2>4, <3>8, <3>9
    <3> QED BY <2>3, <2>8, <3>7, <3>10, <3>11 DEF m, all
  <2> QED BY <2>6, <2>7, <2>8
<1>6. Nat \subseteq T
  <2> HIDE DEF T
  <2> QED BY <1>4, <1>5, NatsBySuccessor
<1>7. Good(all[N], N)
  BY <1>1, <1>6
<1>8. {i \in todo : i <= N} = todo /\ {k \in new : k <= N} = new
  BY <1>1
<1>9. Generated(fields, todo, start) = all[N]
  BY <1>1, GeneratedEquation
<1> HIDE DEF all, N
<1> QED BY <1>7, <1>8, <1>9

(* Whatever the Select fields of a DocType, EnumsFit.                      *)
THEOREM EnumsAlwaysFit == EnumsFit
<1> SUFFICES ASSUME NEW fields \in FieldLists, NEW ignoreCustom \in BOOLEAN, Unmixed(fields)
             PROVE  LET enums == Enums(fields, ignoreCustom)
                    IN  /\ \A i, j \in DOMAIN enums : enums[i] = enums[j] => i = j
                        /\ \A i \in DOMAIN enums :
                              \/ FieldType(fields, i) = enums[i]
                              \/ fields[i].custom /\ LabelTaken(fields, i)
                        /\ \A i \in Shown(fields, ignoreCustom) \ DOMAIN enums :
                              FieldType(fields, i) = "String"
  BY DEF EnumsFit
<1> DEFINE basic == Basic(fields)
           written == {i \in Shown(fields, ignoreCustom) : fields[i].fit}
           made == Generated(fields, written, basic)
           enums == Enums(fields, ignoreCustom)
<1>1. \A i \in DOMAIN fields : i \in Nat /\ fields[i].custom \in BOOLEAN
  BY FieldListsAssumption
<1>2. Standard(fields) \subseteq DOMAIN fields /\ written \subseteq DOMAIN fields
  BY DEF Standard, Shown
<1>3. WellNamed(fields, Nothing) /\ DOMAIN Nothing = {} /\ Taken(Nothing) = {}
  <2>1. Nothing \in [{} -> NamesIn(fields)] /\ {} \in SUBSET DOMAIN fields
    BY DEF Nothing
  <2>2. Nothing \in Namings(fields)
    BY <2>1 DEF Namings
  <2>3. DOMAIN Nothing = {}
    BY <2>1
  <2> QED BY <2>2, <2>3 DEF WellNamed, Taken
<1>4. WellNamed(fields, basic) /\ DOMAIN basic = Standard(fields)
  <2>1. \A i \in Standard(fields) \ DOMAIN Nothing :
           /\ \A j \in DOMAIN Nothing : Earlier(fields, j, i)
           /\ \A j \in Standard(fields) \ DOMAIN Nothing : j < i => Earlier(fields, j, i)
    BY <1>1, <1>3 DEF Standard, Earlier
  <2>2. /\ WellNamed(fields, Generated(fields, Standard(fields), Nothing))
        /\ DOMAIN Generated(fields, Standard(fields), Nothing)
             = DOMAIN Nothing \cup Standard(fields)
    BY <1>2, <1>3, <2>1, GeneratedIsWell
  <2> QED BY <1>3, <2>2 DEF Basic
<1>5. /\ WellNamed(fields, made) /\ DOMAIN made = Standard(fields) \cup written
      /\ \A i \in Standard(fields) : made[i] = basic[i]
      /\ \A i \in written \ Standard(fields) : LabelOrLate(fields, made, i)
  <2>1. \A i \in written \ Standard(fields) : fields[i].custom
    BY <1>1, <1>2 DEF Standard
  <2>2. \A i \in written \ Standard(fields) :
           /\ \A j \in Standard(fields) : Earlier(fields, j, i)
           /\ \A j \in written \ Standard(fields) : j < i => Earlier(fields, j, i)
    BY <1>1, <1>2, <2>1 DEF Standard, Earlier
  <2> HIDE DEF written, basic
  <2>3. \A i \in written \ DOMAIN basic :
           /\ \A j \in DOMAIN basic : Earlier(fields, j, i)
           /\ \A j \in written \ DOMAIN basic : j < i => Earlier(fields, j, i)
    BY <1>4, <2>2
  <2>4. /\ WellNamed(fields, made)
        /\ DOMAIN made = DOMAIN basic \cup written
        /\ \A i \in DOMAIN basic : made[i] = basic[i]
        /\ \A i \in written \ DOMAIN basic : LabelOrLate(fields, made, i)
    BY <1>2, <1>4, <2>3, GeneratedIsWell
  <2> QED BY <1>4, <2>4
<1>6. enums = [i \in written |-> made[i]]
  BY DEF Enums
<1> HIDE DEF made, enums
<1>7. DOMAIN enums = written /\ \A i \in written : enums[i] = made[i]
  BY <1>6
<1>8. \A i, j \in DOMAIN enums : enums[i] = enums[j] => i = j
  <2> HIDE DEF written
  <2> QED BY <1>5, <1>7 DEF WellNamed
<1>9. ASSUME NEW i \in DOMAIN enums
      PROVE  FieldType(fields, i) = enums[i] \/ (fields[i].custom /\ LabelTaken(fields, i))
  <2>1. i \in written /\ fields[i].fit /\ i \in DOMAIN fields
    BY <1>2, <1>7, <1>9
  <2>2. CASE i \in Standard(fields)
    BY <1>5, <1>7, <2>1, <2>2 DEF FieldType, Standard
  <2>3. CASE i \notin Standard(fields)
    <3>1. fields[i].custom /\ LabelOrLate(fields, made, i)
      BY <1>1, <1>5, <2>1, <2>3 DEF Standard
    <3>2. FieldType(fields, i) = fields[i].label
      BY <1>3, <2>1, <3>1 DEF FieldType, Custom, EnumName
    <3> QED BY <1>7, <2>1, <3>1, <3>2 DEF LabelOrLate
  <2> QED BY <2>2, <2>3
<1>10. \A i \in Shown(fields, ignoreCustom) \ DOMAIN enums : FieldType(fields, i) = "String"
  BY <1>7 DEF FieldType
<1> QED BY <1>8, <1>9, <1>10 DEF enums

(* The types of fields and the enums in the files agree.                   *)
COROLLARY EnumsStayOwn == Spec => []EnumsAreOwn
<1>1. EnumsAreOwn
  BY EnumsAlwaysFit DEF EnumsAreOwn
<1> QED BY <1>1, PTL
=============================================================================
