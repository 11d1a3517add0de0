---------------------------- MODULE SchemaNames ----------------------------
(***************************************************************************)
(* How a DocType gets its type and its fields of Query in the schema, and  *)
(* how these find the DocType again.  generate_sdl writes a file for each  *)
(* DocType (utils/generate_sdl), a worker builds the schema from the files *)
(* that are there and gives fields and types their resolvers               *)
(* (utils/loader.py, utils/resolver), looking names up in two maps that    *)
(* are computed from the DocTypes, kept in redis and dropped by            *)
(* clear_cache (utils/resolver/utils.py, cache.py).  None of the three     *)
(* waits for another, and DocTypes come and go meanwhile.                  *)
(*                                                                         *)
(* A name is a sequence of pieces: words, spaces, hyphens, the letter s.   *)
(* A linked DocType is taken to have a type in the schema, and the SDL     *)
(* files of apps are left out but for the predefined DocTypes.             *)
(***************************************************************************)
EXTENDS SelectEnums, SequencesExt

CONSTANTS
    Names,          \* the names of DocTypes there can be
    Core,           \* the DocTypes that are always there
    Plural,         \* inflect's plural of each name
    Space, Hyphen, Underscore, S,
    Specials,       \* the pieces a GraphQL name cannot hold
    Vowelled,       \* the words that begin with a vowel
    Singles, Tables,
    Predefined,     \* SDL_PREDEFINED_DOCTYPES
    Ignored,        \* IGNORED_DOCTYPES and GQL_RESERVED_TERMS
    Broken,         \* those whose metadata get_doctype_sdl raises for
    Module,         \* of each DocType
    Calls,          \* the calls of generate_sdl: modules and DocTypes
    Processes,      \* those that look names up
    Builder,        \* the one of them whose schema we watch
    None

ASSUME CoreAssumption == Core # {} /\ Core \subseteq Names
ASSUME PluralAssumption == DOMAIN Plural = Names /\ DOMAIN Module = Names
ASSUME BuilderAssumption == Builder \in Processes

VARIABLES
    doctypes,       \* the DocTypes in the database
    files,          \* those whose SDL is in a file
    maps,           \* the two maps in redis, as the DocTypes they were
                    \* computed from: none of them when the key is missing
    looking,        \* each process: the map it found missing, as the
                    \* DocTypes it has read for it: none of them before
    schema,         \* the Builder's, and what has no resolver in it yet
    apart,          \* history: those that were in the database without the
                    \* one they are the s form of
    picked,         \* history: those a call named, or asked for as a part of
                    \* the site
    recent,         \* history: the DocTypes as they were since clear_cache
    late            \* history: the maps that were being computed then

vars == <<doctypes, files, maps, looking, schema, apart, picked, recent, late>>

Kinds == {"singular", "plural"}

-----------------------------------------------------------------------------
(* Names in the schema and names in the maps.                              *)

Spaceless(n) == SelectSeq(n, LAMBDA x : x # Space)

(* format_doctype *)
Format(n) ==
    LET dashed == SelectSeq(Spaceless(n), LAMBDA x : x \notin Specials)
    IN  [i \in DOMAIN dashed |-> IF dashed[i] = Hyphen THEN Underscore ELSE dashed[i]]

(* A plural is never its singular with other spaces, nor does it have a    *)
(* hyphen or a special piece more (and what is left of a name without its  *)
(* spaces is a sequence of its pieces: SelectSeq's, and for the proofs).   *)
ASSUME SpellingAssumption ==
    \A d \in Names :
        /\ Spaceless(d) \in Seq(Range(d))
        /\ Spaceless(Plural[d]) = Spaceless(d) => Plural[d] = d
        /\ Format(d) = Spaceless(d) => Format(Plural[d]) = Spaceless(Plural[d])

(* frappe.scrub, of which the file is named.                               *)
Scrub(n) == [i \in DOMAIN n |-> IF n[i] \in {Space, Hyphen} THEN Underscore ELSE n[i]]

Uncountable(d) == Plural[d] = d
Prefix(d) == IF d[1] \in Vowelled THEN <<"An">> ELSE <<"A">>

(* The fields that get_query_type_extension adds to Query.                 *)
DocField(d) ==
    IF Uncountable(d) /\ d \notin Singles THEN Prefix(d) \o Format(d) ELSE Format(d)
DocFields(d) == IF d \in Tables THEN {} ELSE {DocField(d)}
ListFields(d) == IF d \in Tables \cup Singles THEN {} ELSE {Format(Plural[d])}
RootFields(d) == DocFields(d) \cup ListFields(d)

(* Mutant of Key: a DocType whose plural is itself is in both maps.        *)
KeyWithoutPrefix(kind, d) == Spaceless(IF kind = "plural" THEN Plural[d] ELSE d)

(* The keys of get_singular_doctype's and get_plural_doctype's maps.       *)
Key(kind, d) ==
    IF kind = "plural" THEN Spaceless(Plural[d])
    ELSE IF Uncountable(d) THEN Prefix(d) \o Spaceless(d) ELSE Spaceless(d)

(* What the map computed from some DocTypes holds at a key.                *)
At(kind, names, key) == {d \in names : Key(kind, d) = key}

-----------------------------------------------------------------------------
Item(what, name) == [what |-> what, name |-> name]
Unresolved == Item("none", <<>>)

(* What the schema has: fields of Query and types.                         *)
Items(declared) ==
    {Item("field", f) : f \in UNION {RootFields(d) : d \in declared}}
    \cup {Item("type", Format(d)) : d \in declared}

Clash(d, e) ==
    d # e /\ (Format(d) = Format(e) \/ RootFields(d) \cap RootFields(e) # {})

(* build_schema raises if something is declared twice.                     *)
Buildable ==
    /\ files \cap Predefined = {}
    /\ \A d, e \in files \cup Predefined : ~Clash(d, e)

SForm(d, e) == d = Append(e, S)
Lone(names) == {d \in names : \A e \in names : ~SForm(d, e)}

Init ==
    /\ doctypes = Core
    /\ files = {}
    /\ maps = [k \in Kinds |-> {}]
    /\ looking = [p \in Processes |-> None]
    /\ schema = None
    /\ apart = Lone(Core)
    /\ picked = {}
    /\ recent = {doctypes}
    /\ late = {}

Create(d) ==
    /\ d \in Names \ doctypes
    /\ doctypes' = doctypes \cup {d}
    /\ recent' = recent \cup {doctypes'}
    /\ apart' = apart \cup Lone(doctypes')
    /\ UNCHANGED <<files, maps, looking, schema, picked, late>>

Drop(d) ==
    /\ d \in doctypes \ Core
    /\ doctypes' = doctypes \ {d}
    /\ recent' = recent \cup {doctypes'}
    /\ apart' = apart \cup Lone(doctypes')
    /\ UNCHANGED <<files, maps, looking, schema, picked, late>>

-----------------------------------------------------------------------------
(* get_doctypes: those of the modules and those named, or else all.        *)
Requested(call) ==
    LET asked == {d \in doctypes : Module[d] \in call.modules} \cup call.doctypes
    IN  IF asked = {} THEN doctypes ELSE asked

(* Mutant of Skipped: the s forms are not looked for.                      *)
SkippedNoSForm(call) == (Requested(call) \cap (Ignored \cup Predefined)) \ call.doctypes

(* What make_doctype_sdl_files skips: unless it is named, a DocType that   *)
(* is the s form of another one of the call, ignored or predefined.        *)
Skipped(call) ==
    {d \in Requested(call) :
        \/ \E e \in Requested(call) : SForm(d, e)
        \/ d \in Ignored \cup Predefined} \ call.doctypes

(* One run of generate_sdl: it writes file after file until one raises. Of *)
(* two names that scrub to the same the file of the later stays.           *)
Generate(call) ==
    /\ call.doctypes \subseteq doctypes
    /\ \E written \in SUBSET (Requested(call) \ Skipped(call)) :
          /\ \A d, e \in written : Scrub(d) = Scrub(e) => d = e
          /\ written \cap Broken = {}
          /\ \/ (Requested(call) \ Skipped(call)) \cap Broken # {}
             \/ \A d \in Requested(call) \ Skipped(call) :
                   \E e \in written : Scrub(d) = Scrub(e)
          /\ files' = {d \in files : \A e \in written : Scrub(d) # Scrub(e)} \cup written
    /\ picked' = picked \cup call.doctypes
                        \cup (IF Requested(call) = doctypes THEN {} ELSE Requested(call))
    /\ UNCHANGED <<doctypes, maps, looking, schema, apart, recent, late>>

-----------------------------------------------------------------------------
HasRead(p) == looking[p] # None /\ looking[p].names # {}

(* Mutant of ClearCache: only one of the keys is deleted.                  *)
ClearCacheSingular ==
    /\ maps' = [maps EXCEPT !["singular"] = {}]
    /\ recent' = {doctypes}
    /\ late' = {looking[p].names : p \in {q \in Processes : HasRead(q)}}
    /\ UNCHANGED <<doctypes, files, looking, schema, apart, picked>>

ClearCache ==
    /\ maps' = [k \in Kinds |-> {}]
    /\ recent' = {doctypes}
    /\ late' = {looking[p].names : p \in {q \in Processes : HasRead(q)}}
    /\ UNCHANGED <<doctypes, files, looking, schema, apart, picked>>

(* get_singular_doctype and get_plural_doctype: no map in redis, ...       *)
Miss(p, kind) ==
    /\ looking[p] = None
    /\ maps[kind] = {}
    /\ looking' = [looking EXCEPT ![p] = [kind |-> kind, names |-> {}]]
    /\ UNCHANGED <<doctypes, files, maps, schema, apart, picked, recent, late>>

(* ... so all DocTypes are read, ...                                       *)
ReadDocTypes(p, kind) ==
    /\ looking[p] = [kind |-> kind, names |-> {}]
    /\ looking' = [looking EXCEPT ![p] = [kind |-> kind, names |-> doctypes]]
    /\ UNCHANGED <<doctypes, files, maps, schema, apart, picked, recent, late>>

(* ... and the map that was found, or is now stored, is asked.             *)
Known(p, kind) == IF looking[p] = None THEN maps[kind] ELSE looking[p].names

Lookup(p, kind) ==
    /\ IF looking[p] = None THEN maps[kind] # {}
       ELSE HasRead(p) /\ looking[p].kind = kind
    /\ maps' = [maps EXCEPT ![kind] = Known(p, kind)]
    /\ looking' = [looking EXCEPT ![p] = None]

-----------------------------------------------------------------------------
(* get_schema: the files are read and the schema is built.                 *)
BuildStart ==
    /\ schema = None
    /\ Buildable
    /\ schema' = [left |-> Items(files \cup Predefined), missed |-> FALSE,
                  resolver |-> [i \in {} |-> Unresolved]]
    /\ UNCHANGED <<doctypes, files, maps, looking, apart, picked, recent, late>>

Building == schema # None /\ schema.left # {}
Built == schema # None /\ schema.left = {}

(* The fields of Query have their turn before the types.                   *)
Turn ==
    CHOOSE i \in schema.left :
        (\E j \in schema.left : j.what = "field") => i.what = "field"

(* Mutant of Wire: what one name missed counts for the next.               *)
WireStillMissed(resolver) ==
    schema' = [schema EXCEPT !.left = @ \ {Turn},
                             !.resolver = [i \in DOMAIN @ \cup {Turn} |->
                                             IF i = Turn THEN resolver ELSE @[i]]]

(* It gets its resolver; after the last one graphql_schemas has the schema. *)
Wire(resolver) ==
    schema' = [left |-> schema.left \ {Turn}, missed |-> FALSE,
               resolver |-> [i \in DOMAIN schema.resolver \cup {Turn} |->
                               IF i = Turn THEN resolver ELSE schema.resolver[i]]]

(* setup_root_query_resolvers: a document's field, or else a list's.       *)
Wanted == IF schema.missed THEN "plural" ELSE "singular"

WireField ==
    LET found == At(Wanted, Known(Builder, Wanted), Turn.name)
    IN  /\ Turn.what = "field"
        /\ IF found # {} THEN Wire(Item(Wanted, <<>>))
           ELSE IF schema.missed THEN Wire(Unresolved)
           ELSE schema' = [schema EXCEPT !.missed = TRUE]

(* setup_default_resolvers: get_meta raises for a DocType that is gone,    *)
(* and get_schema with it.                                                 *)
WireType ==
    LET found == At("singular", Known(Builder, "singular"), Turn.name)
    IN  /\ Turn.what = "type"
        /\ \/ found = {} /\ Wire(Unresolved)
           \/ \E d \in found \cap doctypes : Wire(Item("type", d))
           \/ found \ doctypes # {} /\ schema' = None

BuildStep ==
    /\ Building
    /\ \/ Miss(Builder, Wanted)
       \/ ReadDocTypes(Builder, Wanted)
       \/ /\ Lookup(Builder, Wanted)
          /\ WireField \/ WireType
          /\ UNCHANGED <<doctypes, files, apart, picked, recent, late>>

(* A resolver at work looks names up too, and so does the save of a        *)
(* document that has subscribers (on_change), by its singular.             *)
Ask(p) ==
    /\ p = Builder => Built
    /\ \E kind \in IF p = Builder THEN Kinds ELSE {"singular"} :
          \/ Miss(p, kind)
          \/ ReadDocTypes(p, kind)
          \/ /\ Lookup(p, kind)
             /\ UNCHANGED <<doctypes, files, schema, apart, picked, recent, late>>

(* A process is replaced, whatever it was at.                              *)
Restart(p) ==
    /\ schema' = IF p = Builder THEN None ELSE schema
    /\ looking' = [looking EXCEPT ![p] = None]
    /\ UNCHANGED <<doctypes, files, maps, apart, picked, recent, late>>

Next ==
    \/ \E d \in Names : Create(d) \/ Drop(d)
    \/ \E call \in Calls : Generate(call)
    \/ ClearCache
    \/ BuildStart \/ BuildStep
    \/ \E p \in Processes : Ask(p) \/ Restart(p)

Spec == Init /\ [][Next]_vars

-----------------------------------------------------------------------------
(* Every variable stays in its range.                                      *)
SchemaTypeOK ==
    /\ Core \subseteq doctypes /\ doctypes \subseteq Names
    /\ files \subseteq Names /\ apart \subseteq Names /\ picked \subseteq Names
    /\ maps \in [Kinds -> SUBSET Names]
    /\ DOMAIN looking = Processes
    /\ \A p \in Processes : looking[p] # None =>
          /\ looking[p].kind \in Kinds
          /\ looking[p].names # {} => Core \subseteq looking[p].names
          /\ looking[p].names \subseteq Names
    /\ Built => ~schema.missed

(* clear_cache is enough to have a change of the DocTypes noticed, in both *)
(* maps: what is in them is no older, unless a process was computing it.   *)
MapsAreRecent == \A k \in Kinds : maps[k] # {} => maps[k] \in recent \cup late

(* generate_sdl/__init__.py:87-89 skips a DocType that is named with the   *)
(* s form of another.  If the files of the two keep a schema from being    *)
(* built all the same, then the site once had the one without the other,   *)
(* or a call asked for it by name or for a part of the site only: as long  *)
(* as none of this happens, no order of calls does harm.                   *)
ClashHasCause ==
    \A d \in files, e \in files \cup Predefined :
        SForm(d, e) /\ Clash(d, e) => d \in apart \cup picked

(* In the files, whichever Select fields the DocTypes have, every field    *)
(* that is an enum refers to its own (EnumsFit says when it may not).      *)
EnumsAreOwn == files # {} => EnumsFit

(* A name that no other DocType's singular is spelt like, now or later.    *)
Unambiguous(name, d) == \A e \in Names \ {d} : Key("singular", e) # name

(* The resolver that is right for something in the schema, as far as a     *)
(* DocType of that name or field asks for one.                             *)
Fits(d, i, resolver) ==
    /\ i \in {Item("field", f) : f \in DocFields(d)} =>
           resolver.what = "singular" \/ (Uncountable(d) /\ d \in Singles)
    /\ i \in {Item("field", f) : f \in ListFields(d)} =>
           resolver.what = "plural" \/ ~Unambiguous(i.name, d)
    /\ i = Item("type", Format(d)) =>
           resolver = Item("type", d) \/ Uncountable(d) \/ ~Unambiguous(i.name, d)

Plain == {d \in Core : Format(d) = Spaceless(d)}

(* A schema that is built leads from the fields of a DocType that is       *)
(* always there to the resolvers of documents and of lists, and from its   *)
(* type to the DocType, whenever the maps were computed.  The SDL and the  *)
(* maps spell it alike if it has no hyphens and specials; they do not if   *)
(* it is a Single, or for its type, when it is uncountable.                *)
ResolverFits ==
    Built => \A d \in Plain, i \in DOMAIN schema.resolver : Fits(d, i, schema.resolver[i])

(* Why that holds: any map a process has, or is computing, knows the       *)
(* DocTypes that are always there, and a field is looked for among lists   *)
(* only if it is no document of theirs.                                    *)
LooksAreRecent ==
    /\ doctypes \in recent
    /\ \A p \in Processes : HasRead(p) => looking[p].names \in recent \cup late

MapsKnowCore == \A k \in Kinds : maps[k] # {} => Core \subseteq maps[k]

WiringIsRight ==
    schema # None =>
        /\ schema = [left |-> schema.left, missed |-> schema.missed,
                     resolver |-> schema.resolver]
        /\ schema.missed \in BOOLEAN
        /\ schema.missed => /\ schema.left # {} /\ Turn.what = "field"
                            /\ \A d \in Core : Key("singular", d) # Turn.name
        /\ \A d \in Plain, i \in DOMAIN schema.resolver : Fits(d, i, schema.resolver[i])

(* A file is of a DocType that was no s form of another one at the time.   *)
FilesHaveCauses == Lone(doctypes) \subseteq apart /\ files \subseteq apart \cup picked

SchemaInv ==
    SchemaTypeOK /\ MapsAreRecent /\ LooksAreRecent /\ MapsKnowCore /\ WiringIsRight
    /\ FilesHaveCauses
=============================================================================
