------------------------------ MODULE LogRecord ------------------------------
(***************************************************************************)
(* Log records as the processors see them, and what they all do with them. *)
(*                                                                         *)
(* A text is a record: its form names the pattern it was written with, and *)
(* the other fields are what that pattern captures.  A regular expression  *)
(* of the code is thus a test of the form, its groups are fields, and a    *)
(* message the code composes is a text of a form of its own.  A text that  *)
(* contains another has it as its field content.                           *)
(***************************************************************************)
EXTENDS Integers, Sequences, FiniteSets, TLC, SequencesExt

CONSTANTS
    Base,           \* the last part of a path that names a service or a command
    Components      \* the runs of words between dashes of a longer name

\* The text "".
Empty == [form |-> "empty"]

\* A body is a text, or a map of named fields.
IsMap(body) == body.form = "map"

\* The value of a key that may be missing.
Str(f, key)    == IF key \in DOMAIN f THEN f[key] ELSE ""
TextAt(f, key) == IF key \in DOMAIN f THEN f[key] ELSE Empty

\* A map with the entries of another, which replace its own.
PutAll(f, g) ==
    [key \in DOMAIN f \cup DOMAIN g |-> IF key \in DOMAIN g THEN g[key] ELSE f[key]]
Put(f, key, value)    == PutAll(f, [k \in {key} |-> value])
PutNew(f, key, value) == IF key \in DOMAIN f THEN f ELSE Put(f, key, value)

Without(f, keys) == [key \in DOMAIN f \ keys |-> f[key]]

\* The entries of a function to strings that are not "".
NonEmpty(f) == Without(f, {key \in DOMAIN f : f[key] = ""})

\* What a text captured, under the names of attributes: table maps each attribute
\* to a field of the text, which may be missing or "".
Named(captures, table) ==
    NonEmpty([name \in {n \in DOMAIN table : table[n] \in DOMAIN captures} |->
                 captures[table[name]]])

\* The entries of f under names that start with prefix.
Prefixed(prefix, f) ==
    [name \in {prefix \o key : key \in DOMAIN f} |->
        f[CHOOSE key \in DOMAIN f : name = prefix \o key]]

\* The name ends with a slash and last.
PathTo(name, last) == name \in DOMAIN Base /\ Base[name] = last

\* containsComponent: the name is component, or has it between dashes.
HasComponent(name, component) ==
    name = component \/ (name \in DOMAIN Components /\ component \in Components[name])

\* A resource belongs to a service by one of the attributes that name it.
IsOfService(res, keys, service) ==
    \E key \in keys \cap DOMAIN res : HasComponent(res[key], service)

\* Unspecified severity is 0.
Sev(number, text) == [number |-> number, text |-> text]

TRACE == Sev(1, "TRACE")
DEBUG == Sev(5, "DEBUG")
INFO  == Sev(9, "INFO")
WARN  == Sev(13, "WARN")
ERROR == Sev(17, "ERROR")
FATAL == Sev(21, "FATAL")

\* The text most parsers read: a body that is a string, or the field text of a map.
BodyText(body) ==
    IF ~IsMap(body) THEN body ELSE TextAt(body.fields, "text")

SetAttrs(rec, attrs) == [rec EXCEPT !.attrs = PutAll(@, attrs)]

\* Mutant: what an earlier processor saved is overwritten.
SavedAgain(attrs, text) == Put(attrs, "original_message", text)

\* The text a record came with is saved unless an earlier processor has saved one.
SavedOnce(attrs, text) == PutNew(attrs, "original_message", text)

\* The record with a new body when rewriting is on and there is one.
Rewritten(rec, rewrite, text) ==
    IF rewrite /\ text # Empty THEN [rec EXCEPT !.body = text] ELSE rec

\* The elements of a sequence at the places in I, in their order.
Picked(seq, I) ==
    [k \in 1 .. Cardinality(I) |->
        seq[CHOOSE i \in I : Cardinality({j \in I : j <= i}) = k]]

\* RemoveIf, of the groups that are left without records.
Filled(groups) == Picked(groups, {i \in DOMAIN groups : groups[i].recs # <<>>})

\* A resource, and what is left of one of its records.
Outcome(res, rec) == [res |-> res, recs |-> <<rec>>]

==============================================================================
