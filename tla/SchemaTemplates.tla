-------------------------- MODULE SchemaTemplates --------------------------
(***************************************************************************)
(* From the attributes of a W3C schema three things are made: the JSON     *)
(* schema that is published, the columns of the CSV template that is       *)
(* filled for a bulk issue, and the nested value a filled row stands for.  *)
(* The code walks the tree of attributes three times, in three ways; the   *)
(* credentials are good only if the three agree.                           *)
(***************************************************************************)
EXTENDS Naturals, Sequences, FiniteSets, SequencesExt

CONSTANTS
  Schemas,    \* sets of attributes, as the gateway lets them through
  Numbered    \* names like "line1": name -> [prefix, index]

Simple == {"string", "number", "integer", "boolean", "datetime-local"}

IsArray(a)  == a.schemaDataType = "array"
IsObject(a) == a.schemaDataType = "object"

(* An array has items and no properties, an object the reverse; what lies  *)
(* in the properties of an object is not looked at.                        *)
RECURSIVE NestedStructureFields(_)
NestedStructureFields(a) ==
  /\ IsArray(a) <=> "items" \in DOMAIN a
  /\ IsObject(a) <=> "properties" \in DOMAIN a
  /\ IsArray(a) => \A i \in a.items : NestedStructureFields(i)

(* What the constants have to be; the suites assume it of their instances. *)
ConstantsAssumption ==
  /\ \A s \in Schemas : \A a \in s : NestedStructureFields(a)
  /\ \A n \in DOMAIN Numbered : Numbered[n].index \in Nat

VARIABLES
  attributes,  \* the schema: a set of trees
  published,   \* the JSON schema made of it
  columns,     \* the columns of its template: sequences of parts
  filled,      \* columns a person fills in
  value,       \* the nested row: path -> the column its cell comes from
  phase

vars == <<attributes, published, columns, filled, value, phase>>

Init ==
  /\ attributes \in Schemas
  /\ published = [properties |-> <<>>, required |-> {}]
  /\ columns = {} /\ filled = {} /\ value = <<>>
  /\ phase = "given"

-----------------------------------------------------------------------------
(* The published schema.                                                   *)
Validations(kind) ==
  CASE kind = "string" -> {"minLength", "maxLength", "pattern"}
    [] kind \in {"number", "integer"} -> {"minimum", "exclusiveMinimum", "multipleOf"}
    [] kind = "array" -> {"minItems", "maxItems", "uniqueItems"}
    [] OTHER -> {}

applyValidations(a) == a.limits \intersect Validations(a.schemaDataType)

Named(attrs, Make(_)) ==
  [n \in {a.attributeName : a \in attrs} |-> Make(CHOOSE a \in attrs : a.attributeName = n)]

RequiredOf(attrs) == {a.attributeName : a \in {b \in attrs : b.isRequired}}

(* Only on the first level, and in lists below an object, a date becomes a *)
(* string.                                                                 *)
Bare(a) == [type |-> a.schemaDataType, limits |-> applyValidations(a)]

FirstLevel(a) == [Bare(a) EXCEPT !.type = IF @ = "datetime-local" THEN "string" ELSE @]

(* A property of an object that stands in an array: only a list below it   *)
(* is followed, and the limits of that list are not applied.               *)
RECURSIVE processAttributes(_)

InnerProperty(p) ==
  IF IsArray(p) THEN [type |-> "array", limits |-> {}, items |-> processAttributes(p.items)] ELSE Bare(p)

ArrayItem(i) ==
  IF IsObject(i)
  THEN LET props == {i.properties[k] : k \in DOMAIN i.properties}
       IN [type |-> "object", limits |-> {}, properties |-> Named(props, InnerProperty), required |-> RequiredOf(props)]
  ELSE Bare(i)

ArrayProperty(a) ==
  [type |-> "array", limits |-> applyValidations(a),
   items |-> [properties |-> Named(a.items, ArrayItem), required |-> RequiredOf(a.items)]]

(* The properties of an object go by their attribute's name, what it       *)
(* requires by their key.                                                  *)
RequiredKeys(a) == {k \in DOMAIN a.properties : a.properties[k].isRequired}

ObjectProperty(a) ==
  LET Property(p) == IF IsArray(p)
                     THEN [type |-> "array", limits |-> applyValidations(p), items |-> processAttributes(p.items)]
                     ELSE Bare(p)
  IN [type |-> "object", limits |-> {}, required |-> RequiredKeys(a),
      properties |-> Named({a.properties[k] : k \in DOMAIN a.properties}, Property)]

processAttributes(attrs) ==
  LET Property(a) == IF IsArray(a) THEN ArrayProperty(a) ELSE IF IsObject(a) THEN ObjectProperty(a) ELSE FirstLevel(a)
  IN [properties |-> Named(attrs, Property), required |-> RequiredOf(attrs)]

w3cSchemaBuilder ==
  /\ phase = "given"
  /\ published' = processAttributes(attributes)
  /\ phase' = "published"
  /\ UNCHANGED <<attributes, columns, filled, value>>

-----------------------------------------------------------------------------
(* The template: one column for every leaf.  The first item of a list is   *)
(* part "0"; below an object stand the key and then the attribute's name.  *)
Zero == "0"

Children(a, here) ==
  CASE IsArray(a)  -> {<<i, Append(here, Zero)>> : i \in a.items}
    [] IsObject(a) -> {<<a.properties[k], Append(here, k)>> : k \in DOMAIN a.properties}
    [] OTHER       -> {}

RECURSIVE extractAttributeNames(_, _)
extractAttributeNames(a, parent) ==
  LET here == Append(parent, a.attributeName)
  IN IF a.schemaDataType \in Simple THEN {here}
     ELSE UNION {extractAttributeNames(c[1], c[2]) : c \in Children(a, here)}

DownloadTemplate ==
  /\ phase = "published"
  /\ columns' = UNION {extractAttributeNames(a, <<>>) : a \in attributes}
  /\ phase' = "template"
  /\ UNCHANGED <<attributes, published, filled, value>>

(* A person fills a row in: some of the columns, with all that is required *)
(* of the row and of each list and object that is begun.                   *)
RECURSIVE Whole(_, _, _)
Whole(a, parent, cells) ==
  LET here  == Append(parent, a.attributeName)
      begun == \E c \in cells : IsPrefix(here, c)
  IN /\ a.isRequired => begun
     /\ begun => \A c \in Children(a, here) : Whole(c[1], c[2], cells)

FillRow ==
  /\ phase = "template"
  /\ \E cells \in SUBSET columns :
       /\ \A a \in attributes : Whole(a, <<>>, cells)
       /\ filled' = cells
  /\ phase' = "filled"
  /\ UNCHANGED <<attributes, published, columns, value>>

-----------------------------------------------------------------------------
(* The nested row.  A part that is a number is a place in a list; a cell   *)
(* whose column ends with one is dropped.  In an item of a list, names     *)
(* that end with a number become places of a list themselves.              *)
Place(n) == [place |-> n]
Name(n)  == [name |-> n]

processRemainingParts(column) == column[Len(column)] # Zero

\* Wrong on purpose: names that differ only in their number fall together.
RECURSIVE mergeArrayObjects(_, _)
mergeArrayObjects(parts, inList) ==
  IF parts = <<>> THEN <<>>
  ELSE LET p == Head(parts)
       IN IF p = Zero THEN <<Place(0)>> \o mergeArrayObjects(Tail(parts), TRUE)
          ELSE IF inList /\ p \in DOMAIN Numbered
          THEN <<Name(Numbered[p].prefix), Place(Numbered[p].index)>> \o mergeArrayObjects(Tail(parts), TRUE)
          ELSE <<Name(p)>> \o mergeArrayObjects(Tail(parts), FALSE)

(* The list made of numbered names replaces what has the bare name.        *)
Replaced(path, paths) ==
  \E q \in paths : \E i \in 1..Len(path) :
    /\ IsPrefix(SubSeq(path, 1, i), q) /\ Len(q) > i /\ "place" \in DOMAIN q[i + 1]
    /\ i = Len(path) \/ "name" \in DOMAIN path[i + 1]

unflattenCsvRow ==
  /\ phase = "filled"
  /\ LET cells == {c \in filled : processRemainingParts(c)}
         At(c) == mergeArrayObjects(c, FALSE)
         paths == {At(c) : c \in cells}
     IN value' = [p \in {q \in paths : ~Replaced(q, paths)} |-> CHOOSE c \in cells : At(c) = p]
  /\ phase' = "nested"
  /\ UNCHANGED <<attributes, published, columns, filled>>

Next == w3cSchemaBuilder \/ DownloadTemplate \/ FillRow \/ unflattenCsvRow

Spec == Init /\ [][Next]_vars

-----------------------------------------------------------------------------
(* Whether a nested value is what a JSON schema asks for.                  *)
Heads(v)    == {p[1] : p \in {q \in DOMAIN v : q # <<>>}}
Below(v, h) == [p \in {Tail(q) : q \in {r \in DOMAIN v : r # <<>> /\ r[1] = h}} |-> v[<<h>> \o p]]
IsCell(v)   == <<>> \in DOMAIN v
IsList(v)   == Heads(v) # {} /\ \A h \in Heads(v) : "place" \in DOMAIN h

JsonTypes   == {"string", "number", "integer", "boolean", "array", "object"}

RECURSIVE Fits(_, _), FitsFields(_, _)
FitsFields(v, s) ==
  /\ \A n \in s.required : Name(n) \in Heads(v)
  /\ \A h \in Heads(v) : h.name \in DOMAIN s.properties => Fits(Below(v, h), s.properties[h.name])

Fits(v, s) ==
  CASE s.type = "array"  -> IsList(v) /\ ("items" \in DOMAIN s => \A h \in Heads(v) : FitsFields(Below(v, h), s.items))
    [] s.type = "object" -> ~IsCell(v) /\ ~IsList(v) /\ ("properties" \in DOMAIN s => FitsFields(v, s))
    [] OTHER             -> IsCell(v) /\ s.type \in JsonTypes

(* A filled template nests to a row that the published schema accepts: the *)
(* builder, the extractor and unflattenCsvRow agree on where things are.   *)
(* The id of the subject is left aside: no row has it.                     *)
TemplateFits ==
  phase = "nested" =>
    /\ FitsFields(value, published)
    /\ \A h \in Heads(value) : h.name \in DOMAIN published.properties

(* No cell of a filled row is lost by nesting it, and none is put where    *)
(* another one is.                                                         *)
CellsKept == phase = "nested" => {value[p] : p \in DOMAIN value} = filled

=============================================================================
