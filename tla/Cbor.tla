-------------------------------- MODULE Cbor --------------------------------
(***************************************************************************)
(* The zcbor library as the generated codec uses it: CBOR items, the types *)
(* a generated function reads or writes, and what reading and writing do.  *)
(*                                                                         *)
(* An item is a pair of its major type and its content: <<"uint", 6>>,     *)
(* <<"list", <<...>>>>.  A byte string is known by its length.  A map is a *)
(* sequence of items <<"pair", <<key, item>>>>: the generated code reads   *)
(* the keys in a fixed order.  Encodings are canonical.                    *)
(***************************************************************************)
EXTENDS Integers, Sequences, SequencesExt, FiniteSetsExt

\* Items.
Uint(n) == <<"uint", n>>
Bstr(len) == <<"bstr", len>>
Tstr(s) == <<"tstr", s>>
Bool(b) == <<"bool", b>>
List(items) == <<"list", items>>
Map(pairs) == <<"map", pairs>>
Pair(key, item) == <<"pair", <<key, item>>>>

-----------------------------------------------------------------------------
\* Types.  A scalar has its major types and the contents in range.
Scalar(tags, in) == [kind |-> "scalar", tags |-> tags, in |-> in]
UintIn(in) == Scalar({"uint"}, in)
uint32 == UintIn(Nat)
int32 == Scalar({"uint", "nint"}, Int)
BstrIn(lens) == Scalar({"bstr"}, lens)
bstr == BstrIn(Nat)
tstr == Scalar({"tstr"}, STRING)
bool == Scalar({"bool"}, BOOLEAN)

\* A pair with a fixed key, and one with any text for a key.
Key(key, type) == [kind |-> "pair", key |-> key, type |-> type]
AnyKey(type) == [kind |-> "anypair", type |-> type]

\* Lists and maps are made of parts; a part is one item, at most one, or
\* several, and fills the field of the struct that its label names.  An
\* operation code fills none.
Part(label, min, max, type) == [label |-> label, min |-> min, max |-> max, type |-> type]
One(label, type) == Part(label, 1, 1, type)
Opt(label, type) == Part(label, 0, 1, type)
Many(label, max, type) == Part(label, 0, max, type)
Op(n) == One("", UintIn({n}))
ListOf(parts) == [kind |-> "list", of |-> parts]
MapOf(parts) == [kind |-> "map", of |-> parts]

\* Alternatives, tried in order.
UnionOf(choices) == [kind |-> "union", of |-> choices]

\* An entry function with states[n]: two of them are not for backups.
Entry(n, type) == [backups |-> n - 2, type |-> type]

-----------------------------------------------------------------------------
\* Reading.  Every list, map and union holds a backup while it is read.
RECURSIVE Accepts(_, _, _), Split(_, _, _)

Split(b, parts, items) ==
  IF parts = <<>> THEN <<items>>
  ELSE LET part == Head(parts)
           taken == Max({n \in 0..Len(items) : n <= part.max
                           /\ \A i \in 1..n : Accepts(b, part.type, items[i])})
       IN <<SubSeq(items, 1, taken)>>
            \o Split(b, Tail(parts), SubSeq(items, taken + 1, Len(items)))

\* zcbor_list_end_decode and zcbor_map_end_decode: nothing is left over.
AcceptsAll(b, parts, items) ==
  LET groups == Split(b, parts, items)
  IN Last(groups) = <<>> /\ \A i \in DOMAIN parts : Len(groups[i]) >= parts[i].min

Accepts(b, t, x) ==
  CASE t.kind = "scalar" -> x[1] \in t.tags /\ x[2] \in t.in
    [] t.kind = "pair" -> x[1] = "pair" /\ x[2][1] = t.key /\ Accepts(b, t.type, x[2][2])
    [] t.kind = "anypair" -> x[1] = "pair" /\ Accepts(b, t.type, x[2][2])
    [] t.kind = "union" -> b > 0 /\ \E i \in DOMAIN t.of : Accepts(b - 1, t.of[i].type, x)
    [] OTHER -> b > 0 /\ x[1] = t.kind /\ AcceptsAll(b - 1, t.of, x[2])

\* The struct an accepted item is read into.
RECURSIVE Value(_, _, _)

Value(b, t, x) ==
  CASE t.kind = "scalar" -> x[2]
    [] t.kind = "pair" -> Value(b, t.type, x[2][2])
    [] t.kind = "anypair" -> <<x[2][1], Value(b, t.type, x[2][2])>>
    [] t.kind = "union" ->
         LET i == Min({j \in DOMAIN t.of : Accepts(b - 1, t.of[j].type, x)})
         IN [choice |-> t.of[i].label, m |-> Value(b - 1, t.of[i].type, x)]
    [] OTHER ->
         LET groups == Split(b - 1, t.of, x[2])
             Filled == {i \in DOMAIN t.of : t.of[i].label # "" /\ (t.of[i].max > 1 \/ groups[i] # <<>>)}
             Index(l) == CHOOSE i \in Filled : t.of[i].label = l
             Read(i) == [j \in DOMAIN groups[i] |-> Value(b - 1, t.of[i].type, groups[i][j])]
         IN [l \in {t.of[i].label : i \in Filled} |->
               IF t.of[Index(l)].max > 1 THEN Read(Index(l)) ELSE Read(Index(l))[1]]

Decodes(entry, x) == Accepts(entry.backups, entry.type, x)
Decoded(entry, x) == Value(entry.backups, entry.type, x)

-----------------------------------------------------------------------------
\* Writing.  Lists and maps hold a backup, their head is patched at the end.
Given(part, struct) ==
  CASE part.label = "" -> <<CHOOSE n \in part.type.in : TRUE>>
    [] part.label # "" /\ part.label \notin DOMAIN struct -> <<>>
    [] OTHER -> IF part.max > 1 THEN struct[part.label] ELSE <<struct[part.label]>>

Choice(t, v) == CHOOSE i \in DOMAIN t.of : t.of[i].label = v.choice

RECURSIVE Writes(_, _, _), Item(_, _)

Writes(b, t, v) ==
  CASE t.kind = "scalar" -> v \in t.in
    [] t.kind = "pair" -> Writes(b, t.type, v)
    [] t.kind = "anypair" -> Writes(b, t.type, v[2])
    [] t.kind = "union" -> Writes(b, t.of[Choice(t, v)].type, v.m)
    [] OTHER -> b > 0 /\ \A i \in DOMAIN t.of :
         LET given == Given(t.of[i], v)
         IN /\ Len(given) \in t.of[i].min..t.of[i].max
            /\ \A j \in DOMAIN given : Writes(b - 1, t.of[i].type, given[j])

Item(t, v) ==
  CASE t.kind = "scalar" ->
         IF t.tags = {"uint", "nint"} THEN <<IF v < 0 THEN "nint" ELSE "uint", v>>
         ELSE <<CHOOSE tag \in t.tags : TRUE, v>>
    [] t.kind = "pair" -> Pair(t.key, Item(t.type, v))
    [] t.kind = "anypair" -> Pair(v[1], Item(t.type, v[2]))
    [] t.kind = "union" -> Item(t.of[Choice(t, v)].type, v.m)
    [] OTHER -> <<t.kind, FlattenSeq([i \in DOMAIN t.of |->
         LET given == Given(t.of[i], v) IN [j \in DOMAIN given |-> Item(t.of[i].type, given[j])]])>>

\* The bytes of an item; a head takes its argument along when it is small.
HeadSize(n) == IF n < 24 THEN 1 ELSE IF n < 256 THEN 2 ELSE IF n < 65536 THEN 3 ELSE 5

RECURSIVE Size(_)

SizeAll(items) == FoldSeq(LAMBDA x, n : n + Size(x), 0, items)

Size(x) ==
  CASE x[1] = "uint" -> HeadSize(x[2])
    [] x[1] = "nint" -> HeadSize(-1 - x[2])
    [] x[1] = "bstr" -> HeadSize(x[2]) + x[2]
    [] x[1] = "tstr" -> HeadSize(Len(x[2])) + Len(x[2])
    [] x[1] = "bool" -> 1
    [] x[1] = "pair" -> Size(Tstr(x[2][1])) + Size(x[2][2])
    [] OTHER -> HeadSize(Len(x[2])) + SizeAll(x[2])

Encoded(entry, v) == Item(entry.type, v)
Encodes(entry, v, room) ==
  Writes(entry.backups, entry.type, v) /\ Size(Encoded(entry, v)) <= room
=============================================================================
