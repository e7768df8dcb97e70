----------------------------- MODULE JsonValue -----------------------------
(***************************************************************************)
(* The JSON library of the proxy, first half: the class Value              *)
(* (src/src/proxy/Json/value.h, json_value.cpp, json_valueiterator.inl)    *)
(* compiled the way the makefile compiles it, without                      *)
(* JSON_VALUE_USE_INTERNAL_MAP: arrays and objects are both a std::map of  *)
(* children, keyed by an index or by a member name.                        *)
(*                                                                         *)
(* A value is a record.  "num" is the number of an int, a uint or a bool,  *)
(* twice the number of a real (finite reals are multiples of one half      *)
(* here), and the number of a string among the texts of the instance,      *)
(* which are in strcmp order; 0 is the string without a text that          *)
(* Value(stringValue) makes.  Member names are such numbers too, from 1.   *)
(* A std::string with a zero byte inside, which the code uses up to it, is *)
(* left out.  "notes" holds the three comments of the value, each a        *)
(* sequence of lexemes, empty if none.  Integers are IntBits wide.         *)
(***************************************************************************)
EXTENDS Integers, SequencesExt

CONSTANT IntBits                 \* bits of Value::Int and Value::UInt

maxUInt == 2 ^ IntBits - 1
maxInt == maxUInt \div 2
minInt == -(maxInt + 1)

NoNotes == [before |-> <<>>, same |-> <<>>, after |-> <<>>]

\* The constructors: a value of a type, with the number it is given.
Value(type, num) == [type |-> type, num |-> num, kids |-> <<>>, notes |-> NoNotes]

null == Value("null", 0)

\* The reals that are not finite: beyond the numbers of an instance, NaN last
\* so that, as in the code, it is in no range that is asked for.
Infinity == 2 ^ (2 * IntBits + 2)
NaN == Infinity + 1
Finite(num) == num > -Infinity /\ num < Infinity
IsNaN(v) == v.type = "real" /\ v.num = NaN

\* operator=: a copy is made and swapped in, and swap leaves the comments
\* where they are.
Assign(node, other) == [other EXCEPT !.notes = node.notes]

(***************************************************************************)
(* Reading a value.                                                        *)
(***************************************************************************)
isArray(v)  == v.type \in {"null", "array"}
isObject(v) == v.type \in {"null", "object"}

size(v) ==
    CASE v.type = "array"  -> IF DOMAIN v.kids = {} THEN 0 ELSE Max(DOMAIN v.kids) + 1
      [] v.type = "object" -> Cardinality(DOMAIN v.kids)
      [] OTHER             -> 0

\* The constant operator[], of an array and of an object alike: a missing
\* child reads as null.
Child(v, key) == IF key \in DOMAIN v.kids THEN v.kids[key] ELSE null

SortedKeys(v) == SetToSortSeq(DOMAIN v.kids, <)
getMemberNames(v) == IF v.type = "null" THEN <<>> ELSE SortedKeys(v)

(***************************************************************************)
(* Comparing values: by type, then by number, by text, or by size and then *)
(* lexicographically over the pairs of key and child (std::map's own <).   *)
(* A string without a text comes before every text.                        *)
(***************************************************************************)
Types == <<"null", "int", "uint", "real", "string", "bool", "array", "object">>
Rank(v) == CHOOSE i \in DOMAIN Types : Types[i] = v.type

RECURSIVE Less(_, _), Equal(_, _)
Less(v, w) ==
    IF v.type # w.type THEN Rank(v) < Rank(w)
    ELSE IF v.type \notin {"array", "object"}
    THEN v.num < w.num /\ ~IsNaN(v) /\ ~IsNaN(w)
    ELSE LET n == Cardinality(DOMAIN v.kids)
             a == SortedKeys(v)
             b == SortedKeys(w)
         IN \/ n < Cardinality(DOMAIN w.kids)
            \/ /\ n = Cardinality(DOMAIN w.kids)
               /\ \E i \in 1 .. n :
                     /\ \A j \in 1 .. i - 1 :
                           a[j] = b[j] /\ Equal(v.kids[a[j]], w.kids[b[j]])
                     /\ \/ a[i] < b[i]
                        \/ a[i] = b[i] /\ Less(v.kids[a[i]], w.kids[b[i]])

Equal(v, w) ==
    /\ v.type = w.type
    /\ IF v.type \in {"array", "object"}
       THEN /\ DOMAIN v.kids = DOMAIN w.kids
            /\ \A k \in DOMAIN v.kids : Equal(v.kids[k], w.kids[k])
       ELSE v.num = w.num /\ ~IsNaN(v)

(***************************************************************************)
(* Conversions.  Each gives a number or throws.                            *)
(***************************************************************************)
Throws == [ok |-> FALSE, num |-> 0]
Gives(n) == [ok |-> TRUE, num |-> n]
Truncated(halves) == IF halves >= 0 THEN halves \div 2 ELSE -((-halves) \div 2)

asInt(v) ==
    CASE v.type = "null" -> Gives(0)
      [] v.type = "int"  -> Gives(v.num)
      [] v.type = "bool" -> Gives(v.num)
      [] v.type = "uint" /\ v.num < maxInt -> Gives(v.num)
      [] v.type = "real" /\ v.num >= 2 * minInt /\ v.num <= 2 * maxInt -> Gives(Truncated(v.num))
      [] OTHER -> Throws

\* A slip: the sign of an int is not looked at.
asUIntUnsigned(v) ==
    IF v.type = "int" THEN Gives(v.num % 2 ^ IntBits)
    ELSE IF v.type \in {"null", "uint", "bool"} THEN Gives(v.num) ELSE Throws

asUInt(v) ==
    CASE v.type = "null" -> Gives(0)
      [] v.type = "uint" -> Gives(v.num)
      [] v.type = "bool" -> Gives(v.num)
      [] v.type = "int"  /\ v.num >= 0 -> Gives(v.num)
      [] v.type = "real" /\ v.num >= 0 /\ v.num <= 2 * maxUInt -> Gives(Truncated(v.num))
      [] OTHER -> Throws

\* Twice the number, as reals are kept.
asDouble(v) ==
    CASE v.type = "null" -> Gives(0)
      [] v.type = "real" -> Gives(v.num)
      [] v.type \in {"int", "uint", "bool"} -> Gives(2 * v.num)
      [] OTHER -> Throws

\* Text 1 is the empty string, 0 stands for no text.
asBool(v) ==
    CASE v.type \in {"array", "object"} -> DOMAIN v.kids # {}
      [] v.type = "string" -> v.num > 1
      [] OTHER -> v.num # 0

asString(v) == v.type \in {"null", "string", "bool"}        \* it does not throw

isConvertibleTo(v, other) ==
    CASE v.type = "null" -> TRUE
      [] v.type = "int" ->
            \/ other \in {"int", "real", "string", "bool"}
            \/ other = "null" /\ v.num = 0
            \/ other = "uint" /\ v.num >= 0
      [] v.type = "uint" ->
            \/ other \in {"uint", "real", "string", "bool"}
            \/ other = "null" /\ v.num = 0
            \/ other = "int" /\ v.num <= maxInt
      [] v.type = "real" ->
            \/ other \in {"real", "string", "bool"}
            \/ other = "null" /\ v.num = 0
            \/ other = "int" /\ v.num >= 2 * minInt /\ v.num <= 2 * maxInt
            \/ other = "uint" /\ v.num >= 0 /\ v.num <= 2 * maxUInt
      [] v.type = "bool" ->
            \/ other \in {"int", "uint", "real", "string", "bool"}
            \/ other = "null" /\ v.num = 0
      [] v.type = "string" -> other = "string" \/ (other = "null" /\ v.num <= 1)
      [] OTHER -> other = v.type \/ (other = "null" /\ DOMAIN v.kids = {})

(***************************************************************************)
(* Changing a value.                                                       *)
(***************************************************************************)
\* What a null value turns into before it is given its first child.
Become(v, type) == IF v.type = "null" THEN Assign(v, Value(type, 0)) ELSE v

WithChild(v, key) ==
    IF key \in DOMAIN v.kids THEN v ELSE [v EXCEPT !.kids = (key :> null) @@ @]

\* The two operators[] that create the child they name.
Element(v, index) == WithChild(Become(v, "array"), index)
resolveReference(v, name) == WithChild(Become(v, "object"), name)

append(v, value) ==
    LET at == size(v)
        w  == Element(v, at)
    IN [w EXCEPT !.kids[at] = Assign(@, value)]

removeMember(v, name) == [v EXCEPT !.kids = [k \in DOMAIN @ \ {name} |-> @[k]]]

clear(v) == [v EXCEPT !.kids = <<>>]

\* Growing an array creates its last element only; shrinking it erases what
\* lies beyond, and the assertion at the end wants the size that was asked.
resize(v, newSize) ==
    LET a == Become(v, "array")
    IN IF newSize = 0 THEN clear(a)
       ELSE IF newSize > size(a) THEN Element(a, newSize - 1)
       ELSE [a EXCEPT !.kids = [k \in DOMAIN @ \ (newSize .. size(a) - 1) |-> @[k]]]

ResizeAsserts(v, newSize) == newSize = 0 \/ size(resize(v, newSize)) = newSize

setComment(v, placement, text) == [v EXCEPT !.notes[placement] = text]

(***************************************************************************)
(* Paths: the arguments of a Path, and the stack of nodes of the Reader,   *)
(* are sequences of keys from the root.                                    *)
(***************************************************************************)
RECURSIVE Leads(_, _), At(_, _), Put(_, _, _)
Leads(root, path) ==
    path = <<>> \/ (Head(path) \in DOMAIN root.kids /\ Leads(root.kids[Head(path)], Tail(path)))

\* Path::resolve: every missing node on the way reads as null.
At(root, path) ==
    IF path = <<>> THEN root ELSE At(Child(root, Head(path)), Tail(path))

\* The root with the node at an existing path replaced.
Put(root, path, node) ==
    IF path = <<>> THEN node
    ELSE [root EXCEPT !.kids[Head(path)] = Put(@, Tail(path), node)]

\* Path::make with name arguments: every node on the way is created, which
\* takes that each is null or an object.
RECURSIVE MayMake(_, _), make(_, _)
MayMake(root, path) ==
    IF path = <<>> THEN TRUE
    ELSE isObject(root) /\ MayMake(Child(root, Head(path)), Tail(path))

make(root, path) ==
    IF path = <<>> THEN root
    ELSE LET w == resolveReference(root, Head(path))
         IN [w EXCEPT !.kids[Head(path)] = make(@, Tail(path))]
=============================================================================
