----------------------------- MODULE Documents -----------------------------
(***************************************************************************)
(* A program that builds a JSON value by any sequence of legal calls,      *)
(* writes it, and reads back what it wrote, whole or damaged: the way the  *)
(* proxy reports to redis (RedisServer.cpp:108-120) and any reader of such *)
(* a report use the library of JsonValue and JsonText.                     *)
(***************************************************************************)
EXTENDS JsonText

CONSTANTS
    Scalars,         \* the values without children that are stored
    Comments,        \* the comments a caller sets: pairs of a placement and the lexemes
    MaxIndex,        \* bound: the largest array index used
    MaxNodes,        \* bound: values in a document
    MaxNotes,        \* bound: comments in a document
    MaxNoteLen       \* bound: lexemes of one comment

VARIABLE root

vars == <<root>>

(***************************************************************************)
(* Bounds and places.                                                      *)
(***************************************************************************)
RECURSIVE Paths(_)
Paths(v) == {<<>>} \cup UNION {{<<k>> \o p : p \in Paths(v.kids[k])} : k \in DOMAIN v.kids}

Placements == {"before", "same", "after"}
NoteCount(v) ==
    Cardinality({pq \in Paths(v) \X Placements : At(v, pq[1]).notes[pq[2]] # <<>>})

Small(v) ==
    /\ Cardinality(Paths(v)) <= MaxNodes
    /\ NoteCount(v) <= MaxNotes
    /\ \A p \in Paths(v), at \in Placements : Len(At(v, p).notes[at]) <= MaxNoteLen

\* A call on the value at a path; the program keeps what comes of it.
Call(path, node) == Small(Put(root, path, node)) /\ root' = Put(root, path, node)

(***************************************************************************)
(* The calls.                                                              *)
(***************************************************************************)
Init == root = null

Store(path, value) == Call(path, Assign(At(root, path), value))

MakeElement(path, index) ==
    isArray(At(root, path)) /\ Call(path, Element(At(root, path), index))

MakeMember(path, name) ==
    isObject(At(root, path)) /\ Call(path, resolveReference(At(root, path), name))

MakePath(path, names) ==
    MayMake(At(root, path), names) /\ Call(path, make(At(root, path), names))

AppendTo(path, value) ==
    /\ isArray(At(root, path))
    /\ size(At(root, path)) <= MaxIndex
    /\ Call(path, append(At(root, path), value))

RemoveMember(path, name) ==
    /\ At(root, path).type = "object"
    /\ name \in DOMAIN At(root, path).kids
    /\ Call(path, removeMember(At(root, path), name))

Clear(path) ==
    At(root, path).type \in {"array", "object"} /\ Call(path, clear(At(root, path)))

\* Where the assertion at the end of resize fails the program has stopped.
Resize(path, newSize) ==
    /\ isArray(At(root, path))
    /\ ResizeAsserts(At(root, path), newSize)
    /\ Call(path, resize(At(root, path), newSize))

\* A comment behind a value "only makes sense for the root".  A comment is one:
\* the code only looks at its first character, which must be a slash.
SetComment(path, placement, text) ==
    /\ placement = "after" => path = <<>>
    /\ Call(path, setComment(At(root, path), placement, text))

\* The value is written, the text loses its lexeme number "lost" (none if 0),
\* and what the reader makes of it is the value from here on.  A string without
\* a text ends the program that writes it.
Everywhere(v, P(_)) == \A p \in Paths(v) : P(At(v, p))
HasTexts(v) == Everywhere(v, LAMBDA w : w.type = "string" => w.num # 0)

Written(writer, v) ==
    CASE writer = "fast"   -> FastWriter(v)
      [] writer = "styled" -> StyledWriter(v)
      [] writer = "stream" -> StyledStreamWriter(v)
Writers == {"fast", "styled", "stream"}

Damaged(text, lost) == IF lost = 0 THEN text ELSE RemoveAt(text, lost)

Reload(writer, lost) ==
    /\ HasTexts(root)
    /\ lost <= Len(Written(writer, root))
    /\ root' = parse(Damaged(Written(writer, root), lost), TRUE).root
    /\ Small(root')

Next ==
    \/ \E p \in Paths(root) :
          \/ \E v \in Scalars : Store(p, v) \/ AppendTo(p, v)
          \/ \E i \in 0 .. MaxIndex : MakeElement(p, i)
          \/ \E n \in DOMAIN Texts : MakeMember(p, n) \/ RemoveMember(p, n)
          \/ \E n, m \in DOMAIN Texts : MakePath(p, <<n, m>>)
          \/ \E n \in 0 .. MaxIndex + 1 : Resize(p, n)
          \/ Clear(p)
          \/ \E c \in Comments : SetComment(p, c[1], c[2])
    \/ \E w \in Writers : Reload(w, 0)
    \/ Reload("styled", 3)

Spec == Init /\ [][Next]_vars

(***************************************************************************)
(* Properties.                                                             *)
(***************************************************************************)
\* What a value says: the kinds of number fall together, the holes of an
\* array are nulls, and the comments are left out.
RECURSIVE Shown(_)
Shown(v) ==
    [kind |-> IF v.type \in {"int", "uint", "real"} THEN "number" ELSE v.type,
     num  |-> IF v.type \in {"int", "uint"} THEN 2 * v.num ELSE v.num,
     kids |-> [k \in IF v.type = "array" THEN 0 .. size(v) - 1 ELSE DOMAIN v.kids |->
                  Shown(Child(v, k))]]

\* An array in the document whose last element has a comment behind it.
RECURSIVE TailNoted(_)
TailNoted(v) ==
    \/ /\ v.type = "array"
       /\ size(v) > 0
       /\ LET last == Child(v, size(v) - 1).notes IN last.same # <<>> \/ last.after # <<>>
    \/ \E k \in DOMAIN v.kids : TailNoted(v.kids[k])

Says(r, value) == r.ok /\ r.errors = 0 /\ Shown(r.root) = Shown(value)
ReadsBack(text) == Says(parse(text, TRUE), root)

\* A real that RealDigits decimal digits hold.
Short(num) ==
    LET tenths == 5 * (IF num < 0 THEN -num ELSE num) IN
    Finite(num) /\ \E k \in 0 .. Len(uintToString(tenths)) :
        tenths % 10 ^ k = 0 /\ tenths \div 10 ^ k < 10 ^ RealDigits

\* A value that JSON as the writers make it can hold.
Writable(v) == HasTexts(v) /\ Everywhere(v, LAMBDA w : w.type = "real" => Short(w.num))

\* A comment on the line of a value below the root that begins with // and ends
\* with a blank.
BlankEnded(v) ==
    \E p \in Paths(v) \ {<<>>} : LET note == At(v, p).notes.same IN
        note # <<>> /\ Last(note) = SP /\ \E i \in DOMAIN note : note[i].t = "line"


Settled(r) == (r.ok <=> r.errors = 0) /\ ~r.wild /\ r.path = <<>>

\* A text that has lost a lexeme is either refused, with an error on record
\* to say so, or read without one; and in no case does the reader touch a
\* value it no longer has when it hangs a comment on the last one it read.
ReaderSound ==
    HasTexts(root) => LET text == StyledWriter(root) IN
        \A damaged \in {Damaged(text, lost) : lost \in 0 .. Len(text)} :
            Settled(parse(damaged, TRUE))

\* Values are totally ordered: of any two exactly one is less, or they are
\* equal, and equal values are written alike.  NaN, of which neither holds,
\* spoils this for the values it is in.
Samples == Scalars \cup {Value("array", 0), Value("object", 0), append(null, null)}
                   \cup {append(null, v) : v \in Scalars} \cup {At(root, p) : p \in Paths(root)}
Ordered(v) == Everywhere(v, LAMBDA w : ~IsNaN(w))
OrderIsTotal ==
    \A v \in Samples : Ordered(v) /\ Ordered(root) =>
        /\ Cardinality({b \in {"less", "more", "equal"} :
                           CASE b = "less"  -> Less(v, root)
                             [] b = "more"  -> Less(root, v)
                             [] b = "equal" -> Equal(v, root)}) = 1
        /\ Equal(v, root) /\ HasTexts(root) => FastWriter(v) = FastWriter(root)

\* What isConvertibleTo promises, the conversion does: it does not throw, and
\* what can pass for null is what asBool calls false.  The exceptions are in
\* the code: maxInt held as a uint, which asInt refuses, and numbers, which
\* asString refuses.
ConversionsAgree ==
    \A p \in Paths(root) : LET v == At(root, p) IN
        /\ isConvertibleTo(v, "int") => asInt(v).ok \/ (v.type = "uint" /\ v.num = maxInt)
        /\ isConvertibleTo(v, "uint") => asUInt(v).ok /\ asUInt(v).num \in 0 .. maxUInt
        /\ isConvertibleTo(v, "real") => asDouble(v).ok
        /\ isConvertibleTo(v, "string") => asString(v) \/ v.type \in {"int", "uint", "real"}
        /\ isConvertibleTo(v, "null") <=> ~asBool(v)
        /\ (asInt(v).ok /\ v.type # "null") => isConvertibleTo(v, "int")

\* Whoever sorts, compares or converts values is told the same by every function
\* that answers (json_value.cpp:548-852).
AnswersAgree == OrderIsTotal /\ ConversionsAgree

StaysIn(r) ==
    \A p \in Paths(root) :
        (r.ok /\ At(root, p).notes.before # <<>>) => At(r.root, p).notes.before # <<>>

\* The documentation of StyledWriter says of comments that they "are outputed
\* according to their CommentPlacement", and of commentBefore that it is
\* "placed on the line before a value": read again, a comment in front of a
\* value is in front of it.
CommentsStay == HasTexts(root) => StaysIn(parse(StyledWriter(root), TRUE))
=============================================================================
