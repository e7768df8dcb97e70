---------------------------- MODULE ElementTree -----------------------------
(***************************************************************************)
(* What a document promises its user: an ordered tree of elements with       *)
(* attributes and data, of which an edit changes the one place it is asked   *)
(* to.  A path leads from the root to an element by the places of its         *)
(* ancestors among their siblings.  Text, comments and other nodes between   *)
(* the elements show only in the data of an element, which it has while it   *)
(* has no children.  Nothing is promised once trusted is FALSE.              *)
(***************************************************************************)
EXTENDS Integers, Sequences, SequencesExt

VARIABLES
  forest,  \* the roots, one at most: a sequence of [name, attrs, data, kids]
  asked,   \* the edit of the last step: [op, path, at, key, text, elem]
  trusted

RECURSIVE KidsAt(_, _), Within(_, _, _)
\* The children of the element at a path, and the siblings with others in their place.
KidsAt(kids, path) == IF path = <<>> THEN kids ELSE KidsAt(kids[Head(path)].kids, Tail(path))
Within(kids, path, new) ==
  IF path = <<>> THEN new
  ELSE [kids EXCEPT ![Head(path)].kids = Within(@, Tail(path), new)]

ElementAt(kids, path) == KidsAt(kids, Front(path))[Last(path)]
With(kids, path, e) == Within(kids, Front(path), [KidsAt(kids, Front(path)) EXCEPT ![Last(path)] = e])

WithoutData(kids, path) ==
  IF path = <<>> THEN kids ELSE With(kids, path, [ElementAt(kids, path) EXCEPT !.data = <<>>])

\* The same but for the data of the element at a path.
SameApart(a, b, path) == WithoutData(a, path) = WithoutData(b, path)

Effect(edit) ==
  LET kids == KidsAt(forest, edit.path)
      e == ElementAt(forest, edit.path)
  IN CASE edit.op = "insert" ->
            forest' = WithoutData(Within(forest, edit.path, InsertAt(kids, edit.at, edit.elem)), edit.path)
       [] edit.op = "remove" ->
            SameApart(forest', Within(forest, edit.path, RemoveAt(kids, edit.at)), edit.path)
       [] edit.op = "attr" -> forest' = With(forest, edit.path, [e EXCEPT !.attrs[edit.key] = edit.text])
       [] edit.op = "data" -> forest' = With(forest, edit.path, [e EXCEPT !.data = edit.text])
       [] edit.op \in {"text", "cut"} -> SameApart(forest', forest, edit.path)
       [] edit.op = "load" -> TRUE
       [] OTHER -> UNCHANGED forest

Init == asked.op = "none" /\ trusted = TRUE
Next == (trusted /\ trusted') => Effect(asked')
Spec == Init /\ [][Next]_<<forest, asked, trusted>>
=============================================================================
