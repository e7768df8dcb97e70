------------------------------- MODULE Markup -------------------------------
(***************************************************************************)
(* CMarkupSTL, which reads the configuration and can edit it: the text of a *)
(* document, an array with the offsets and links of its elements, and the    *)
(* current position.  Every edit changes the text and adjusts the offsets    *)
(* behind it, instead of parsing again.                                      *)
(*                                                                         *)
(* The document is the record m; the operators below return what a method    *)
(* makes of one.  The situations in which the code loses track of its        *)
(* offsets are named; a document is followed no further after one of them.   *)
(***************************************************************************)
EXTENDS MarkupText

CONSTANTS
  Docs, SubDocs,       \* texts to load and to insert
  Names, AttrNames, Values, Paths,
  NodeTypes,           \* kinds of node that are added
  Sought,              \* sets of kinds FindNode looks for, {} for any
  MaxPos, MaxEdits     \* bounds: positions of elements, edits

VARIABLES
  m,
  tree,    \* what a reader of the document finds
  asked,   \* the edit of the last step, in terms of the tree
  skewed,  \* the offsets may have been lost
  edits

vars == <<m, tree, asked, skewed, edits>>

SetPos(d, parent, cur, child) ==
  [d EXCEPT !.parent = parent, !.cur = cur, !.child = child,
            !.type = IF cur # 0 THEN "element" ELSE "none", !.off = 0, !.len = 0]

-----------------------------------------------------------------------------
(* Loading and finding. *)

Blank == [i \in 0..MaxPos |-> NoPos]
NoDoc == [doc |-> <<>>, pos |-> Blank, free |-> 1, parent |-> 0, cur |-> 0, child |-> 0,
          type |-> "none", off |-> 0, len |-> 0]

DocOf(text, p) ==
  IF text = <<>> \/ p.ret <= 0 THEN [NoDoc EXCEPT !.doc = text]
  ELSE [NoDoc EXCEPT !.doc = text, !.pos = [p.pos EXCEPT ![0].child = p.ret], !.free = p.free]
SetDoc(text) == DocOf(text, ParseElem(text, [pos |-> Blank, free |-> 1, ret |-> 0], 0))

IsWellFormed(d) == d.pos[0].child # 0

\* Load: a text that is refused leaves an empty document.
OrEmpty(d) == IF IsWellFormed(d) THEN d ELSE NoDoc
Loaded(text) == OrEmpty(SetDoc(text))

RECURSIVE From(_, _)
From(d, i) == IF i = 0 THEN <<>> ELSE <<i>> \o From(d, d.pos[i].next)
Siblings(d, parent) == From(d, d.pos[parent].child)
IndexOf(d, i) == LET s == Siblings(d, d.pos[i].parent) IN CHOOSE n \in DOMAIN s : s[n] = i

RECURSIVE FindFrom(_, _, _, _)
FindFrom(d, i, path, p) ==
  LET t == FindToken(d.doc, d.pos[i].startL + 1)
      q == p + (IF At(path, p) = "*" THEN 1 ELSE t.r - t.l + 1)
  IN IF i = 0 THEN 0
     ELSE IF At(path, p) = "*" \/ Match(d.doc, t, path, p)
     THEN IF At(path, q) = "/" THEN FindFrom(d, d.pos[i].child, path, q + 1) ELSE i
     ELSE FindFrom(d, d.pos[i].next, path, p)

\* x_FindElem
FindElemPos(d, parent, i, path) ==
  LET root == At(path, 0) = "/"
      first == IF root THEN d.pos[0].child ELSE IF i # 0 THEN d.pos[i].next ELSE d.pos[parent].child
      p == IF root THEN 1 ELSE 0
  IN IF At(path, p) = NUL THEN first ELSE FindFrom(d, first, path, p)

RECURSIVE Scan(_, _, _, _)
\* The loop of FindNode from node offset n behind element i.
Scan(d, n, i, kinds) ==
  LET node == ParseNode(d.doc, n)
      e == IF i # 0 THEN d.pos[i].next ELSE d.pos[d.parent].child
      wanted == kinds = {} \/ node.type \in kinds
  IN IF node.type = "none" \/ (node.type = "element" /\ e = 0) THEN d
     ELSE IF node.type = "element"
     THEN IF wanted THEN SetPos(d, d.parent, e, 0) ELSE Scan(d, d.pos[e].endR + 1, e, kinds)
     ELSE IF wanted
     THEN [d EXCEPT !.cur = i, !.child = 0, !.off = n, !.len = node.next - n, !.type = node.type]
     ELSE Scan(d, node.next, i, kinds)

FindNode(d, kinds) ==
  IF d.type \notin {"none", "element"} THEN Scan(d, d.off + d.len, d.cur, kinds)
  ELSE IF d.cur # 0 THEN Scan(d, d.pos[d.cur].endR + 1, d.cur, kinds)
  ELSE IF IsEmptyElement(d.pos[d.parent]) THEN d
  ELSE Scan(d, IF d.parent = 0 THEN 0 ELSE d.pos[d.parent].startR + 1, 0, kinds)

-----------------------------------------------------------------------------
(* What is read. *)

TagName(d, i) ==
  LET t == FindToken(d.doc, d.pos[i].startL + 1) IN IF t.found THEN GetToken(d.doc, t) ELSE <<>>

Data(d, i) ==
  LET p == d.pos[i]
      t == FindToken(d.doc, p.startR + 1)
      end == FindStr(d.doc, t.next, CDataEnd)
      cdata == /\ t.found /\ At(d.doc, t.l) = "<" /\ t.l + 11 < p.endL
               /\ Sub(d.doc, t.l, 9) = CDataBegin /\ end # -1 /\ end < p.endL
  IN IF p.child # 0 \/ IsEmptyElement(p) THEN <<>>
     ELSE IF cdata THEN Sub(d.doc, t.l + 9, end - t.l - 9)
     ELSE TextFromDoc(d.doc, p.startR + 1, p.endL - 1)

\* A slip: the length of what begins and ends a comment is miscounted.
NodeDataLong(d) == Sub(d.doc, d.off + 4, d.len - (IF d.type = "comment" THEN 6 ELSE 7))

\* x_GetData at a node that is no element.
NodeData(d) ==
  CASE d.type = "comment" -> Sub(d.doc, d.off + 4, d.len - 7)
    [] d.type = "pi" -> Sub(d.doc, d.off + 2, d.len - 4)
    [] d.type = "cdata" -> Sub(d.doc, d.off + 8, d.len - 11)
    [] d.type = "text" -> TextFromDoc(d.doc, d.off, d.off + d.len - 1)
    [] OTHER -> Sub(d.doc, d.off, d.len)

NoAttr == <<NUL>>
GetAttrib(d, i, name) ==
  LET t == Attrib(d.doc, d.pos[i].startL + 1, name, 0, 0)
  IN IF t.found THEN TextFromDoc(d.doc, t.l, t.r) ELSE NoAttr

-----------------------------------------------------------------------------
(* Changing the text and the offsets. *)

DocChange(d, left, replace, insert) ==
  [d EXCEPT !.doc = Sub(@, 0, left) \o insert \o SubSeq(@, left + replace + 1, Len(@))]

AdjustStart(p, n) == [p EXCEPT !.startL = @ + n, !.startR = @ + n]
AdjustEnd(p, n) == [p EXCEPT !.endL = @ + n, !.endR = @ + n]

RECURSIVE NextUp(_, _, _)
NextUp(d, i, top) ==
  LET up == d.pos[i].parent
  IN IF up = 0 \/ up = top THEN up
     ELSE IF d.pos[up].next # 0 THEN d.pos[up].next ELSE NextUp(d, up, top)

RECURSIVE AdjustFrom(_, _, _, _, _)
AdjustFrom(d, i, top, shift, skipChildren) ==
  LET atTop == i = top
      top2 == IF atTop THEN d.pos[i].parent ELSE top
      j == IF ~ atTop /\ ~ skipChildren /\ d.pos[i].child # 0 THEN d.pos[i].child
           ELSE IF d.pos[i].next # 0 THEN d.pos[i].next
           ELSE NextUp(d, i, top2)
      moved == IF j = top2 THEN d.pos[j] ELSE AdjustStart(d.pos[j], shift)
  IN IF i = 0 THEN d
     ELSE AdjustFrom([d EXCEPT !.pos[j] = AdjustEnd(moved, shift)], j, top2, shift, FALSE)

\* A slip: the children of the position are always passed over.
AdjustBehind(d, i, shift, afterPos) == AdjustFrom(d, i, d.pos[i].parent, shift, TRUE)

\* x_Adjust: the children of i unless afterPos, what is behind, and the ends of ancestors.
Adjust(d, i, shift, afterPos) == AdjustFrom(d, i, d.pos[i].parent, shift, afterPos)

AdjustForNode(d, parent, i, shift) ==
  LET first == d.pos[parent].child
      inner == d.pos[first].child
      start(e) == [d EXCEPT !.pos[e] = AdjustStart(@, shift)]
      end(c, e) == Adjust([c EXCEPT !.pos[e] = AdjustEnd(@, shift)], e, shift, TRUE)
  IN IF i # 0 THEN Adjust(d, i, shift, TRUE)
     ELSE IF first = 0 THEN IF parent = 0 THEN d ELSE end(d, parent)
     ELSE IF parent # 0 THEN end(start(first), first)
     ELSE IF inner = 0 THEN end(start(first), first)
     ELSE end([start(first) EXCEPT !.pos[inner] = AdjustStart(@, shift)], inner)

\* x_LocateNew: the offset of a new element or node, and the element it follows.
LocateNew(d, parent, rel, off, len, insert, honorWhitespace) ==
  LET p == d.pos[parent]
      at == IF len > 0 THEN IF insert THEN off ELSE off + len
            ELSE IF rel # 0 THEN IF insert THEN d.pos[rel].startL ELSE d.pos[rel].endR + 1
            ELSE IF IsEmptyElement(p) THEN p.startR
            ELSE IF insert THEN p.startR + 1 ELSE p.endL
      t == FindToken(d.doc, at)
      s == Siblings(d, parent)
  IN [off |-> IF ~ honorWhitespace /\ ~ IsEmptyElement(p) /\ (~ t.found \/ At(d.doc, t.l) = "<")
              THEN t.l ELSE at,
      before |-> IF rel # 0
                 THEN IF ~ insert THEN rel
                      ELSE IF s[1] = rel THEN 0 ELSE s[IndexOf(d, rel) - 1]
                 ELSE IF s = <<>> \/ insert THEN 0 ELSE Last(s)]

\* Position i linked behind before, or as the first child.
Link(d, i, parent, before) ==
  IF before # 0
  THEN [d EXCEPT !.pos[i].parent = parent, !.pos[i].next = d.pos[before].next, !.pos[before].next = i]
  ELSE [d EXCEPT !.pos[i].parent = parent, !.pos[i].next = d.pos[parent].child, !.pos[parent].child = i]

\* Before <NAME/> becomes <NAME>...</NAME>.
SplitEmpty(d, i) ==
  [d EXCEPT !.pos[i].startR = @ - 1, !.pos[i].endL = @ - (Len(TagName(d, i)) + 1)]
Closing(d, i) == <<"<", "/">> \o TagName(d, i)

-----------------------------------------------------------------------------
(* Elements. *)

\* Main or child position, as the parent and the element a new one is placed by.
Spot(d, child) ==
  IF child THEN [parent |-> d.cur, rel |-> d.child, off |-> 0, len |-> 0]
  ELSE [parent |-> d.parent, rel |-> d.cur, off |-> d.off, len |-> d.len]

MayAddElem(d, child) == IF child THEN d.cur # 0 ELSE ~ (d.parent = 0 /\ IsWellFormed(d))

AddElem(d, name, value, insert, child) ==
  LET d0 == IF ~ child /\ d.parent = 0 THEN [d EXCEPT !.pos[0].endL = Len(d.doc)] ELSE d
      at == Spot(d0, child)
      loc == LocateNew(d0, at.parent, at.rel, at.off, at.len, insert, FALSE)
      split == IsEmptyElement(d0.pos[at.parent])
      l == loc.off + (IF split THEN 2 ELSE 0)
      i == d.free
      text == TextToDoc(value, FALSE)
      r == l + Len(name) + (IF value = <<>> THEN 2 ELSE 1)
      endL == IF value = <<>> THEN r - 1 ELSE r + Len(text) + 1
      self == [NoPos EXCEPT !.startL = l, !.startR = r, !.endL = endL,
                            !.endR = IF value = <<>> THEN endL + 1 ELSE endL + Len(name) + 2]
      tag == (IF value = <<>> THEN <<"<">> \o name \o <<"/", ">">>
              ELSE <<"<">> \o name \o <<">">> \o text \o <<"<", "/">> \o name \o <<">">>) \o CRLF
      d1 == Link([d0 EXCEPT !.free = i + 1, !.pos[i] = self], i, at.parent, loc.before)
      d2 == IF split
            THEN DocChange(SplitEmpty(d1, at.parent), l - 3, 1, <<">">> \o CRLF \o tag \o Closing(d1, at.parent))
            ELSE DocChange(d1, l, 0, tag)
      d3 == Adjust(d2, i, Len(d2.doc) - Len(d.doc), FALSE)
  IN IF child THEN SetPos(d3, d.parent, at.parent, i) ELSE SetPos(d3, at.parent, i, 0)

RECURSIVE PastProlog(_)
PastProlog(text) ==
  LET node == ParseNode(text, 0)
  IN IF node.type \in {"none", "element"} THEN text ELSE PastProlog(SubSeq(text, node.next + 1, Len(text)))

\* x_AddSubDoc below the main position; the document itself when the text is refused.
AddSubDoc(d, sub, insert) ==
  LET at == Spot(d, TRUE)
      loc == LocateNew(d, at.parent, at.rel, 0, 0, insert, FALSE)
      split == IsEmptyElement(d.pos[at.parent])
      r == d.pos[at.parent].startR
      text == IF split THEN <<">">> \o CRLF \o PastProlog(sub) \o Closing(d, at.parent) ELSE PastProlog(sub)
      d1 == DocChange(d, IF split THEN r - 1 ELSE loc.off, IF split THEN 1 ELSE 0, text)
      from == [d1.pos EXCEPT ![at.parent].endL = IF split THEN r + 2 ELSE loc.off]
      p == ParseElem(d1.doc, [pos |-> from, free |-> d.free, ret |-> 0], at.parent)
      i == p.ret
      d2 == Link([d1 EXCEPT !.pos = [p.pos EXCEPT ![at.parent].endL = d.pos[at.parent].endL], !.free = p.free],
                 i, at.parent, loc.before)
      d3 == IF split THEN SplitEmpty(d2, at.parent) ELSE d2
  IN IF i <= 0 THEN d
     ELSE SetPos(Adjust(d3, i, Len(d1.doc) - Len(d.doc), TRUE), d.parent, at.parent, i)

\* x_RemoveElem, up to the new position, which is the element before.
RemoveElem(d, i) ==
  LET parent == d.pos[i].parent
      n == IndexOf(d, i)
      d1 == IF n = 1 THEN [d EXCEPT !.pos[parent].child = d.pos[i].next]
            ELSE [d EXCEPT !.pos[Siblings(d, parent)[n - 1]].next = d.pos[i].next]
      t == FindToken(d.doc, d.pos[i].endR + 1)
      end == IF ~ t.found \/ At(d.doc, t.l) = "<" THEN t.l ELSE d.pos[i].endR + 1
      len == end - d.pos[i].startL
  IN Adjust(DocChange(d1, d.pos[i].startL, len, <<>>), i, - len, TRUE)

Before(d, i) == IF IndexOf(d, i) = 1 THEN 0 ELSE Siblings(d, d.pos[i].parent)[IndexOf(d, i) - 1]

-----------------------------------------------------------------------------
(* Attributes and data. *)

MoveTag(d, i, shift) ==
  Adjust([d EXCEPT !.pos[i] = AdjustEnd([@ EXCEPT !.startR = @ + shift], shift)], i, shift, FALSE)

SetAttrib(d, i, name, value) ==
  LET t == Attrib(d.doc, d.pos[i].startL + 1, name, 0, 0)
      text == TextToDoc(value, TRUE)
      end == d.pos[i].startR - (IF IsEmptyElement(d.pos[i]) THEN 1 ELSE 0)
      d1 == IF t.found THEN DocChange(d, t.l, t.r - t.l + 1, text)
            ELSE DocChange(d, end, 0, <<" ">> \o name \o <<"=", "\"">> \o text \o <<"\"">>)
  IN MoveTag(d1, i, Len(d1.doc) - Len(d.doc))

RECURSIVE RemoveAttribFrom(_, _, _, _)
\* A name not followed by ="..." has cost the search the tokens looked at.
RemoveAttribFrom(d, i, name, n) ==
  LET t == Attrib(d.doc, n, <<>>, 0, 0)
      eq == FindToken(d.doc, t.next)
      v == FindToken(d.doc, eq.next)
      named == Match(d.doc, t, name, 0)
      given == At(d.doc, eq.l) = "="
      past == IF ~ named THEN t.next ELSE IF given THEN v.next ELSE eq.next
      d1 == DocChange(d, t.l - 1, v.r - (t.l - 1) + 2, <<>>)
  IN IF ~ t.found THEN d
     ELSE IF named /\ given /\ v.str THEN MoveTag(d1, i, Len(d1.doc) - Len(d.doc))
     ELSE RemoveAttribFrom(d, i, name, past)
RemoveAttrib(d, i, name) == RemoveAttribFrom(d, i, name, d.pos[i].startL + 1)

\* x_CreateNode
MayCreate(type, text) == type = "cdata" => FindStr(text, 0, CDataEnd) = -1
CreateNode(type, text) ==
  CASE type = "cdata" -> CDataBegin \o text \o CDataEnd
    [] type = "pi" -> <<"<", "?">> \o text \o <<"?", ">">>
    [] type = "comment" -> <<"<", "!", "-", "-">> \o text \o <<"-", "-", ">">>
    [] type = "element" -> <<"<">> \o text \o <<"/", ">">>
    [] type = "dtd" -> text
    [] OTHER -> TextToDoc(text, FALSE)

MaySetData(d, i, text) ==
  IF i = d.cur /\ d.len > 0 THEN MayCreate(d.type, text) ELSE i # 0 /\ d.pos[i].child = 0

SetNodeData(d, text) ==
  LET node == CreateNode(d.type, text)
      d1 == AdjustForNode(DocChange(d, d.off, d.len, node), d.parent, d.cur, Len(node) - d.len)
  IN [d1 EXCEPT !.len = Len(node)]

SetElemData(d, i, text, cdata) ==
  LET p == d.pos[i]
      data == IF cdata /\ MayCreate("cdata", text) THEN CreateNode("cdata", text) ELSE TextToDoc(text, FALSE)
      d1 == IF IsEmptyElement(p)
            THEN DocChange(SplitEmpty(d, i), p.endL, 1, <<">">> \o data \o Closing(d, i))
            ELSE DocChange(d, p.startR + 1, p.endL - p.startR - 1, data)
      shift == Len(d1.doc) - Len(d.doc)
      d2 == Adjust(d1, i, shift, FALSE)
  IN [d2 EXCEPT !.pos[i] = AdjustEnd(@, shift)]

SetData(d, i, text, cdata) ==
  IF i = d.cur /\ d.len > 0 THEN SetNodeData(d, text) ELSE SetElemData(d, i, text, cdata)

-----------------------------------------------------------------------------
(* Nodes. *)

OnALine(type) == type \in {"pi", "comment", "dtd"}

\* x_AddNode
AddNode(d, type, text, insert) ==
  LET loc == LocateNew(d, d.parent, d.cur, d.off, d.len, insert, ~ OnALine(type))
      split == IsEmptyElement(d.pos[d.parent])
      bare == CreateNode(type, text)
      node == IF OnALine(type) THEN bare \o CRLF ELSE bare
      i == IF type = "element" THEN d.free ELSE loc.before
      r == loc.off + Len(bare) - 1
      d1 == IF type # "element" THEN d
            ELSE Link([d EXCEPT !.free = i + 1,
                                !.pos[i] = [NoPos EXCEPT !.startL = loc.off, !.startR = r, !.endL = r - 1, !.endR = r]],
                      i, d.parent, loc.before)
      d2 == IF split
            THEN DocChange(SplitEmpty(d1, d.parent), loc.off - 1, 1,
                           <<">">> \o (IF OnALine(type) THEN CRLF ELSE <<>>) \o node \o Closing(d1, d.parent))
            ELSE DocChange(d1, loc.off, 0, node)
      d3 == AdjustForNode(d2, d.parent, i, Len(d2.doc) - Len(d.doc))
  IN [d3 EXCEPT !.cur = i, !.child = 0, !.type = type,
                !.off = IF type = "element" THEN 0 ELSE loc.off,
                !.len = IF type = "element" THEN 0 ELSE Len(bare)]

RECURSIVE NodeBefore(_, _, _, _)
\* The node from n on that reaches offset end: [type, off].
NodeBefore(d, n, end, last) ==
  IF n >= end THEN last
  ELSE LET node == ParseNode(d.doc, n)
       IN NodeBefore(d, node.next, end, [type |-> node.type, off |-> n])

\* x_RemoveNode
RemoveNode(d) ==
  LET elem == d.type = "element"
      off == IF elem THEN d.pos[d.cur].startL ELSE d.off
      len == IF elem THEN d.pos[d.cur].endR - off + 1 ELSE d.len
      prev == IF elem THEN Before(d, d.cur) ELSE d.cur
      d1 == IF ~ elem THEN d
            ELSE IF prev = 0 THEN [d EXCEPT !.pos[d.parent].child = d.pos[d.cur].next]
            ELSE [d EXCEPT !.pos[prev].next = d.pos[d.cur].next]
      from == IF prev # 0 THEN d.pos[prev].endR + 1 ELSE IF d.parent # 0 THEN d.pos[d.parent].startR + 1 ELSE 0
      node == NodeBefore(d, from, off, [type |-> IF prev # 0 THEN "element" ELSE "none", off |-> off])
      d2 == AdjustForNode(DocChange(d1, off, len, <<>>), d.parent, d.cur, - len)
  IN [d2 EXCEPT !.cur = prev, !.child = 0, !.type = node.type, !.len = off - node.off,
                !.off = IF node.off = off THEN 0 ELSE node.off]

-----------------------------------------------------------------------------
(* The document as a tree. *)

RECURSIVE Elements(_, _)
Elements(d, parent) ==
  LET s == Siblings(d, parent)
  IN [n \in DOMAIN s |->
        [name |-> TagName(d, s[n]), attrs |-> [a \in AttrNames |-> GetAttrib(d, s[n], a)],
         data |-> Data(d, s[n]), kids |-> Elements(d, s[n])]]

Plain(name, value) == [name |-> name, attrs |-> [a \in AttrNames |-> NoAttr], data |-> value, kids |-> <<>>]

RECURSIVE PathOf(_, _)
PathOf(d, i) == IF i = 0 THEN <<>> ELSE PathOf(d, d.pos[i].parent) \o <<IndexOf(d, i)>>

Nothing == [op |-> "none", path |-> <<>>, at |-> 0, key |-> <<>>, text |-> <<>>, elem |-> Plain(<<>>, <<>>)]

\* Where among its siblings something is asked for: before or behind a node, before
\* or behind an element, first or last.
Place(d, at, insert) ==
  LET n == IF at.rel = 0 THEN 0 ELSE IndexOf(d, at.rel)
  IN IF at.len > 0 THEN n + 1
     ELSE IF at.rel = 0 THEN IF insert THEN 1 ELSE Len(Siblings(d, at.parent)) + 1
     ELSE IF insert THEN n ELSE n + 1

Insertion(d, at, insert, elem) ==
  [Nothing EXCEPT !.op = "insert", !.path = PathOf(d, at.parent), !.at = Place(d, at, insert), !.elem = elem]
Removal(d, i) == [Nothing EXCEPT !.op = "remove", !.path = PathOf(d, d.pos[i].parent), !.at = IndexOf(d, i)]
AttrSetting(d, i, name, value) ==
  [Nothing EXCEPT !.op = "attr", !.path = PathOf(d, i), !.key = name, !.text = value]
DataSetting(d, i, text) == [Nothing EXCEPT !.op = "data", !.path = PathOf(d, i), !.text = text]
NodeChange(d, text) == [Nothing EXCEPT !.op = "text", !.path = PathOf(d, d.parent), !.text = text]

-----------------------------------------------------------------------------
(* The situations in which the offsets are lost. *)

\* At the top without a position the offset comes from the parsing of the root.
Adrift(d, at, insert) ==
  at.parent = 0 /\ at.rel = 0 /\ at.len = 0 /\ (insert \/ d.pos[0].endL # Len(d.doc))
\* By a node that is no element, the neighbour is looked for on the wrong side.
WrongNeighbour(d, at, insert) ==
  at.len > 0 /\ IF insert THEN at.rel # 0 ELSE at.rel = 0 /\ d.pos[at.parent].child # 0
\* The top takes itself for an empty element.
TopLooksEmpty(d, at) == at.parent = 0 /\ IsEmptyElement(d.pos[0])
\* A change before the first element does not reach the children of that element.
InnerLeft(d, parent, i) ==
  LET first == d.pos[parent].child
      e == IF parent = 0 THEN d.pos[first].child ELSE first
  IN i = 0 /\ first # 0 /\ e # 0 /\ d.pos[e].child # 0
\* The node's offset does not count the line end written before it.
LineEndUncounted(d, type) == d.parent # 0 /\ IsEmptyElement(d.pos[d.parent]) /\ OnALine(type)

Misplaces(d, at, insert) ==
  Adrift(d, at, insert) \/ WrongNeighbour(d, at, insert) \/ TopLooksEmpty(d, at)

-----------------------------------------------------------------------------
(* The methods. *)

Init ==
  /\ \E text \in Docs : m = Loaded(text)
  /\ tree = Elements(m, 0)
  /\ asked = Nothing /\ skewed = FALSE /\ edits = 0

\* Nothing is looked for behind the last edit.
Going(d) == d # m /\ edits < MaxEdits /\ m' = d /\ asked' = Nothing /\ UNCHANGED <<skewed, edits>>

Find ==
  \E path \in Paths :
    LET i == FindElemPos(m, m.parent, m.cur, path) IN i # 0 /\ Going(SetPos(m, m.pos[i].parent, i, 0))

\* Without a main position FindChildElem first finds one.
FindChild ==
  \E path \in Paths :
    LET main == IF m.cur # 0 THEN m.cur ELSE FindElemPos(m, m.parent, 0, <<>>)
        d == IF m.cur # 0 \/ main = 0 THEN m ELSE SetPos(m, m.pos[main].parent, main, 0)
        i == FindElemPos(d, d.cur, d.child, path)
        up == d.pos[i].parent
    IN Going(IF i = 0 THEN d ELSE SetPos(d, d.pos[up].parent, up, i))

FindNextNode == \E kinds \in Sought : Going(FindNode(m, kinds))
IntoElem == m.cur # 0 /\ m.type = "element" /\ Going(SetPos(m, m.cur, m.child, 0))
OutOfElem == m.parent # 0 /\ Going(SetPos(m, m.pos[m.parent].parent, m.parent, m.cur))
ResetPos == Going(SetPos(m, 0, 0, 0))
ResetMainPos == Going(SetPos(m, m.parent, 0, 0))
ResetChildPos == Going(SetPos(m, m.parent, m.cur, 0))

\* An edit, unless it is lost in one of the situations above; one at an offset that
\* may be outside the text is not carried out.
Edit(d, edit, lost) ==
  /\ edits < MaxEdits /\ edits' = edits + 1
  /\ m' = d /\ asked' = edit /\ skewed' = lost
Refused == edits < MaxEdits /\ edits' = edits + 1 /\ asked' = Nothing /\ UNCHANGED <<m, skewed>>

Load == \E text \in Docs : Edit(Loaded(text), [Nothing EXCEPT !.op = "load"], FALSE)

Add ==
  \E name \in Names, value \in Values, insert, child \in BOOLEAN :
    LET d == IF ~ child /\ m.parent = 0 THEN [m EXCEPT !.pos[0].endL = Len(m.doc)] ELSE m
        at == Spot(m, child)
        lost == Misplaces(d, at, insert)
    IN /\ m.free <= MaxPos /\ MayAddElem(m, child)
       /\ Edit(IF Adrift(d, at, insert) THEN m ELSE AddElem(m, name, value, insert, child),
               Insertion(m, at, insert, Plain(name, value)), lost)

\* The text is taken together with what follows it, so that one that is no element by
\* itself, read as own, may be taken for one.
SubAdded(d, own, insert) ==
  /\ m.free + (IF IsWellFormed(own) THEN own.free - 1 ELSE m.free) <= MaxPos + 1
  /\ IF d = m THEN Refused
     ELSE IF IsWellFormed(own)
     THEN Edit(d, Insertion(m, Spot(m, TRUE), insert, Elements(own, 0)[1]), FALSE)
     ELSE Edit(d, Nothing, TRUE)
AddSub ==
  \E sub \in SubDocs, insert \in BOOLEAN :
    m.cur # 0 /\ SubAdded(AddSubDoc(m, sub, insert), SetDoc(sub), insert)

RemoveElement ==
  \/ /\ m.cur # 0 /\ m.type = "element"
     /\ Edit(SetPos(RemoveElem(m, m.cur), m.parent, Before(m, m.cur), 0), Removal(m, m.cur), FALSE)
  \/ /\ m.child # 0
     /\ Edit(SetPos(RemoveElem(m, m.child), m.parent, m.cur, Before(m, m.child)), Removal(m, m.child), FALSE)

Target == {m.cur, m.child} \ {0}

SetAttr ==
  \E i \in Target, name \in AttrNames, value \in Values :
    m.type = "element" /\ Edit(SetAttrib(m, i, name, value), AttrSetting(m, i, name, value), FALSE)

RemoveAttr ==
  \E i \in Target, name \in AttrNames :
    LET d == RemoveAttrib(m, i, name)
    IN /\ m.type = "element" /\ d # m
       /\ Edit(d, AttrSetting(m, i, name, NoAttr), FALSE)

SetText ==
  \E i \in {m.cur, m.child}, text \in Values, cdata \in BOOLEAN :
    LET node == i = m.cur /\ m.len > 0
    IN IF MaySetData(m, i, text)
       THEN Edit(SetData(m, i, text, cdata),
                 IF node THEN NodeChange(m, text) ELSE DataSetting(m, i, text),
                 node /\ InnerLeft(m, m.parent, m.cur))
       ELSE Refused

\* Text belongs into elements, and a second root nowhere.
Belongs(type) ==
  m.parent = 0 => type \in {"comment", "pi", "dtd"} \/ (type = "element" /\ ~ IsWellFormed(m))

Node1(type, text, insert) ==
  LET at == Spot(m, FALSE)
      i == IF type = "element" THEN m.free
           ELSE LocateNew(m, m.parent, m.cur, m.off, m.len, insert, TRUE).before
      lost == \/ Misplaces(m, at, insert) \/ LineEndUncounted(m, type) \/ InnerLeft(m, m.parent, i)
  IN Edit(IF Adrift(m, at, insert) THEN m ELSE AddNode(m, type, text, insert),
          IF type = "element" THEN Insertion(m, at, insert, Plain(text, <<>>)) ELSE NodeChange(m, text), lost)

AddNewNode ==
  \E type \in NodeTypes, insert \in BOOLEAN :
    \E text \in IF type = "element" THEN Names ELSE Values :
      /\ Belongs(type) /\ m.free <= MaxPos
      /\ IF MayCreate(type, text) /\ (type = "text" => text # <<>>) THEN Node1(type, text, insert) ELSE Refused

RemoveCurrentNode ==
  /\ m.cur # 0 \/ m.len > 0
  /\ Edit(RemoveNode(m),
          IF m.type = "element" THEN Removal(m, m.cur) ELSE [NodeChange(m, <<>>) EXCEPT !.op = "cut"],
          InnerLeft(m, m.parent, m.cur))

Next ==
  /\ ~ skewed
  /\ \/ Find \/ FindChild \/ FindNextNode \/ IntoElem \/ OutOfElem \/ ResetPos \/ ResetMainPos \/ ResetChildPos
     \/ Load \/ Add \/ AddSub \/ RemoveElement \/ SetAttr \/ RemoveAttr \/ SetText \/ AddNewNode \/ RemoveCurrentNode
  /\ tree' = Elements(m', 0)

Spec == Init /\ [][Next]_vars

-----------------------------------------------------------------------------
RECURSIVE Offsets(_, _)
Offsets(d, parent) ==
  LET s == Siblings(d, parent)
  IN [n \in DOMAIN s |->
        LET p == d.pos[s[n]] IN <<p.startL, p.startR, p.endL, p.endR, Offsets(d, s[n])>>]

\* Whatever was edited, the adjusted offsets are those a parse of the text gives
\* (MarkupSTL.cpp:1436-1486), the current positions are elements of the document, and
\* a current node lies where its offset says.
PositionsTrue ==
  ~ skewed =>
    /\ Offsets(m, 0) = Offsets(SetDoc(m.doc), 0)
    /\ m.cur # 0 => m.cur \in Range(Siblings(m, m.parent))
    /\ m.child # 0 => m.child \in Range(Siblings(m, m.cur))
    /\ m.len > 0 => LET node == ParseNode(m.doc, m.off)
                    IN \/ {node.type, m.type} \subseteq {"text", "space"}
                       \/ node.type = m.type /\ node.next = m.off + m.len

Tree == INSTANCE ElementTree WITH forest <- tree, trusted <- ~ skewed

\* Every edit changes the one place of the tree it was asked to, and what was written
\* is what is read (MarkupSTL.cpp:1123-1193, :1238-1412, :1575-1847).
EditsAsAsked == Tree!Spec

ReadAs(type, text) ==
  CASE type = "cdata" -> <<"[">> \o text [] type = "space" -> TextToDoc(text, FALSE) [] OTHER -> text

\* A node reads as it was written, but for a CDATA section, whose text is read from
\* its second bracket on (MarkupSTL.cpp:1311), and for white space that was replaced,
\* whose reserved characters are read as the codes they were written as (:1315).
NodesReadBack ==
  (asked.op = "text" /\ m.len > 0 /\ ~ skewed) => NodeData(m) = ReadAs(m.type, asked.text)
=============================================================================
