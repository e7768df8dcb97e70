----------------------------- MODULE MarkupText -----------------------------
(***************************************************************************)
(* How CMarkupSTL reads the text of a document: tokens, nodes, attributes,   *)
(* the codes of reserved characters, and the parse into element positions.  *)
(* A text is a sequence of one-letter strings; offsets begin at 0 as in the  *)
(* code, and the offset behind the last letter holds NUL.                    *)
(***************************************************************************)
EXTENDS Integers, Sequences, SequencesExt

NUL == ""
At(doc, n) == IF n + 1 \in DOMAIN doc THEN doc[n + 1] ELSE NUL
Sub(doc, l, n) == SubSeq(doc, l + 1, IF l + n > Len(doc) THEN Len(doc) ELSE l + n)

White == {" ", "\t", "\n", "\r"}
Quotes == {"\"", "'"}
Marks == {"<", ">", "=", "\\", "/", "?", "!"}
CRLF == <<"\r", "\n">>

\* x_FindChar: where one of C is next, or the end.
FindChar(doc, n, C) ==
  CHOOSE m \in n..Len(doc) :
    At(doc, m) \in C \cup {NUL} /\ \A k \in n..m-1 : At(doc, k) \notin C
Pass(doc, n, C) ==
  CHOOSE m \in n..Len(doc) : At(doc, m) \notin C /\ \A k \in n..m-1 : At(doc, k) \in C

\* strstr; -1 when there is none.
FindStr(doc, n, s) ==
  IF \E m \in n..Len(doc) - Len(s) : Sub(doc, m, Len(s)) = s
  THEN CHOOSE m \in n..Len(doc) - Len(s) :
         Sub(doc, m, Len(s)) = s /\ \A k \in n..m-1 : Sub(doc, k, Len(s)) # s
  ELSE -1

Token(found, l, r, next, str) == [found |-> found, l |-> l, r |-> r, next |-> next, str |-> str]

QuotedToken(doc, l, quote) ==
  Token(TRUE, l, quote - 1, IF At(doc, quote) = NUL THEN quote ELSE quote + 1, TRUE)
Word(s, e) == IF e = s THEN Token(TRUE, s, s, s + 1, FALSE) ELSE Token(TRUE, s, e - 1, e, FALSE)

TokenAt(doc, s) ==
  IF At(doc, s) = NUL THEN Token(FALSE, s, s, s, FALSE)
  ELSE IF At(doc, s) \in Quotes THEN QuotedToken(doc, s + 1, FindChar(doc, s + 1, {At(doc, s)}))
  ELSE Word(s, FindChar(doc, s, White \cup Marks))
FindToken(doc, n) == TokenAt(doc, Pass(doc, n, White))

GetToken(doc, t) == IF t.l > t.r THEN <<>> ELSE Sub(doc, t.l, t.r - t.l + 1)

\* TokenPos::Match against the name, or path, that begins at offset p of s.
Match(doc, t, s, p) ==
  LET len == t.r - t.l + 1
  IN Sub(doc, t.l, len) = Sub(s, p, len) /\ At(s, p + len) \in {NUL, " ", "=", "/", "["}

-----------------------------------------------------------------------------
(* Nodes. *)

Node(type, next) == [type |-> type, next |-> next]

CDataBegin == <<"<", "!", "[", "C", "D", "A", "T", "A", "[">>
CDataEnd == <<"]", "]", ">">>

RECURSIVE DocType(_, _, _), DocTypePast(_, _, _, _)
\* The end of <!DOCTYPE ...>, whose strings and brackets may hold anything.
DocType(doc, n, brackets) == DocTypePast(doc, n, brackets, FindToken(doc, n))
DocTypePast(doc, n, brackets, t) ==
  LET c == At(doc, t.l)
  IN IF ~ t.found THEN Node("none", n)
     ELSE IF ~ t.str /\ brackets = 0 /\ c = ">" THEN Node("dtd", t.next)
     ELSE DocType(doc, t.next,
                  IF t.str THEN brackets
                  ELSE IF c = "[" THEN brackets + 1 ELSE IF c = "]" THEN brackets - 1 ELSE brackets)

NodeTo(type, n, e, len) == IF e = -1 THEN Node("none", n) ELSE Node(type, e + len)
Until(doc, n, type, end) == NodeTo(type, n, FindStr(doc, n, end), Len(end))

\* White space, or text up to the next tag.
Words(doc, t) ==
  IF ~ t.found THEN Node("space", t.next)
  ELSE IF At(doc, t.l) = "<" THEN Node("space", t.l)
  ELSE Node("text", FindChar(doc, t.next, {"<"}))

\* x_ParseNode: the node that begins at n, and where the next one does.
ParseNode(doc, n) ==
  LET c == At(doc, n + 1)
      d == At(doc, n + 2)
  IN IF At(doc, n) = NUL THEN Node("none", n)
     ELSE IF At(doc, n) # "<" THEN Words(doc, FindToken(doc, n))
     ELSE IF c = NUL \/ d = NUL \/ c = "/" THEN Node("none", n)
     ELSE IF c = "?" THEN Until(doc, n, "pi", <<"?", ">">>)
     ELSE IF c = "!" /\ d = "[" THEN Until(doc, n, "cdata", CDataEnd)
     ELSE IF c = "!" /\ d = "-" THEN Until(doc, n, "comment", <<"-", "-", ">">>)
     ELSE IF c = "!" THEN DocType(doc, n, 0)
     ELSE Node("element", n)

-----------------------------------------------------------------------------
(* Reserved characters. *)

Code(c) ==
  CASE c = "<" -> <<"&", "l", "t", ";">>
    [] c = "&" -> <<"&", "a", "m", "p", ";">>
    [] c = ">" -> <<"&", "g", "t", ";">>
    [] c = "'" -> <<"&", "a", "p", "o", "s", ";">>
    [] c = "\"" -> <<"&", "q", "u", "o", "t", ";">>

\* A slip: quotes are written as they are.
TextToDocBare(text, attrib) ==
  FlattenSeq([i \in DOMAIN text |->
                IF text[i] \in {"<", "&", ">"} THEN Code(text[i]) ELSE <<text[i]>>])

TextToDoc(text, attrib) ==
  FlattenSeq([i \in DOMAIN text |->
                IF text[i] \in {"<", "&", ">"} \/ (attrib /\ text[i] \in Quotes)
                THEN Code(text[i]) ELSE <<text[i]>>])

RECURSIVE TextFromDoc(_, _, _)
TextFromDoc(doc, l, r) ==
  LET codes == {c \in {"<", "&", ">", "'", "\""} :
                  l + Len(Code(c)) - 1 <= r /\ Sub(doc, l, Len(Code(c))) = Code(c)}
  IN IF l > r THEN <<>>
     ELSE IF codes = {} THEN <<At(doc, l)>> \o TextFromDoc(doc, l + 1, r)
     ELSE LET c == CHOOSE c \in codes : TRUE IN <<c>> \o TextFromDoc(doc, l + Len(Code(c)), r)

-----------------------------------------------------------------------------
(* Attributes. *)

RECURSIVE Attrib(_, _, _, _, _), AttribPast(_, _, _, _, _)
\* x_FindAttrib from the count-th token of the tag on; a name of <<>> finds any.
Attrib(doc, n, name, count, hit) == AttribPast(doc, FindToken(doc, n), name, count, hit)
AttribPast(doc, t, name, count, hit) ==
  LET c == At(doc, t.l)
      new == ~ t.str /\ c # "=" /\ hit = 0 /\ count > 0
  IN IF ~ t.found \/ (~ t.str /\ c \in {">", "/"}) THEN [t EXCEPT !.found = FALSE]
     ELSE IF (new /\ name = <<>>) \/ (t.str /\ hit > 0 /\ count = hit + 2) THEN t
     ELSE Attrib(doc, t.next, name, count + 1, IF new /\ Match(doc, t, name, 0) THEN count ELSE hit)

-----------------------------------------------------------------------------
(* The parse. *)

NoPos == [startL |-> 0, startR |-> 0, endL |-> 0, endR |-> 0, parent |-> 0, child |-> 0, next |-> 0]
IsEmptyElement(p) == p.startR = p.endL + 1

Failed == [ret |-> -1]
NoTag == [kind |-> "error"]

TagAt(doc, s, e, t) ==
  IF At(doc, e) = NUL /\ At(doc, t.l) # "/" THEN NoTag
  ELSE [kind |-> IF At(doc, t.l) = "/" THEN "end" ELSE "start", l |-> s, r |-> e, name |-> GetToken(doc, t)]

RECURSIVE StartTag(_, _), TagFrom(_, _), TagPast(_, _, _), PastNode(_, _)
\* The next tag from n on, past every node that is no element: where it begins and
\* ends, or "end" for the end tag of the parent, or "error".
StartTag(doc, n) == TagFrom(doc, FindChar(doc, n, {"<"}))
TagFrom(doc, s) == IF At(doc, s) = NUL THEN NoTag ELSE TagPast(doc, s, FindToken(doc, s + 1))
TagPast(doc, s, t) ==
  IF ~ t.found \/ t.str THEN NoTag
  ELSE IF At(doc, t.l) \in {"?", "!"} THEN PastNode(doc, ParseNode(doc, s))
  ELSE TagAt(doc, s, FindChar(doc, t.next, {">"}), t)
PastNode(doc, node) == IF node.type = "none" THEN NoTag ELSE StartTag(doc, node.next)

RECURSIVE EndTag(_, _, _, _), EndTagPast(_, _, _, _)
\* The offset of the bracket that ends the end tag of name, or -1.
EndTag(doc, n, count, name) == EndTagPast(doc, FindToken(doc, n), count, name)
EndTagPast(doc, t, count, name) ==
  LET c == At(doc, t.l)
  IN IF ~ t.found THEN -1
     ELSE IF ~ t.str /\ ((count = 1 /\ c # "/") \/ (count = 2 /\ ~ Match(doc, t, name, 0))) THEN -1
     ELSE IF ~ t.str /\ count > 2 /\ c = ">" THEN t.l
     ELSE EndTag(doc, t.next, count + 1, name)

SelfClosed(doc, tag) == At(doc, tag.r - 1) = "/"

\* The next position, opened by a tag, in parse p: the positions, the next free one, and
\* ret, which is the position read, 0 when there was no element, -1 on an error.
Opened(doc, p, parent, tag) ==
  LET self == [NoPos EXCEPT !.startL = tag.l, !.startR = tag.r, !.parent = parent]
  IN [p EXCEPT !.pos[parent].endL = tag.l, !.free = @ + 1, !.ret = p.free,
               !.pos[p.free] = IF SelfClosed(doc, tag) THEN [self EXCEPT !.endL = tag.r - 1, !.endR = tag.r]
                               ELSE [self EXCEPT !.endL = tag.r + 1]]

Ended(p, i, end) == IF end = -1 THEN Failed ELSE [p EXCEPT !.pos[i].endR = end, !.ret = i]
EndFrom(doc, close, name) == IF At(doc, close) = NUL THEN -1 ELSE EndTag(doc, close + 1, 1, name)
Closed(doc, p, i, name) ==
  IF p.ret = -1 THEN Failed
  ELSE Ended(p, i, EndFrom(doc, FindChar(doc, p.pos[i].endL, {"<"}), name))

\* The element just read joined to its parent i, behind prev.
Joined(p, i, prev) ==
  LET linked == IF prev = 0 THEN [p EXCEPT !.pos[i].child = p.ret] ELSE [p EXCEPT !.pos[prev].next = p.ret]
  IN [linked EXCEPT !.pos[i].endL = p.pos[p.ret].endR + 1]

RECURSIVE ParseElem(_, _, _), ParseTag(_, _, _, _), ParseInner(_, _, _, _), InnerPast(_, _, _, _)
\* x_ParseElem
ParseElem(doc, p, parent) == ParseTag(doc, p, parent, StartTag(doc, p.pos[parent].endL))
ParseTag(doc, p, parent, tag) ==
  IF tag.kind = "error" THEN Failed
  ELSE IF tag.kind = "end" THEN [p EXCEPT !.pos[parent].endL = tag.l, !.ret = 0]
  ELSE IF SelfClosed(doc, tag) THEN Opened(doc, p, parent, tag)
  ELSE Closed(doc, ParseInner(doc, Opened(doc, p, parent, tag), p.free, 0), p.free, tag.name)

\* The elements in element i, after prev.
ParseInner(doc, p, i, prev) == InnerPast(doc, ParseElem(doc, p, i), i, prev)
InnerPast(doc, p, i, prev) == IF p.ret <= 0 THEN p ELSE ParseInner(doc, Joined(p, i, prev), i, p.ret)
=============================================================================
