------------------------------ MODULE JsonText ------------------------------
(***************************************************************************)
(* The JSON library of the proxy, second half: the writers                 *)
(* (src/src/proxy/Json/json_writer.cpp) and the reader (json_reader.cpp).  *)
(*                                                                         *)
(* A text is a sequence of lexemes [t, body]: a punctuation mark, a word,  *)
(* a number or a quoted string spelled character by character in "body", a *)
(* comment ("block", "line"), "nl" for a newline and "sp" for blanks.  The *)
(* last two matter: the writers look at the last character written before  *)
(* they indent, and the reader places a comment by the newlines around it. *)
(* A // comment runs to the next newline, whatever stands in between.      *)
(* Text that starts no token of the reader is one lexeme, "bad".  Left out *)
(* are carriage returns between lexemes, and with them normalizeEOL, and   *)
(* numbers no writer writes: of several points or signs, of which sscanf   *)
(* reads a part, and of 32 characters, one more than fit the buffer of     *)
(* decodeDouble (json_reader.cpp:519-523).                                 *)
(***************************************************************************)
EXTENDS JsonValue

CONSTANTS
    Texts,           \* the strings of the instance, character by character, in strcmp order
    rightMargin_,    \* where a line of the styled writers ends (74 in the code)
    RealDigits       \* the digits of a real that are written (16 in the code)

Lexeme(t, body) == [t |-> t, body |-> body]
Punct(c) == Lexeme(c, <<c>>)
NL == Lexeme("nl", <<"\n">>)
SP == Lexeme("sp", <<" ">>)

Comment == {"block", "line"}
Length(text) == FoldLeft(LAMBDA n, l : n + Len(l.body), 0, text)

(***************************************************************************)
(* Numbers and strings, to text.                                           *)
(***************************************************************************)
DigitChars == <<"0", "1", "2", "3", "4", "5", "6", "7", "8", "9">>

RECURSIVE uintToString(_)
uintToString(n) ==
    (IF n < 10 THEN <<>> ELSE uintToString(n \div 10)) \o <<DigitChars[(n % 10) + 1]>>

\* valueToString of an int; -minInt is minInt again, and as unsigned 2^(w-1).
intToString(n) ==
    IF n < 0 THEN <<"-">> \o uintToString((-n) % 2 ^ IntBits) ELSE uintToString(n)

\* The RealDigits digits and the decimal exponent that "%.*g" makes of the number
\* tenths / 10: rounded to the nearest, a tie to the even one.
Scientific(tenths) ==
    LET surplus == Len(uintToString(tenths)) - RealDigits
        cut     == IF surplus > 0 THEN 10 ^ surplus ELSE 1
        rest    == tenths % cut
        up      == 2 * rest > cut \/ (2 * rest = cut /\ (tenths \div cut) % 2 = 1)
        whole   == tenths \div cut + (IF up THEN 1 ELSE 0)
        digits  == uintToString(IF surplus < 0 THEN whole * 10 ^ (-surplus) ELSE whole)
    IN [digits   |-> SubSeq(digits, 1, RealDigits),
        exponent |-> surplus + Len(digits) - 2]

Zeros(n) == [i \in 1 .. n |-> "0"]

\* "%#.*g": the point is always there, zeros fill the digits, and a number of
\* more digits than that before the point is written with an exponent.
Printed(tenths) ==
    LET sci == Scientific(tenths)
        pointAfter(n) == SubSeq(sci.digits, 1, n) \o <<".">> \o SubSeq(sci.digits, n + 1, RealDigits)
        two(n) == IF n < 10 THEN <<"0">> \o uintToString(n) ELSE uintToString(n)
    IN IF tenths = 0 THEN <<"0", ".">> \o Zeros(RealDigits - 1)
       ELSE IF sci.exponent < 0 THEN <<"0", ".">> \o sci.digits
       ELSE IF sci.exponent < RealDigits THEN pointAfter(sci.exponent + 1)
       ELSE pointAfter(1) \o <<"e", "+">> \o two(sci.exponent)

\* A fraction that ends in zeros loses them but for one behind the last digit
\* that is none.
ZerosCut(text) ==
    LET last_nonzero == Max({i \in DOMAIN text : text[i] # "0"})
    IN IF Last(text) # "0" \/ "e" \in ToSet(text) THEN text ELSE SubSeq(text, 1, last_nonzero + 1)

\* valueToString of a finite double.
realToString(halves) ==
    IF halves < 0 THEN <<"-">> \o ZerosCut(Printed(-5 * halves)) ELSE ZerosCut(Printed(5 * halves))

\* What a real is written as.  The words for the others are none of JSON; the
\* minus of -inf is read as a number of its own.
RealText(num) ==
    IF Finite(num) THEN <<Lexeme("number", realToString(num))>>
    ELSE (IF num < 0 THEN <<Lexeme("number", <<"-">>)>> ELSE <<>>)
         \o <<Lexeme("bad", IF num = NaN THEN <<"n", "a", "n">> ELSE <<"i", "n", "f">>)>>

Backspace == "backspace"

\* A slip: the escape character itself is written as it is.
EscapeQuotes(c) == IF c = "\"" THEN <<"\\", "\"">> ELSE <<c>>

Escape(c) ==
    CASE c = "\"" -> <<"\\", "\"">>
      [] c = "\\" -> <<"\\", "\\">>
      [] c = "\n" -> <<"\\", "n">>
      [] c = "\t" -> <<"\\", "t">>
      [] c = "\f" -> <<"\\", "f">>
      [] c = "\r" -> <<"\\", "r">>
      [] c = Backspace -> <<"\\", "b">>
      [] OTHER    -> <<c>>

valueToQuotedString(text) ==
    <<"\"">> \o FlattenSeq([i \in DOMAIN text |-> Escape(text[i])]) \o <<"\"">>

QuotedText(n) == Lexeme("string", valueToQuotedString(Texts[n]))

\* What the writers push for a value without children.  With a string without a
\* text they follow a null pointer: no text is written, the program ends.
Leaf(v) ==
    CASE v.type = "null"   -> <<Lexeme("null", <<"n", "u", "l", "l">>)>>
      [] v.type = "int"    -> <<Lexeme("number", intToString(v.num))>>
      [] v.type = "uint"   -> <<Lexeme("number", uintToString(v.num))>>
      [] v.type = "real"   -> RealText(v.num)
      [] v.type = "string" -> <<QuotedText(v.num)>>
      [] v.type = "bool"   -> IF v.num = 1 THEN <<Lexeme("true", <<"t", "r", "u", "e">>)>>
                                           ELSE <<Lexeme("false", <<"f", "a", "l", "s", "e">>)>>
      [] v.type = "array"  -> <<Punct("["), Punct("]")>>
      [] v.type = "object" -> <<Punct("{"), Punct("}")>>

(***************************************************************************)
(* FastWriter: no comment, no newline; the holes of an array are null.     *)
(***************************************************************************)
Joined(parts) ==
    FlattenSeq([i \in DOMAIN parts |-> IF i = 1 THEN parts[i] ELSE <<Punct(",")>> \o parts[i]])

RECURSIVE FastValue(_)
FastValue(v) ==
    CASE v.type = "array" ->
            <<Punct("[")>>
            \o Joined([i \in 1 .. size(v) |-> FastValue(Child(v, i - 1))])
            \o <<Punct("]")>>
      [] v.type = "object" ->
            LET names == getMemberNames(v)
            IN <<Punct("{")>>
               \o Joined([i \in DOMAIN names |->
                             <<QuotedText(names[i]), Punct(":")>> \o FastValue(v.kids[names[i]])])
               \o <<Punct("}")>>
      [] OTHER -> Leaf(v)

FastWriter(v) == FastValue(v) \o <<NL>>

(***************************************************************************)
(* StyledWriter and StyledStreamWriter.  They differ in writeIndent: the   *)
(* one looks at what it has written, the other always starts a line.       *)
(***************************************************************************)
Indentation(depth) == IF depth = 0 THEN <<>> ELSE <<SP>>

StreamIndent(doc, depth) == doc \o <<NL>> \o Indentation(depth)

writeIndent(doc, depth, stream) ==
    IF stream THEN StreamIndent(doc, depth)
    ELSE IF doc = <<>> THEN Indentation(depth)
    ELSE IF Last(doc).t = "sp" THEN doc
    ELSE doc \o (IF Last(doc).t = "nl" THEN <<>> ELSE <<NL>>) \o Indentation(depth)

writeCommentBeforeValue(doc, v) ==
    IF v.notes.before = <<>> THEN doc ELSE doc \o v.notes.before \o <<NL>>

writeCommentAfterValueOnSameLine(doc, v) ==
    doc \o (IF v.notes.same = <<>> THEN <<>> ELSE <<SP>> \o v.notes.same)
        \o (IF v.notes.after = <<>> THEN <<>> ELSE <<NL>> \o v.notes.after \o <<NL>>)

\* An array goes on several lines when it is long, when it holds a child
\* with children, or when its line would be too wide.  Comments were meant to
\* count as well, but the test for them keeps a flag that is still false.
isMultineArray(v) ==
    LET n == size(v)
        child(i) == Child(v, i - 1)
    IN \/ n * 3 >= rightMargin_
       \/ \E i \in 1 .. n : child(i).type \in {"array", "object"} /\ size(child(i)) > 0
       \/ 4 + (n - 1) * 2 + Length(FlattenSeq([i \in 1 .. n |-> Leaf(child(i))])) >= rightMargin_

RECURSIVE StyledValue(_, _, _, _)

\* One member of an object, or one element of an array on several lines.
StyledChild(doc, depth, stream, key, v, isLast) ==
    LET opened == writeIndent(writeCommentBeforeValue(doc, v), depth, stream)
        value  == StyledValue(opened \o key, depth, stream, v)
    IN writeCommentAfterValueOnSameLine(IF isLast THEN value ELSE value \o <<Punct(",")>>, v)

StyledValue(doc, depth, stream, v) ==
    LET n == size(v)
        names == getMemberNames(v)
        element(d, i) == StyledChild(d, depth + 1, stream, <<>>, Child(v, i - 1), i = n)
        member(d, i) == StyledChild(d, depth + 1, stream,
                            <<QuotedText(names[i]), SP, Punct(":"), SP>>, v.kids[names[i]], i = n)
        lines(open, close, child(_, _)) ==
            writeIndent(FoldLeft(child, writeIndent(doc, depth, stream) \o <<Punct(open)>>,
                                 [i \in 1 .. n |-> i]),
                        depth, stream) \o <<Punct(close)>>
    IN CASE n = 0 -> doc \o Leaf(v)
         [] v.type = "object" -> lines("{", "}", member)
         [] v.type = "array" /\ isMultineArray(v) -> lines("[", "]", element)
         [] OTHER -> doc \o <<Punct("["), SP>>
                         \o Joined([i \in 1 .. n |-> Leaf(Child(v, i - 1))]) \o <<SP, Punct("]")>>

Styled(v, stream) ==
    writeCommentAfterValueOnSameLine(
        StyledValue(writeCommentBeforeValue(<<>>, v), 0, stream, v), v) \o <<NL>>

StyledWriter(v) == Styled(v, FALSE)
StyledStreamWriter(v) == Styled(v, TRUE)

(***************************************************************************)
(* Text, to numbers and strings.                                           *)
(***************************************************************************)
DigitOf(c) == CHOOSE d \in 0 .. 9 : DigitChars[d + 1] = c
Number(digits) == FoldLeft(LAMBDA n, c : n * 10 + DigitOf(c), 0, digits)

\* decodeDouble: what sscanf makes of the text, in halves; without a digit it
\* makes nothing.
decodeDouble(chars) ==
    LET e        == SelectInSeq(chars, LAMBDA c : c = "e")
        mantissa == IF e = 0 THEN chars ELSE SubSeq(chars, 1, e - 1)
        exponent == IF e = 0 THEN 0 ELSE Number(SubSeq(chars, e + 2, Len(chars)))
        digits   == SelectSeq(mantissa, LAMBDA c : c \notin {"-", "."})
        point    == SelectInSeq(mantissa, LAMBDA c : c = ".")
        places   == IF point = 0 THEN 0 ELSE Len(mantissa) - point
        halves   == IF exponent >= places THEN 2 * Number(digits) * 10 ^ (exponent - places)
                    ELSE (2 * Number(digits)) \div 10 ^ (places - exponent)
    IN [ok |-> digits # <<>>, value |-> Value("real", IF chars[1] = "-" THEN -halves ELSE halves)]

\* decodeNumber: an int or a uint of IntBits bits, as long as each step stays
\* below the threshold; what may not fit is read as a double.
Threshold(negative) == (IF negative THEN -minInt ELSE maxUInt) \div 10

decodeNumber(chars) ==
    LET negative == chars[1] = "-"
        digits   == IF negative THEN Tail(chars) ELSE chars
        tooLarge == \E i \in DOMAIN digits : Number(SubSeq(digits, 1, i - 1)) >= Threshold(negative)
        value    == Number(digits) % 2 ^ IntBits
        decoded(type, num) == [ok |-> TRUE, value |-> Value(type, num)]
    IN IF ToSet(digits) \cap {".", "e"} # {} \/ tooLarge THEN decodeDouble(chars)
       ELSE IF negative THEN decoded("int", -value)
       ELSE IF value <= maxInt THEN decoded("int", value) ELSE decoded("uint", value)


Unescaped == [c \in {"\"", "/", "\\", "b", "f", "n", "r", "t"} |->
                 CASE c = "b" -> Backspace [] c = "f" -> "\f" [] c = "n" -> "\n"
                   [] c = "r" -> "\r"      [] c = "t" -> "\t" [] OTHER -> c]

HexDigits == ToSet(DigitChars) \cup {"a", "b", "c", "d", "e", "f", "A", "B", "C", "D", "E", "F"}

RECURSIVE Decoded(_)
Decoded(chars) ==
    IF chars = <<>> THEN [ok |-> TRUE, text |-> <<>>]
    ELSE IF chars[1] # "\\"
    THEN LET rest == Decoded(Tail(chars))
         IN [rest EXCEPT !.text = <<chars[1]>> \o @]
    ELSE IF Len(chars) >= 2 /\ chars[2] \in DOMAIN Unescaped
    THEN LET rest == Decoded(SubSeq(chars, 3, Len(chars)))
         IN [rest EXCEPT !.text = <<Unescaped[chars[2]]>> \o @]
    ELSE IF Len(chars) >= 6 /\ chars[2] = "u" /\ ToSet(SubSeq(chars, 3, 6)) \subseteq HexDigits
    THEN Decoded(SubSeq(chars, 7, Len(chars)))
    ELSE [ok |-> FALSE, text |-> <<>>]

decodeString(body) == Decoded(SubSeq(body, 2, Len(body) - 1))

TextNumber(text) == IF \E n \in DOMAIN Texts : Texts[n] = text
                    THEN CHOOSE n \in DOMAIN Texts : Texts[n] = text ELSE 0

(***************************************************************************)
(* The reader.  Its state: the text and the position (current_), the token *)
(* read last, the value being built, the top of the stack of nodes as a    *)
(* path, the comments waiting for a value, where the last value ended and  *)
(* which it was (a pointer in the code), the number of errors, and the     *)
(* result of the last function.  "wild" is set when a comment is given to  *)
(* a value that does not exist.                                            *)
(***************************************************************************)
Reader(text, collect) ==
    [text |-> text, pos |-> 1, tok |-> NL, root |-> null, path |-> <<>>, before |-> <<>>,
     lastEnd |-> 0, last |-> <<>>, errors |-> 0, ok |-> TRUE, wild |-> FALSE, collect |-> collect]

EndOfStream == Lexeme("eof", <<>>)

currentValue(r) == At(r.root, r.path)
SetCurrent(r, value) ==
    [r EXCEPT !.root = Put(@, r.path, Assign(At(@, r.path), value)), !.ok = TRUE]

containsNewLine(r, from, to) ==
    \E i \in from .. to - 1 : \E j \in DOMAIN r.text[i].body : r.text[i].body[j] = "\n"

\* Where a comment that starts at the current position ends: at the mark of a
\* block comment, after the newline for the other kind.
CommentEnd(r) ==
    LET breaks == {i \in r.pos .. Len(r.text) : containsNewLine(r, i, i + 1)}
    IN IF r.text[r.pos].t = "block" THEN r.pos + 1
       ELSE IF breaks = {} THEN Len(r.text) + 1 ELSE Min(breaks) + 1

addComment(r, end, placement) ==
    LET text == SubSeq(r.text, r.pos, end - 1)
    IN IF placement = "same"
       THEN IF Leads(r.root, r.last)
            THEN [r EXCEPT !.root = Put(@, r.last, setComment(At(@, r.last), "same", text))]
            ELSE [r EXCEPT !.wild = TRUE]
       ELSE [r EXCEPT !.before = IF @ = <<>> THEN text ELSE @ \o <<NL>> \o text]

readComment(r) ==
    LET end == CommentEnd(r)
        onSameLine == /\ r.lastEnd # 0
                      /\ ~containsNewLine(r, r.lastEnd, r.pos)
                      /\ (r.text[r.pos].t # "block" \/ ~containsNewLine(r, r.pos, end))
        noted == IF r.collect THEN addComment(r, end, IF onSameLine THEN "same" ELSE "before") ELSE r
    IN [noted EXCEPT !.tok = r.text[r.pos], !.pos = end]

readToken(r) ==
    LET at == Min({i \in r.pos .. Len(r.text) : r.text[i].t \notin {"nl", "sp"}} \cup {Len(r.text) + 1})
        s  == [r EXCEPT !.pos = at]
    IN IF at > Len(r.text) THEN [s EXCEPT !.tok = EndOfStream]
       ELSE IF s.text[at].t \in Comment THEN readComment(s)
       ELSE [s EXCEPT !.tok = s.text[at], !.pos = at + 1]

RECURSIVE skipCommentTokens(_)
commentsSkipped(r) == IF r.tok.t \in Comment THEN skipCommentTokens(r) ELSE r
skipCommentTokens(r) == commentsSkipped(readToken(r))

addError(r) == [r EXCEPT !.errors = @ + 1, !.ok = FALSE]

\* The tokens up to the end of the broken object or array are skipped.
RECURSIVE recoverFromError(_, _)
recovered(r, until) ==
    IF r.tok.t \in {until, "eof"} THEN [r EXCEPT !.ok = FALSE] ELSE recoverFromError(r, until)
recoverFromError(r, until) ==
    recovered(readToken(r), until)

\* A slip: the error is skipped over and not recorded.
recoverUnrecorded(r, until) == recoverFromError(r, until)

addErrorAndRecover(r, until) == recoverFromError(addError(r), until)

RECURSIVE readValue(_), readMembers(_, _), readElements(_, _)

\* A child is created, read as the top of the stack, and popped.
readChild(r, parent, key) ==
    LET s == readValue([r EXCEPT !.root = Put(@, r.path, parent), !.path = Append(@, key)])
    IN [s EXCEPT !.path = Front(@)]

\* After the value of a member, or after the comments behind it.
memberEnds(comma, name) ==
    LET next == commentsSkipped(comma)
    IN IF comma.tok.t \notin Comment \cup {"}", ","} THEN addErrorAndRecover(comma, "}")
       ELSE IF next.tok.t = "}" THEN [next EXCEPT !.ok = TRUE]
       ELSE readMembers(next, name)

memberRead(value, name) ==
    IF value.ok THEN memberEnds(readToken(value), name) ELSE recoverFromError(value, "}")

\* The value of member "name".
readMember(colon, name) ==
    LET key == TextNumber(name)
    IN IF colon.tok.t # ":" THEN addErrorAndRecover(colon, "}")
       ELSE memberRead(readChild(colon, resolveReference(currentValue(colon), key), key), name)

\* A member begins with r; "name" is the name of the member before.
memberBegins(r, name) ==
    LET decoded == decodeString(r.tok.body)
    IN IF r.tok.t = "}" /\ name = <<>> THEN [r EXCEPT !.ok = TRUE]
       ELSE IF r.tok.t # "string" \/ ~decoded.ok THEN addErrorAndRecover(r, "}")
       ELSE readMember(readToken(r), decoded.text)

readMembers(r, name) == memberBegins(skipCommentTokens(r), name)

readObject(r) == readMembers(SetCurrent(r, Value("object", 0)), <<>>)

\* Nothing but a comma or the end may follow an element, not even a comment.
elementEnds(token, index) ==
    IF token.tok.t \notin {",", "]"} THEN addErrorAndRecover(token, "]")
    ELSE IF token.tok.t = "]" THEN [token EXCEPT !.ok = TRUE]
    ELSE readElements(token, index + 1)

elementRead(value, index) ==
    IF value.ok THEN elementEnds(readToken(value), index) ELSE recoverFromError(value, "]")

readElements(r, index) ==
    elementRead(readChild(r, Element(currentValue(r), index), index), index)

readArray(r) ==
    LET s == SetCurrent(r, Value("array", 0))
        at == SelectInSubSeq(r.text, r.pos, Len(r.text), LAMBDA l : l.t \notin {"nl", "sp"})
    IN IF at # 0 /\ r.text[at].t = "]" THEN readToken(s) ELSE readElements(s, 0)

ReadNumber(r, decoded) == IF decoded.ok THEN SetCurrent(r, decoded.value) ELSE addError(r)

ReadString(r, decoded) ==
    IF decoded.ok THEN SetCurrent(r, Value("string", TextNumber(decoded.text))) ELSE addError(r)

\* The comments in front of a value become its own.
Noted(r) ==
    IF r.before = <<>> THEN r
    ELSE [r EXCEPT !.root = Put(@, r.path, setComment(At(@, r.path), "before", r.before)),
                   !.before = <<>>]

ValueTokens == {"{", "[", "number", "string", "true", "false", "null"}

valueBegins(v) ==
    CASE v.tok.t = "{"      -> readObject(v)
      [] v.tok.t = "["      -> readArray(v)
      [] v.tok.t = "number" -> ReadNumber(v, decodeNumber(v.tok.body))
      [] v.tok.t = "string" -> ReadString(v, decodeString(v.tok.body))
      [] v.tok.t = "true"   -> SetCurrent(v, Value("bool", 1))
      [] v.tok.t = "false"  -> SetCurrent(v, Value("bool", 0))
      [] v.tok.t = "null"   -> SetCurrent(v, null)
      [] OTHER              -> addError(v)

\* The value is the last one read, which a comment on its line is for.
Remembered(isValue, r) ==
    IF isValue /\ r.collect THEN [r EXCEPT !.lastEnd = r.pos, !.last = r.path] ELSE r
valueAt(v) == Remembered(v.tok.t \in ValueTokens, valueBegins(v))

readValue(r) == valueAt(Noted(skipCommentTokens(r)))

\* Reader::parse.  What follows the root value is not looked at, but for
\* the comments.
parsed(r) == IF r.before = <<>> THEN r ELSE [r EXCEPT !.root = setComment(@, "after", r.before)]
parse(text, collect) == parsed(skipCommentTokens(readValue(Reader(text, collect))))
=============================================================================
