---------------------------- MODULE MCDocuments ----------------------------
(***************************************************************************)
(* Documents of at most three values with two comments, integers of eight  *)
(* bits, lines of twelve characters, reals written with four digits.  A    *)
(* behaviour is about comments, with few kinds of value, or about values,  *)
(* with all kinds and no comment.                                          *)
(***************************************************************************)
EXTENDS Documents

VARIABLE about

\* The empty text, one of control characters, one that needs several kinds of escape.
MCTexts == << <<>>, <<Backspace, "\r", "\f", "/">>, <<"\"", "\\", "n">> >>
MCComments == {<<"before", <<Lexeme("block", <<"b">>)>> >>,
               <<"same",   <<Lexeme("line",  <<"l">>)>> >>,
               <<"same",   <<Lexeme("line",  <<"l">>), SP>> >>,
               <<"after",  <<Lexeme("line",  <<"l">>)>> >>}

\* The limits of the integers; reals: 1.5, 1234.5 (a digit too many), -12340
\* (written with an exponent), and those that are not finite; strings, one of them
\* without a text.
MCFew == {Value("int", minInt)}
MCScalars == MCFew \cup
            {Value("uint", maxInt), Value("uint", maxUInt), Value("bool", 1),
             Value("string", 0), Value("string", 2), Value("string", 3),
             Value("real", 3), Value("real", 2469), Value("real", -24680),
             Value("real", Infinity), Value("real", -Infinity), Value("real", NaN)}

FewKinds(v) ==
    IF v.type = "object" THEN DOMAIN v.kids \subseteq {1, 3}
    ELSE v.type \in {"null", "array"} \/ [v EXCEPT !.notes = NoNotes] \in MCFew

MCInit == Init /\ about \in {"comments", "values"}
MCNext ==
    /\ Next
    /\ about' = about
    /\ IF about = "comments" THEN Everywhere(root', FewKinds)
       ELSE Everywhere(root', LAMBDA v : v.notes = NoNotes)
MCSpec == MCInit /\ [][MCNext]_<<root, about>>
=============================================================================
