------------------------------ MODULE MCMarkup ------------------------------
EXTENDS Markup
a == <<"a">>
bc == <<"b", "c">>
k == <<"k">>
MCNames == {bc}
MCAttrNames == {k}
MCValues == {<<>>, <<"<", "\"">>}
\* <?x?>CRLF<a kk='v' k="&lt;">t<bc><a/></bc><!--c--> </a>
Prolog == <<"<", "?", "x", "?", ">">> \o CRLF
Outer == <<"<", "a", " ", "k", "k", "=", "'", "v", "'", " ", "k", "=", "\"">> \o Code("<") \o <<"\"", ">", "t">>
Inner == <<"<", "b", "c", ">", "<", "a", "/", ">", "<", "/", "b", "c", ">">>
Tail1 == <<"<", "!", "-", "-", "c", "-", "-", ">", " ", "<", "/", "a", ">">>
MCDocs == {<<>>, Prolog \o Outer \o Inner \o Tail1, <<"<", "a", " ", "k", "=", "'", "v", "'", "/", ">">>,
           <<"<", "a", ">", "<", "/", "b", ">">>}
MCSubDocs == {Prolog \o Inner, <<"<", "a", ">">>, <<"t">>}
MCPaths == {<<>>, <<"a">>, <<"/", "*", "/", "b", "c">>}
MCNodeTypes == {"comment", "pi", "text", "cdata", "element"}
MCSought == {{}, {"comment", "text"}}
=============================================================================
