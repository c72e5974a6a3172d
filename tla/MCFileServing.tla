---------------------------- MODULE MCFileServing ----------------------------
EXTENDS FileServing

MCTemplate == {<<"GET", "a", "b">>, <<"GET", "a", "{x}">>, <<"GET", "{x}", "b">>,
               <<"GET", "{y}", "{x}", "b">>, <<"GET", "a", "{x}", "**">>, <<"GET", "**">>, <<"GET">>,
               <<"HEAD", "a", "**">>}
MCParam == {"{x}", "{y}"}
MCPaths == UNION {[1..n -> {"a", "b"}] : n \in 0..2} \cup {<<"a", "b", "b">>, <<"a", "a", "b">>}
MCMethods == {"GET", "HEAD"}

CONSTANT e   \* a bound that is not given
MCRanges == {<<<<1, 2>>>>, <<<<0, e>>>>, <<<<e, 1>>>>, <<<<2, 1>>>>, <<<<1, 3>>>>,
             <<<<0, 1>>, <<2, e>>>>, <<<<0, 2>>, <<3, 1>>>>}
=============================================================================
