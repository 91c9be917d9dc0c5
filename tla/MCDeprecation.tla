--------------------------- MODULE MCDeprecation ---------------------------
(* Files of up to two declarations of every shape fn distinguishes, and    *)
(* of three declarations of the shapes whose docs can carry over.  The     *)
(* j-th name declared by the i-th declaration is <<i, j>>.                 *)
EXTENDS Deprecation

MCMsgs == {"m1", "m2"}

\* a doc is absent, plain, or deprecated in favour of m1 or m2
D == {NoDoc, DepDoc("m1"), DepDoc("m2")}

Other == [kind |-> "other"]
Func(i, d) == [kind |-> "funcdecl", doc |-> d, name |-> <<i, 1>>]
Gen(tok, d, specs) == [kind |-> "gendecl", tok |-> tok, doc |-> d, children |-> specs]
VS(i, j, d) == [kind |-> "valuespec", doc |-> d, names |-> <<<<i, j>>>>]
\* type T struct { F } or type T interface { F() }: T is <<i,1>>, F <<i,2>>
TS(i, k, sd, fd) ==
    [kind |-> "typespec", doc |-> sd, name |-> <<i, 1>>,
     children |-> <<Other, [kind |-> k, fields |-> <<[doc |-> fd, names |-> <<<<i, 2>>>>]>>]>>]

\* declarations whose docs can carry over: func, `var ()`, `var x`
CarryDecls(i) ==
    {Func(i, d) : d \in D} \cup {Gen("var", d, <<>>) : d \in D} \cup
    {Gen("var", g, <<VS(i, 1, d)>>) : g, d \in D}

AllDecls(i) ==
    CarryDecls(i) \cup {Gen("import", d, <<>>) : d \in D} \cup
    {Gen("var", g, <<VS(i, 1, d1), VS(i, 2, d2)>>) : g, d1, d2 \in D} \cup
    {Gen("type", g, <<TS(i, k, sd, fd)>>) : g, sd, fd \in D, k \in {"struct", "interface"}}

FileOf(ds) == [kind |-> "file", children |-> ds]

MCFiles ==
    {FileOf(<<>>)} \cup {FileOf(<<a>>) : a \in AllDecls(1)} \cup
    {FileOf(<<a, b>>) : a \in AllDecls(1), b \in AllDecls(2)} \cup
    {FileOf(<<a, b, c>>) : a \in CarryDecls(1), b \in CarryDecls(2), c \in CarryDecls(3)}
=============================================================================
