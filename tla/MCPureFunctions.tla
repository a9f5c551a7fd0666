-------------------------- MODULE MCPureFunctions --------------------------
(***************************************************************************)
(* The inputs of PureFunctions: every pattern of at most two segments,     *)
(* every document of three fields, every list of four items, and two       *)
(* nested files with a block each; MCHostFunctions has the hosts'.         *)
(***************************************************************************)
EXTENDS PureFunctions, MCHostFunctions

Segments == {Static("a"), Static("b"), Param, Rest}

\* Astro puts a rest last; the mixed pattern is one nothing resolves.
MCPatterns ==
    {<<>>, <<Mixed>>, <<Param, Param>>} \cup {<<s>> : s \in Segments}
        \cup {<<Static("a"), s>> : s \in Segments} \cup {<<Param, Static("b")>>}
MCIds == {<<"b">>, <<"a", "b">>, <<"..">>}
MCCollections ==
    {[posts |-> {<<"b">>, <<"..">>}, pages |-> {<<"a", "b">>}],
     [posts |-> {<<"b">>}, pages |-> {<<"b">>, <<"a", "b">>}],
     [posts |-> {<<"b">>, <<"a", "b">>}, pages |-> {}]}
MCUrls ==
    {<<>>, <<"a">>, <<"b">>, <<"a", "b">>, <<"b", "b">>, <<"a", "a", "b">>}

Texts == {Leaf("old"), Leaf("new")}
\* A map that lacks the keys whose value is Undefined.
Present(map) == Map([k \in {k \in DOMAIN map : map[k] # Undefined} |-> map[k]])
Groups ==
    {Present([about |-> a, image |-> i]) : a \in Texts \cup {Undefined}, i \in Texts \cup {Undefined}}
MCDocuments ==
    {Present([title |-> t, seo |-> g]) : t \in Texts \cup {Undefined}, g \in Groups \cup {Undefined}}
\* A form clears a field by leaving it out or by the value Undefined.
MCDrafts ==
    MCDocuments \cup
        {Map([title |-> Undefined, seo |-> Map([about |-> Undefined, image |-> i])]) : i \in Texts}
MCProtected == {{}, {<<"seo", "image">>}}
MCBodies == UNION {[1 .. n -> {"text", "space"}] : n \in 0 .. 3}

MCItems == UNION {[1 .. n -> {1, 3, 7}] : n \in 0 .. 4}
MCSizes == {NoSize, 0, 1, 2}

MCRecords ==
    LET block(f, n) == Record(f, n, TRUE, "p")
    IN  {<<block(<<"a">>, 0), block(<<"d", "a">>, 0), Record(<<"a">>, 0, TRUE, "q")>>,
         <<block(<<"a">>, 0), block(<<"a">>, 1), Record(<<"d", "a">>, 0, FALSE, "p")>>,
         <<block(<<"d", "a">>, 0), Record(<<"a">>, 0, TRUE, "q"), block(<<"a">>, 0)>>,
         <<Record(<<"g">>, 0, FALSE, "p")>>}

\* A module of file f, which a compiler names below the project's root.
Module(f, block, rules) ==
    [of |-> f, path |-> <<"root">> \o f, block |-> block, rules |-> rules]
RuleLists ==
    {<<Rule("p", TRUE)>>, <<Rule("p", TRUE), Rule("q", TRUE)>>,
     <<Rule("q", TRUE), Rule("p", TRUE)>>, <<Rule("p", FALSE)>>}
MCModules ==
    LET modules == {Module(f, n, rules) : f \in {<<"a">>, <<"d", "a">>}, n \in {0, 1},
                                          rules \in RuleLists}
    IN  {<<>>} \cup {<<m>> : m \in modules} \cup {<<m, n>> : m \in modules, n \in modules}
MCRequired == SUBSET {<<"a">>, <<"d", "a">>}

=============================================================================
