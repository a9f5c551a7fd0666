-------------------------- MODULE MCHostFunctions --------------------------
(***************************************************************************)
(* The inputs of HostFunctions: every target of at most four tokens, every *)
(* host of as many, every request that differs from a correct one in at    *)
(* most two places, and every bundle that differs from an exact one in at  *)
(* most two nodes.                                                         *)
(***************************************************************************)
EXTENDS HostFunctions

Tokens == {"/", "ns", "%ns", "%2F", "%5C", "\\", "?", "%3F", "x"}
MCTargets ==
    {<<"*">>, <<"http://", "x">>, <<"/", "#">>, <<"/", "%">>}
        \cup UNION {[1 .. n -> Tokens] : n \in 0 .. 4}
        \cup {<<"/", "ns", "/", "api">> \o t : t \in UNION {[1 .. n -> Tokens] : n \in 0 .. 2}}

MCHosts ==
    UNION {[1 .. n -> {"launcher", "p", "P", ".", ":", "0", Port, " "}] : n \in 0 .. 4}

Pairs ==
    {[name |-> n, value |-> v] :
        n \in {"cookie", "Cookie"}, v \in {<<CapabilityCookie>>, <<"theme">>, <<"">>,
                                          <<CapabilityCookie, "theme">>}}
    \cup {[name |-> "origin", value |-> <<o>>] : o \in {"p", "other"}}
    \cup {[name |-> ClientHeader, value |-> <<"editor">>],
          [name |-> "connection", value |-> <<"upgrade">>],
          [name |-> "subprotocol", value |-> <<"vite-hmr">>]}
\* An upgrade, whole or without one pair, among others.
Upgrade(more) ==
    <<[name |-> "connection", value |-> <<"upgrade">>],
      [name |-> "subprotocol", value |-> <<"vite-hmr">>]>> \o more
MCRawHeaders ==
    LET short == UNION {[1 .. n -> Pairs] : n \in 0 .. 3}
    IN  short \cup {Upgrade(raw) : raw \in short}

\* The command route, the body of a command, and the document that sends it.
ApiPath == <<"/", "ns", "/", "api">>
Body(command, session) ==
    [form |-> "good", command |-> command, id |-> "r1", session |-> session, bytes |-> 1]
Sent(host, client, command, session) ==
    [target |-> ApiPath, method |-> "POST", duplicated |-> FALSE, hosts |-> <<<<host>>>>,
     cookies |-> <<host>>, json |-> TRUE, client |-> client,
     marker |-> IF command \in {"activate", "deactivate", "apply-edit"} THEN "1" ELSE "absent",
     origin |-> host, site |-> "same-origin", body |-> Body(command, session)]
MCCorrect ==
    {Sent("launcher", "launcher", c, 0) : c \in {"list-projects", "activate"}}
    \cup {Sent("launcher", "launcher", "deactivate", s) : s \in {1, 2}}
    \cup {Sent("p", "editor", c, s) :
              c \in {"activate", "deactivate", "inspect", "apply-edit"}, s \in {1, 2}}
    \cup {Sent("p", "editor", "list-projects", 0)}
    \cup {Sent("p", "diagnostic", "inspect", s) : s \in {1, 2}}

\* What may be otherwise in one place of a request.
Changed(r) ==
    {[r EXCEPT !.target = t] : t \in {ApiPath \o <<"/">>, ApiPath \o <<"?", "x">>, <<"/", "%ns">>,
                                      <<"/", "x">>}}
    \cup {[r EXCEPT !.method = "GET"], [r EXCEPT !.duplicated = TRUE], [r EXCEPT !.json = FALSE]}
    \cup {[r EXCEPT !.hosts = <<h>>] : h \in {<<"launcher">>, <<"p">>, <<"P", ":", Port>>, <<"q">>,
                                             <<"p", ":", "1">>}}
    \cup {[r EXCEPT !.hosts = <<>>]}
    \cup {[r EXCEPT !.cookies = c] :
              c \in {<<>>, <<"launcher">>, <<"p">>, <<"other">>, <<"p", "p">>}}
    \cup {[r EXCEPT !.client = c] : c \in {"absent", "launcher", "editor", "diagnostic", "gone"}}
    \cup {[r EXCEPT !.marker = m] : m \in {"absent", "1", "2"}}
    \cup {[r EXCEPT !.origin = o] : o \in {"absent", "launcher", "p", "other"}}
    \cup {[r EXCEPT !.site = "cross-site"]}
    \cup {[r EXCEPT !.body.form = f] : f \in {"unparsable", "shape-without-id", "shape", "version"}}
    \cup {[r EXCEPT !.body.command = c] :
              c \in {"list-projects", "activate", "deactivate", "inspect", "apply-edit"}}
    \cup {[r EXCEPT !.body.session = s] : s \in {0, 1, 2}}
    \cup {[r EXCEPT !.body.bytes = b] : b \in {LifecycleBytes + 1, EditBytes, EditBytes + 1}}
MCRequests == UNION {{r} \cup Changed(r) \cup UNION {Changed(s) : s \in Changed(r)} : r \in MCCorrect}

Binding(class, role, session) == [class |-> class, role |-> role, session |-> session]
MCAuthorities ==
    LET seated(session, editor, project) ==
            [session |-> session, project |-> project,
             capability |-> "launcher" :> "launcher" @@ "p" :> "p" @@ project :> project,
             bindings |-> "launcher" :> Binding("launcher", "launcher", 0)
                          @@ "editor" :> Binding("project", "editor", editor)
                          @@ "diagnostic" :> Binding("project", "diagnostic", session)]
    IN  {[session |-> 0, project |-> NoProject, capability |-> "launcher" :> "launcher",
          bindings |-> "launcher" :> Binding("launcher", "launcher", 0)],
         seated(1, 0, "p"), seated(2, 2, "p"), seated(2, 1, "p"), seated(2, 2, "q")}
MCOutcomes ==
    {[kind |-> "result", bytes |-> ResponseBytes], [kind |-> "result", bytes |-> ResponseBytes + 1],
     [kind |-> "error", code |-> "stale-session"], [kind |-> "thrown"]}

-----------------------------------------------------------------------------
Directory == [type |-> "directory", readable |-> TRUE]
\* Only the manifest reads as one.
Regular(hash, executable) ==
    [type |-> "file", bytes |-> 2, hash |-> hash, links |-> 1, executable |-> executable,
     readable |-> TRUE, manifest |-> [parses |-> FALSE]]
Resource(path, hash, executable) ==
    [path |-> path, bytes |-> 2, hash |-> hash, executable |-> executable]
Resources ==
    <<Resource(ControlPlaneEntry, "child", FALSE), Resource(ModuleTypeMarker, "marker", FALSE),
      Resource(NodeExecutable, "node", TRUE)>>
Manifest(resources) == [parses |-> TRUE, valid |-> TRUE, pins |-> Pins, resources |-> resources]
ExactManifest == Manifest(Resources)
MCManifests ==
    {ExactManifest, [ExactManifest EXCEPT !.parses = FALSE], [ExactManifest EXCEPT !.valid = FALSE],
     [ExactManifest EXCEPT !.pins = "others"],
     Manifest(Append(Resources, Resource(<<"node", "extra">>, "extra", FALSE))),
     Manifest(Append(Resources, Resource(NodeExecutable, "node", FALSE))),
     Manifest(<<Resource(NodeExecutable, "node", FALSE)>> \o Resources)}
    \cup {Manifest(Remove(Resources, r)) : r \in ToSet(Resources)}
    \cup {Manifest([Resources EXCEPT ![n].executable = ~@]) : n \in {1, 3}}
ExactTree(manifest) ==
    [p \in {<<"astroix-runtime">>, <<"astroix-runtime", "control-plane">>, <<"node">>,
            <<"node", "bin">>} |-> Directory]
    @@ ControlPlaneEntry :> Regular("child", FALSE) @@ ModuleTypeMarker :> Regular("marker", FALSE)
    @@ NodeExecutable :> Regular("node", TRUE)
    @@ ManifestPath :> [Regular("manifest", FALSE) EXCEPT !.manifest = manifest]

\* What may be at a path instead; what was below a directory stays where it
\* was, out of reach but for a link's.
NodesAt(tree, p) ==
    {LinkToDirectory, [type |-> "link", leads |-> "file"], [type |-> "sealed"]}
    \cup (CASE tree[p].type = "directory" -> {[tree[p] EXCEPT !.readable = FALSE], Regular("x", FALSE)}
            [] tree[p].type = "file" ->
                 {Directory, [tree[p] EXCEPT !.bytes = 3], [tree[p] EXCEPT !.hash = "other"],
                  [tree[p] EXCEPT !.links = 2], [tree[p] EXCEPT !.readable = FALSE],
                  [tree[p] EXCEPT !.executable = ~@]}
            [] OTHER -> {})
Extra(tree) ==
    {p :> n @@ tree : p \in {<<"astroix-runtime", "new">>, <<"node", "extra">>, <<"other">>,
                             <<"node", "bin", "new">>},
                      n \in {Directory, Regular("extra", FALSE), LinkToDirectory}}
    \cup {<<"node", "extra", "deep">> :> Regular("extra", FALSE) @@ tree}
Altered(tree) ==
    {[tree EXCEPT ![p] = n] : <<p, n>> \in UNION {{q} \X NodesAt(tree, q) : q \in DOMAIN tree}}
    \cup {[p \in DOMAIN tree \ {q} |-> tree[p]] : q \in DOMAIN tree}
    \cup Extra(tree)
MCBundles ==
    LET others == {ExactTree(m) : m \in MCManifests}
    IN  others \cup UNION {Altered(t) : t \in others}
               \cup UNION {Altered(t) : t \in Altered(ExactTree(ExactManifest))}
MCRunning == {Pins, "others"}

=============================================================================
