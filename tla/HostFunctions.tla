--------------------------- MODULE HostFunctions ----------------------------
(***************************************************************************)
(* The hosts' decisions that keep no state, called on every input of small *)
(* sets: how a target, a host and the headers of a request are read and    *)
(* forwarded, what a request to the reserved namespace may do and what its *)
(* answer tells, and whether an installed bundle is what its manifest      *)
(* says.  A call stays with its answer until it returns.                   *)
(***************************************************************************)
EXTENDS ApiDispatch, ForwardedHeaders, PackagedAssets

CONSTANTS
    Targets,         \* the request targets
    HostValues,      \* the values of a Host header
    RawHeaders,      \* the raw headers of a request
    CorrectRequests, \* what the documents of the hosts send
    Requests,        \* those requests and what else may arrive
    Authorities,     \* what the host may know when a request arrives
    Outcomes,        \* what an executed command may answer
    Bundles,         \* installed bundles
    RunningPins      \* the versions a host may run

Request ==
    [target : Seq(STRING), method : STRING, duplicated : BOOLEAN, hosts : Seq(Seq(STRING)),
     cookies : Seq(STRING), json : BOOLEAN, client : STRING, marker : STRING, origin : STRING,
     site : STRING,
     body : [form : STRING, command : STRING, id : STRING, session : Nat, bytes : Nat]]

\* The names of the virtual hosts.
HostNames == {"launcher"} \cup ({authority.project : authority \in Authorities} \ {NoProject})

\* No name is a separator, a refusal of the reader, or in capitals; the port is a number.
ASSUME NamesAssumption ==
    /\ HostNames \cap {"P", ".", ":", " ", "%", "@", "none", "longer", "missing-host",
                      "duplicate-host", "malformed-host", "trailing-dot-host",
                      "host-port-mismatch"} = {}
    /\ Port \notin {"0", ".", ":", " ", "%", "@"}

\* Targets and hosts are sequences of tokens; nobody has the capability of no project.
ASSUME RequestsAssumption ==
    /\ Targets \subseteq Seq(STRING) /\ HostValues \subseteq Seq(STRING)
    /\ Requests \subseteq Request /\ CorrectRequests \subseteq Requests
    /\ {LifecycleBytes, EditBytes} \subseteq Nat
    /\ \A authority \in Authorities : NoProject \notin DOMAIN authority.capability

\* A document sends what its role may send, to the host it came from (app-client.ts).
ASSUME CorrectAssumption ==
    \A request \in CorrectRequests :
        /\ classifyApiRoute(request.target) = "command-endpoint"
        /\ request.method = "POST" /\ request.json /\ ~request.duplicated
        /\ request.hosts = <<<<request.origin>>>> /\ request.origin \in HostNames
        /\ Valid(request.body) /\ request.body.bytes <= EditBytes
        /\ checkTransportMarkers(request, request.origin) = "none"
        /\ \A authority \in Authorities :
              request.client \in DOMAIN authority.bindings =>
                  BindingPermits(request, authority, request.origin)

Path == Seq(STRING) \ {<<>>}

\* A bundle is a tree of named nodes; what a manifest lists are paths.
ASSUME BundlesAssumption ==
    /\ MaxManifestBytes \in Nat
    /\ \A tree \in Bundles :
          /\ DOMAIN tree \subseteq Path
          /\ \A p \in DOMAIN tree : tree[p].type \in {"directory", "file", "link", "sealed"}
          /\ ManifestPath \in DOMAIN tree /\ tree[ManifestPath].type = "file" =>
                /\ tree[ManifestPath].bytes \in Nat
                /\ tree[ManifestPath].manifest.parses =>
                      LET resources == tree[ManifestPath].manifest.resources
                      IN  /\ DOMAIN resources = 1 .. Len(resources) /\ Len(resources) \in Nat
                          /\ \A r \in ToSet(resources) : r.path \in Path

VARIABLES
    call,    \* the function that is running and its arguments
    answer   \* what it has answered so far

hostVars == <<call, answer>>

NoCall == [to |-> "nobody"]
NoAnswer == [of |-> "nobody"]

HostInit == call = NoCall /\ answer = NoAnswer

Idle == call = NoCall

\* The target a router takes it for, and what the command route takes it for.
ClassifyTarget ==
    /\ Idle
    /\ \E target \in Targets :
        /\ call' = [to |-> "target", target |-> target]
        /\ answer' = [of |-> "target", class |-> classifyRequestTarget(target),
                      route |-> classifyApiRoute(target)]

ReadHost ==
    /\ Idle
    /\ \E values \in {<<>>} \cup {<<v>> : v \in HostValues} \cup {<<v, v>> : v \in HostValues} :
        /\ call' = [to |-> "host", values |-> values]
        /\ answer' = [of |-> "host", host |-> parseHostHeader(values)]

\* A request of the project's page goes on to its dev server, or an upgrade does.
ForwardHeaders ==
    /\ Idle
    /\ \E raw \in RawHeaders, method \in {"GET", "POST"} :
        /\ call' = [to |-> "forward", raw |-> raw, method |-> method]
        /\ answer' = [of |-> "forward",
                      duplicated |-> duplicatedSecurityHeader(raw),
                      proxied |-> stripControlAuthority(ParsedHeaders(raw)),
                      upgrade |-> validateUpgradeRequest(method, ParsedHeaders(raw), <<"p">>),
                      tunnelled |-> reconstructUpgradeHandshake(method, raw)]

\* A request arrives: it is refused, or admitted for execution.
ReceiveRequest ==
    /\ Idle
    /\ \E request \in Requests, authority \in Authorities :
        /\ call' = [to |-> "request", request |-> request, authority |-> authority]
        /\ answer' = [of |-> "request", admission |-> handle(request, authority)]

\* The command's outcome, or its failure, becomes the answer.
ExecuteCommand ==
    /\ call.to = "request" /\ answer.admission.executes
    /\ \E outcome \in Outcomes :
          answer' = [answer EXCEPT !.admission = execute(call.request.body, outcome)]
    /\ UNCHANGED call

VerifyBundle ==
    /\ Idle
    /\ \E tree \in Bundles, running \in RunningPins :
        /\ call' = [to |-> "bundle", tree |-> tree, running |-> running]
        /\ answer' = [of |-> "bundle", outcomes |-> verifyPackagedAssets(tree, running)]

Return ==
    /\ ~Idle
    /\ call' = NoCall /\ answer' = NoAnswer

HostNext ==
    \/ ClassifyTarget \/ ReadHost \/ ForwardHeaders
    \/ ReceiveRequest \/ ExecuteCommand \/ VerifyBundle \/ Return

HostSpec == HostInit /\ [][HostNext]_hostVars

-----------------------------------------------------------------------------
\* What a reader makes of a path that undoes the escapes of some kinds, and that may
\* take "\" for "/".
Undone(path, kinds, slash) ==
    [i \in DOMAIN path |->
        LET token == IF path[i] \in kinds THEN Decoded(path[i]) ELSE path[i]
        IN  IF slash /\ token = "\\" THEN "/" ELSE token]

Readings(path) ==
    {Undone(path, kinds, slash) : kinds \in SUBSET {"%ns", "%2F", "%5C", "%3F"}, slash \in BOOLEAN}

\* A value spells a host: its name in any case, with the port or without.
Spells(value, host) ==
    \E name \in {host} \cup (IF host = "p" THEN {"P"} ELSE {}) :
        \/ value = <<name>>
        \/ \E n \in 0 .. Len(value) :
              value = <<name, ":">> \o [i \in 1 .. n |-> "0"] \o <<Port>>

\* The one Host header of a request names the host.
Names(values, host) == Len(values) = 1 /\ Spells(values[1], host)

Authority(pair) ==
    LowerName(pair.name) = ClientHeader \/ (LowerName(pair.name) = "cookie"
                                            /\ ToSet(pair.value) = {CapabilityCookie})
\* Raw headers that never had the control plane's authority.
Unauthorised(raw) ==
    LET pairs == SelectSeq(raw, LAMBDA pair : ~Authority(pair))
    IN  [i \in DOMAIN pairs |->
            [pairs[i] EXCEPT !.value =
                IF LowerName(pairs[i].name) = "cookie"
                THEN SelectSeq(@, LAMBDA part : part # CapabilityCookie) ELSE @]]

\* A target that the listener lets through to the project is in the reserved
\* namespace for no reader, whichever escapes and backslashes it undoes, and one
\* that it keeps is there for every reader: no call of the API reaches a project,
\* and no page of a project the API (classifyRequestTarget).
TargetsRead ==
    answer.of = "target" =>
        /\ answer.class = "natural" =>
              \A path \in Readings(RawPath(call.target)) : ~isReservedPath(path)
        /\ answer.class = "reserved" =>
              \A path \in Readings(RawPath(call.target)) : isReservedPath(path)
        /\ answer.route = "command-endpoint" => answer.class = "reserved"

\* A host is reached by its own spellings only, and by all of them (parseHostHeader).
HostsRead ==
    answer.of = "host" =>
        \A host \in HostNames : answer.host = host <=> Names(call.values, host)

\* The dev server reads the same headers from a proxied request and from a
\* tunnelled one: those the page sent, without the control plane's authority; and
\* it gets no upgrade but its own page's (authority-strip.ts, upgrade-request.ts).
HeadersForwarded ==
    answer.of = "forward" =>
        /\ answer.tunnelled.headers = Unauthorised(call.raw)
        /\ answer.proxied = ParsedHeaders(answer.tunnelled.headers)
        /\ answer.upgrade = "admitted" /\ ~answer.duplicated =>
              \E pair \in ToSet(call.raw) : pair = [name |-> "origin", value |-> <<"p">>]

\* Everyone reads a request alike: its target, its host, and the headers that
\* are forwarded.
OneReadingPerRequest == TargetsRead /\ HostsRead /\ HeadersForwarded

-----------------------------------------------------------------------------
\* The request comes from a page the host itself served: it holds the capability.
FromTheHost(request, authority) ==
    \E host \in {"launcher", authority.project} \cap DOMAIN authority.capability :
        /\ Names(request.hosts, host)
        /\ request.cookies = <<authority.capability[host]>>

\* The document that speaks, if the host knows it.
Speakers(request, authority) ==
    {authority.bindings[c] : c \in DOMAIN authority.bindings \cap {request.client}}

\* An admitted command comes from a document of the host it was sent to, a change
\* from that host's own page, and a command of a session only while that session is
\* seated, from a document that is not another session's.
Permitted(request, authority) ==
    LET body == request.body
        session == body.session
        host == parseHostHeader(request.hosts)
    IN  /\ FromTheHost(request, authority)
        /\ \E speaker \in Speakers(request, authority) :
              /\ speaker.class = "launcher" <=> host = "launcher"
              /\ session # 0 => speaker.session \in {0, session}
              /\ body.command = "apply-edit" => speaker.role = "editor" /\ session # 0
        /\ session # 0 => session = authority.session
        /\ body.command \in {"activate", "deactivate", "apply-edit"} => request.origin = host
        /\ body.bytes <= EditBytes

\* The session of what a document sends is seated, and the document may speak for it.
Seated(request, authority) ==
    /\ FromTheHost(request, authority)
    /\ Speakers(request, authority) # {}
    /\ \A speaker \in Speakers(request, authority) :
          request.body.session # 0 => speaker.session \in {0, request.body.session}
    /\ request.body.session \in {0, authority.session}

\* The request with what another one says in place of its own words.
InTheWordsOf(request, other) ==
    [request EXCEPT !.body = [other.body EXCEPT !.bytes = request.body.bytes],
                    !.client = other.client, !.origin = other.origin, !.marker = other.marker]

\* A command is executed only when it is permitted; what the documents send is
\* executed as long as their session is seated; to anyone without the host's
\* capability the answer is the same whatever the request says, so it tells nothing of
\* documents and sessions; and an answer names no request and no session but those of
\* its request (dispatchApiRequest).
AdmissionIsSound ==
    call.to = "request" =>
        LET request == call.request
            authority == call.authority
            admitted == handle(request, authority).executes
        IN  /\ admitted => Permitted(request, authority)
            /\ request \in CorrectRequests => (admitted <=> Seated(request, authority))
            /\ ~FromTheHost(request, authority) =>
                  \A other \in CorrectRequests :
                      answer.admission = handle(InTheWordsOf(request, other), authority)
            /\ answer.admission.id \in {NoId, request.body.id}
            /\ answer.admission.session \in {0, request.body.session}

-----------------------------------------------------------------------------
\* A path that leads through real directories only.
RealWay(tree, path) ==
    \A n \in 1 .. Len(path) - 1 :
        LET way == SubSeq(path, 1, n)
        IN  way \in DOMAIN tree /\ tree[way].type = "directory"

\* A file of the bundle's own: reached through real directories, and by no other name.
OwnFile(tree, path) ==
    /\ path \in DOMAIN tree /\ RealWay(tree, path)
    /\ tree[path].type = "file" /\ tree[path].links = 1 /\ tree[path].readable

\* The bundle is the one that was built: its manifest is of the versions that run,
\* the files below its two subtrees are the manifest's, each its own, with the contents
\* listed, and the ones to run can be run.
Exact(tree, running) ==
    LET manifest == tree[ManifestPath].manifest
        listed == ToSet(manifest.resources)
        inside == {p \in DOMAIN tree : \E root \in Subtrees : IsStrictPrefix(root, p)}
    IN  /\ OwnFile(tree, ManifestPath)
        /\ tree[ManifestPath].bytes <= MaxManifestBytes
        /\ manifest.parses /\ manifest.valid
        /\ manifest.pins = Pins /\ running = Pins
        /\ {NodeExecutable, ControlPlaneEntry, ModuleTypeMarker} \subseteq {r.path : r \in listed}
        /\ \A r \in listed :
              /\ OwnFile(tree, r.path)
              /\ tree[r.path].bytes = r.bytes /\ tree[r.path].hash = r.hash
              /\ r.executable => tree[r.path].executable
        /\ \E i \in DOMAIN manifest.resources :
              /\ manifest.resources[i].path = NodeExecutable
              /\ manifest.resources[i].executable
              /\ \A j \in DOMAIN manifest.resources :
                    manifest.resources[j].path = NodeExecutable => j <= i
        /\ \A p \in inside : RealWay(tree, p) =>
              \/ tree[p].type = "directory" /\ tree[p].readable
              \/ p = ManifestPath \/ p \in {r.path : r \in listed}
        /\ \A root \in Subtrees : tree[root].readable

\* A bundle is accepted exactly when it is the one that was built, and then nothing
\* else can be the answer (verifyPackagedAssets).
BundleIsExact ==
    answer.of = "bundle" =>
        LET exact == Exact(call.tree, call.running)
        IN  /\ "ok" \in answer.outcomes <=> exact
            /\ exact => answer.outcomes = {"ok"}

=============================================================================
