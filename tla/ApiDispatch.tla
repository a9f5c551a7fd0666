---------------------------- MODULE ApiDispatch -----------------------------
(***************************************************************************)
(* The decisions on one request to the reserved namespace: the target, the *)
(* virtual host, the host capability, the envelope, the transport markers, *)
(* the client binding and the session (runtime/origin/virtual-hosts.ts,    *)
(* runtime/api/http, runtime/api/errors).                                  *)
(*                                                                         *)
(* A target is a sequence of tokens, "ns" being the reserved namespace's   *)
(* name and "%ns", "%2F", "%5C" escapes; so is the value of a Host header, *)
(* where a host's name is one token and "P" is "p" in capitals.  A request *)
(* is a record of what the checks read of it.  An authority is what the    *)
(* host knows: the current session and its project (0 and NoProject        *)
(* without one), the capability of each host, and the documents' bindings. *)
(***************************************************************************)
EXTENDS Naturals, Sequences, SequencesExt

CONSTANTS
    Port,           \* the listener's port, a token
    NoProject,      \* no project is active
    LifecycleBytes, \* the cap of an envelope but an edit's
    EditBytes,      \* the cap of an edit, and of any body
    ResponseBytes   \* the cap of an answer

-----------------------------------------------------------------------------
(* Targets: the request line's path and query.                             *)

Before(seq, x) ==
    IF Contains(seq, x)
    THEN SubSeq(seq, 1, (CHOOSE i \in DOMAIN seq : seq[i] = x /\ \A j \in 1 .. i - 1 : seq[j] # x) - 1)
    ELSE seq

Decoded(token) ==
    CASE token = "%ns" -> "ns" [] token = "%2F" -> "/" [] token = "%5C" -> "\\"
      [] token = "%3F" -> "?" [] OTHER -> token

\* Mutant: only the escapes are undone.
RouterViewDecoded(path) == [i \in DOMAIN path |-> Decoded(path[i])]

\* What a router that decodes and takes "\" for "/" makes of a path.
RouterView(path) ==
    [i \in DOMAIN path |-> IF Decoded(path[i]) = "\\" THEN "/" ELSE Decoded(path[i])]

isReservedPath(path) == path = <<"/", "ns">> \/ IsPrefix(<<"/", "ns", "/">>, path)

RawPath(target) == Before(target, "?")

classifyRequestTarget(target) ==
    LET reserved == isReservedPath(RawPath(target))
        ambiguous == reserved # isReservedPath(RouterView(RawPath(target)))
    IN  CASE target = <<>> -> "malformed-target"
          [] target = <<"*">> -> "asterisk-form-target"
          [] Head(target) = "http://" -> "absolute-form-target"
          [] Contains(target, "#") \/ Head(target) # "/" -> "malformed-target"
          [] Contains(RawPath(target), "%") -> "malformed-target"
          [] ambiguous -> "ambiguous-reserved-encoding"
          [] reserved -> "reserved"
          [] OTHER -> "natural"

Rejections ==
    {"malformed-target", "asterisk-form-target", "absolute-form-target",
     "ambiguous-reserved-encoding"}

CommandEndpoints == {<<"/", "ns", "/", "api">>, <<"/", "ns", "/", "api", "/">>}

claimReservedPath(target) ==
    [kind |-> classifyRequestTarget(target), path |-> RawPath(target),
     hasQuery |-> Len(target) > Len(RawPath(target)) + 1]

classifyApiRoute(target) ==
    LET claim == claimReservedPath(target)
    IN  CASE claim.kind \in Rejections -> claim.kind
          [] claim.kind = "reserved" /\ ~claim.hasQuery /\ claim.path \in CommandEndpoints ->
               "command-endpoint"
          [] OTHER -> "unknown-route"

-----------------------------------------------------------------------------
(* Hosts: the launcher and the projects.                                   *)

Lower(token) == IF token = "P" THEN "p" ELSE token

\* A number's digits without the zeros it begins with.
Significant(digits) ==
    LET zeros == {n \in 0 .. Len(digits) : \A i \in 1 .. n : digits[i] = "0"}
    IN  SubSeq(digits, Max(zeros) + 1, Len(digits))

\* The name and the port of a Host header's value; a malformed one has no name.
splitHostPort(value) ==
    LET hostname == Before(value, ":")
        digits == SubSeq(value, Len(hostname) + 2, Len(value))
    IN  CASE ~Contains(value, ":") -> [hostname |-> value, port |-> "none"]
          [] Contains(value, ":") /\ digits # <<>> /\ ToSet(digits) \subseteq {"0", "1", Port} ->
               [hostname |-> hostname,
                port |-> IF Significant(digits) = <<Port>> THEN "ours" ELSE "other"]
          [] OTHER -> [hostname |-> <<>>, port |-> "none"]

HasEmptyLabel(hostname) ==
    \/ \E i \in DOMAIN hostname : i < Len(hostname) /\ hostname[i] = "." /\ hostname[i + 1] = "."
    \/ Head(hostname) = "."

\* `values` are the Host headers of the request.
parseHostHeader(values) ==
    LET value == Head(values)
        parts == splitHostPort(value)
    IN  CASE values = <<>> -> "missing-host"
          [] Len(values) > 1 -> "duplicate-host"
          [] OTHER ->
               CASE \E t \in ToSet(value) : t \in {" ", "%", "@"} -> "malformed-host"
                 [] parts.hostname = <<>> \/ HasEmptyLabel(parts.hostname) -> "malformed-host"
                 [] Last(parts.hostname) = "." -> "trailing-dot-host"
                 [] parts.port = "other" -> "host-port-mismatch"
                 [] OTHER -> IF Len(parts.hostname) = 1 THEN Lower(parts.hostname[1]) ELSE "longer"

resolveAdmissionHost(request, authority) ==
    LET host == parseHostHeader(request.hosts)
    IN  IF host = "launcher" \/ (authority.project # NoProject /\ host = authority.project)
        THEN host ELSE "none"

VirtualHostClass(host) == IF host = "launcher" THEN "launcher" ELSE "project"

\* The host's own capability, presented once.
Verified(request, authority, host) ==
    /\ host \in DOMAIN authority.capability
    /\ request.cookies = <<authority.capability[host]>>

-----------------------------------------------------------------------------
(* Answers.                                                                *)

NoId == "unavailable"

Answer(code, id, session) == [executes |-> FALSE, code |-> code, id |-> id, session |-> session]
errorResponse(code) == Answer(code, NoId, 0)
Admitted(body) == [executes |-> TRUE, code |-> "none", id |-> body.id, session |-> body.session]

-----------------------------------------------------------------------------
(* The envelope.  `form` is the first fault the schema reports.            *)

SessionPresence(command) ==
    CASE command = "list-projects" -> "forbidden" [] command = "activate" -> "optional"
      [] OTHER -> "required"

Mutation(command) == command \in {"activate", "deactivate", "apply-edit"}

Roles(command, class) ==
    CASE class = "launcher" ->
           IF command \in {"list-projects", "activate", "deactivate"} THEN {"launcher"} ELSE {}
      [] command = "inspect" -> {"editor", "diagnostic"}
      [] OTHER -> {"editor"}

\* The session a rejected envelope's answer may name.
WithSession(body) ==
    IF body.form # "unparsable" /\ body.command \in {"deactivate", "inspect", "apply-edit"}
    THEN body.session ELSE 0

rejectEnvelope(body) ==
    Answer(IF body.form = "version" THEN "unsupported-protocol-version" ELSE "malformed-request",
           IF body.form \in {"unparsable", "shape-without-id"} THEN NoId ELSE body.id,
           WithSession(body))

\* What the schema's second look refuses: a session where none belongs.
PresenceFits(body) ==
    /\ SessionPresence(body.command) = "required" => body.session # 0
    /\ SessionPresence(body.command) = "forbidden" => body.session = 0

requestByteCap(command) == IF command = "apply-edit" THEN EditBytes ELSE LifecycleBytes

Valid(body) ==
    body.form = "good" /\ PresenceFits(body) /\ body.bytes <= requestByteCap(body.command)

\* The refusal of an envelope that is not valid.
validateRequestEnvelope(body) ==
    IF body.form # "good" \/ ~PresenceFits(body) THEN rejectEnvelope(body)
    ELSE Answer("payload-too-large", body.id, WithSession(body))

-----------------------------------------------------------------------------
(* Admission.                                                              *)

\* What a read must carry: no marker, and a page's own origin.
checkReadTransportMarkers(request, host) ==
    CASE request.marker # "absent" -> "malformed-request"
      [] request.marker = "absent" /\ request.site # "same-origin" -> "unauthorized"
      [] OTHER -> IF request.origin \in {"absent", host} THEN "none" ELSE "unauthorized"

\* The command's transport law: "none", or the code of the refusal.
checkTransportMarkers(request, host) ==
    IF Mutation(request.body.command)
    THEN IF request.marker = "1" /\ request.origin = host THEN "none" ELSE "unauthorized"
    ELSE checkReadTransportMarkers(request, host)

BindingPermits(request, authority, host) ==
    /\ request.client \in DOMAIN authority.bindings
    /\ LET binding == authority.bindings[request.client]
       IN  /\ binding.class = VirtualHostClass(host)
           /\ binding.role \in Roles(request.body.command, VirtualHostClass(host))

\* Mutant: a session-bound document may speak for the session it names.
FreshAsNamed(body, authority, binding) ==
    IF SessionPresence(body.command) = "forbidden" \/ body.session = 0 THEN "none"
    ELSE IF body.session # authority.session THEN "stale-session" ELSE "none"

\* An envelope of a command that needs a session carries one by now.
checkSessionFreshness(body, authority, binding) ==
    IF SessionPresence(body.command) = "forbidden" \/ body.session = 0 THEN "none"
    ELSE IF body.session # authority.session THEN "stale-session"
    ELSE IF binding.session \notin {0, body.session} THEN "unauthorized"
    ELSE "none"

admitEnvelope(request, authority, host) ==
    LET body == request.body
        marker == checkTransportMarkers(request, host)
        permits == BindingPermits(request, authority, host)
        fresh == checkSessionFreshness(body, authority, authority.bindings[request.client])
    IN  CASE ~Valid(body) -> validateRequestEnvelope(body)
          [] Valid(body) /\ marker # "none" -> errorResponse(marker)
          [] Valid(body) /\ marker = "none" /\ ~permits -> errorResponse("unauthorized")
          [] OTHER -> IF fresh = "none" THEN Admitted(body) ELSE Answer(fresh, NoId, body.session)

admitHeadersAndHost(request, authority) ==
    LET host == resolveAdmissionHost(request, authority)
    IN  CASE request.duplicated -> "malformed-request"
          [] ~request.duplicated /\ host = "none" -> "resource-not-found"
          [] OTHER -> IF Verified(request, authority, host) THEN "admitted" ELSE "unauthorized"

admitTransport(request, authority) ==
    LET route == classifyApiRoute(request.target)
        headers == admitHeadersAndHost(request, authority)
    IN  CASE route \in Rejections -> "malformed-request"
          [] route \notin Rejections
               /\ (route # "command-endpoint" \/ request.method # "POST") -> "resource-not-found"
          [] OTHER -> IF headers = "admitted" /\ ~request.json THEN "malformed-request" ELSE headers

dispatchApiRequest(request, authority) ==
    LET transport == admitTransport(request, authority)
    IN  IF transport = "admitted"
        THEN admitEnvelope(request, authority, resolveAdmissionHost(request, authority))
        ELSE errorResponse(transport)

\* What the executed command's outcome becomes; an answer over its cap is withheld.
execute(body, outcome) ==
    LET session == IF SessionPresence(body.command) = "forbidden" THEN 0 ELSE body.session
    IN  CASE outcome.kind = "error" -> Answer(outcome.code, body.id, session)
          [] outcome.kind = "result" /\ outcome.bytes <= ResponseBytes ->
               Answer("none", body.id, session)
          [] OTHER -> Answer("internal-error", body.id, session)

\* The body is read before anything is asked, up to its cap.
handle(request, authority) ==
    IF request.body.bytes > EditBytes THEN errorResponse("payload-too-large")
    ELSE dispatchApiRequest(request, authority)

=============================================================================
