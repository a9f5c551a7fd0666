-------------------------- MODULE ForwardedHeaders --------------------------
(***************************************************************************)
(* What the listener reads of a request's headers and what it forwards to  *)
(* the dev server: the evidence of the security headers, the refusal of    *)
(* upgrades that are not the dev server's own, and the removal of the      *)
(* control plane's authority, once from the parsed headers of a proxied    *)
(* request and once from the raw pairs of a tunnelled upgrade              *)
(* (runtime/api/http/security-headers.ts, authority-strip.ts,              *)
(* proxy/upgrade-request.ts).                                              *)
(*                                                                         *)
(* Raw headers are a sequence of pairs of a name and a value, a value is a *)
(* sequence: the parts of a Cookie header, named; the tokens of a list;    *)
(* one token.  "Cookie" is "cookie" in another case.                       *)
(***************************************************************************)
EXTENDS Naturals, Sequences, SequencesExt

CapabilityCookie == "capability"
ClientHeader == "client"

LowerName(name) == IF name = "Cookie" THEN "cookie" ELSE name

SecurityHeaders == {"host", "origin", "cookie", ClientHeader}

\* How often each security header came.
headerEvidence(raw) ==
    [name \in SecurityHeaders |->
        Len(SelectSeq(raw, LAMBDA pair : LowerName(pair.name) = name))]

duplicatedSecurityHeader(raw) == \E name \in SecurityHeaders : headerEvidence(raw)[name] > 1

-----------------------------------------------------------------------------
NoValue == <<"undefined">>

\* What node makes of raw headers: cookies are joined, of the others here the
\* first of a kind is kept or all are, as one list.
ParsedHeaders(raw) ==
    LET named(name) == SelectSeq(raw, LAMBDA pair : LowerName(pair.name) = name)
        all(name) == FlattenSeq([i \in DOMAIN named(name) |-> named(name)[i].value])
    IN  [name \in {LowerName(pair.name) : pair \in ToSet(raw)} |->
            IF name \in {"host", "origin"} THEN Head(named(name)).value ELSE all(name)]

stripCapabilityCookie(cookie) ==
    LET kept == SelectSeq(cookie, LAMBDA part : part # CapabilityCookie)
    IN  IF kept = <<>> THEN NoValue ELSE kept

stripControlAuthority(headers) ==
    LET out == [name \in DOMAIN headers \ {ClientHeader} |->
                   IF name = "cookie" THEN stripCapabilityCookie(headers[name]) ELSE headers[name]]
    IN  [name \in {n \in DOMAIN out : out[n] # NoValue} |-> out[name]]

stripAuthorityFromPair(pair) ==
    CASE LowerName(pair.name) = ClientHeader -> NoValue
      [] LowerName(pair.name) = "cookie" -> stripCapabilityCookie(pair.value)
      [] OTHER -> pair.value

stripAuthorityFromRawPairs(raw) ==
    SelectSeq([i \in DOMAIN raw |-> [raw[i] EXCEPT !.value = stripAuthorityFromPair(raw[i])]],
              LAMBDA pair : pair.value # NoValue)

-----------------------------------------------------------------------------
\* An upgrade the listener tunnels: the dev server's own, from the project's page.
validateUpgradeRequest(method, headers, expectedOrigin) ==
    LET value(name) == IF name \in DOMAIN headers THEN headers[name] ELSE <<>>
    IN  CASE method # "GET" -> "not-get-upgrade"
          [] method = "GET" /\ ~Contains(value("connection"), "upgrade") -> "not-websocket-upgrade"
          [] OTHER ->
               CASE value("origin") = <<>> -> "missing-origin"
                 [] value("origin") \notin {<<>>, expectedOrigin} -> "origin-mismatch"
                 [] OTHER -> IF Contains(value("subprotocol"), "vite-hmr")
                             THEN "admitted" ELSE "missing-hmr-subprotocol"

\* The handshake the dev server gets: the client's line, and the stripped pairs.
reconstructUpgradeHandshake(line, raw) ==
    [line |-> line, headers |-> stripAuthorityFromRawPairs(raw)]

=============================================================================
