--------------------------- MODULE RouteResolver ---------------------------
(***************************************************************************)
(* The bridge between a canvas URL and a content entry (core/src/          *)
(* route-resolver.ts), over Astro's parsed route segments.  Texts are      *)
(* whole URL segments; an entry id is the sequence of its "/" parts.       *)
(***************************************************************************)
EXTENDS Naturals, Sequences, FiniteSets, SequencesExt

CONSTANTS
    Empty,   \* the empty text
    DotDot   \* the text "..", which a URL parser resolves away

ASSUME TextAssumption == Empty # DotDot

Static(text) == [kind |-> "static", text |-> text]
Param == [kind |-> "param", text |-> Empty]
Rest == [kind |-> "rest", text |-> Empty]
\* A segment of several parts, such as v-[id]; no pattern with one is resolved.
Mixed == [kind |-> "mixed", text |-> Empty]

\* `renders` is the enumerated ids, or "all" for an on-demand route and for one
\* whose enumeration is unknown.
routeRendersId(route, id) == route.all \/ id \in route.renders

\* The places of the parameters of a pattern.
ParamsAt(segments) == {i \in DOMAIN segments : segments[i].kind \in {"param", "rest"}}

\* flattenRoute: no mixed segment, a rest only at the end, at most one parameter.
Flat(segments) ==
    /\ \A i \in DOMAIN segments :
           /\ segments[i].kind # "mixed"
           /\ segments[i].kind = "rest" => i = Len(segments)
    /\ Cardinality(ParamsAt(segments)) <= 1

IsStatic(segments) == Flat(segments) /\ ParamsAt(segments) = {}
IsSingleParam(segments) == Flat(segments) /\ ParamsAt(segments) # {}

ParamAt(segments) == CHOOSE i \in ParamsAt(segments) : TRUE
EndsInRest(segments) == segments[ParamAt(segments)].kind = "rest"

\* patternMatchesUrl
PatternMatches(segments, url) ==
    LET n == Len(segments)
        rest == n > 0 /\ segments[n].kind = "rest"
    IN  /\ IF rest THEN Len(url) >= n ELSE Len(url) = n
        /\ \A i \in 1 .. n : segments[i].kind = "static" => segments[i].text = url[i]

\* captureParamValue, of a pattern that matches: the id the parameter stands for.
Captured(segments, url) ==
    LET at == ParamAt(segments)
    IN  IF EndsInRest(segments) THEN SubSeq(url, at, Len(url)) ELSE <<url[at]>>

\* buildCandidateUrl's condition on the id.
TakesEntryId(segments, id) ==
    /\ \A i \in DOMAIN id : id[i] # Empty
    /\ EndsInRest(segments) \/ Len(id) = 1

BuiltUrl(segments, id) ==
    FlattenSeq([i \in DOMAIN segments |->
        IF segments[i].kind = "static" THEN <<segments[i].text>> ELSE id])

\* toUrlSegments: encoding and decoding undo each other, but the URL parser
\* resolves dot segments, which encodeURIComponent leaves alone.
ParsedUrl(url) ==
    FoldLeft(LAMBDA done, text :
                 IF text # DotDot THEN Append(done, text)
                 ELSE IF done = <<>> THEN <<>> ELSE Front(done),
             <<>>, url)

isStaticPage(routes, url) ==
    \E r \in ToSet(routes) : IsStatic(r.segments) /\ PatternMatches(r.segments, url)

entryHitsFor(routes, url, collections) ==
    {[collection |-> c, entryId |-> id] :
        <<c, id>> \in {<<c, id>> \in (DOMAIN collections) \X (UNION Range(collections)) :
            /\ id \in collections[c]
            /\ \E r \in ToSet(routes) :
                /\ IsSingleParam(r.segments)
                /\ PatternMatches(r.segments, url)
                /\ Captured(r.segments, url) = id
                /\ routeRendersId(r, id)}}

\* The entries a URL resolves to: at most one.
resolveActiveEntry(routes, url, collections) ==
    LET hits == entryHitsFor(routes, url, collections)
    IN  IF isStaticPage(routes, url) \/ Cardinality(hits) # 1 THEN {} ELSE hits

\* rankedCandidates: the routes that render the id, in their order.
rankedCandidates(routes, id) ==
    SelectSeq(routes, LAMBDA r :
        /\ IsSingleParam(r.segments)
        /\ routeRendersId(r, id)
        /\ TakesEntryId(r.segments, id)
        /\ ~isStaticPage(routes, ParsedUrl(BuiltUrl(r.segments, id))))

\* The stable sort's order: a single segment before a rest, then the shallower.
MoreSpecific(s, t) ==
    \/ ~EndsInRest(s) /\ EndsInRest(t)
    \/ EndsInRest(s) = EndsInRest(t) /\ Len(s) < Len(t)

\* Mutant: the other candidates are not asked where they lead.
LeadsToOrIsNotFirst(routes, r, id, collections) ==
    \/ r # Head(rankedCandidates(routes, id))
    \/ \E hit \in resolveActiveEntry(routes, ParsedUrl(BuiltUrl(r.segments, id)), collections) :
           hit.entryId = id

\* A candidate's URL resolves to an entry with this id.
LeadsTo(routes, r, id, collections) ==
    \E hit \in resolveActiveEntry(routes, ParsedUrl(BuiltUrl(r.segments, id)), collections) :
        hit.entryId = id

\* The URLs the picker answers: at most one.
pickNavigableCandidate(routes, id, collections) ==
    LET candidates == rankedCandidates(routes, id)
        IsBest(i) ==
            \A j \in DOMAIN candidates \ {i} :
                /\ ~MoreSpecific(candidates[j].segments, candidates[i].segments)
                /\ j < i => MoreSpecific(candidates[i].segments, candidates[j].segments)
    IN  IF \A r \in ToSet(candidates) : LeadsTo(routes, r, id, collections)
        THEN {BuiltUrl(candidates[i].segments, id) : i \in {i \in DOMAIN candidates : IsBest(i)}}
        ELSE {}

=============================================================================
