--------------------------- MODULE PureFunctions ----------------------------
(***************************************************************************)
(* The editor's decisions that keep no state, called on every input of     *)
(* small sets: which entry a URL shows and where an entry is shown, what   *)
(* a save writes into a file that moved on, the pages of a list walked to  *)
(* its end, and the compiled selector of each static style rule; beside    *)
(* them the calls of HostFunctions.  A call stays with its answer until it *)
(* returns; the walk is the one caller that calls more than once.  The     *)
(* properties define the answers anew, from what they are for.             *)
(***************************************************************************)
EXTENDS RouteResolver, EntryWriter, PageContract, SelectorJoin, HostFunctions

CONSTANTS
    Patterns,      \* the route patterns, sequences of segments
    EntryIds,      \* the entry ids, sequences of texts
    Collections,   \* the content indexes: entry ids by collection
    Urls,          \* the canvas URLs
    Documents,     \* the frontmatter a file and a baseline may hold
    Drafts,        \* the frontmatter a form may ask for
    ProtectedSets, \* the sets of paths the form shows as images
    Bodies,        \* the bodies of files and drafts
    ItemSizes,     \* the lists to page through
    PageSizes,     \* the page sizes a client may ask for
    MaxPages,      \* the pages a walk asks for at most
    Records,       \* the static style rules of a project
    ModuleSets,    \* the compiled modules of a route, with the file each is of
    RequiredFiles  \* the files a route is known to load

TypeOK ==
    /\ call.to \in {"nobody", "resolve", "pick", "fields", "body", "walk", "join",
                    "target", "host", "forward", "request", "bundle"}
    /\ answer.of \in {"nobody", call.to}

Routes ==
    {[segments |-> p, all |-> all, renders |-> renders] :
        p \in Patterns, all \in BOOLEAN, renders \in SUBSET EntryIds}

\* A route without a parameter has one page and an on-demand one no enumeration.
RouteTables ==
    LET plain == {r \in Routes :
            /\ r.all => r.renders = {}
            /\ IsStatic(r.segments) => r.all}
    IN  {<<r>> : r \in plain} \cup {<<r, s>> : r \in plain, s \in plain}

ResolveUrl ==
    /\ Idle
    /\ \E routes \in RouteTables, url \in Urls, collections \in Collections :
        /\ call' = [to |-> "resolve", routes |-> routes, url |-> url, collections |-> collections]
        /\ answer' = [of |-> "resolve", hits |-> resolveActiveEntry(routes, url, collections)]

PickUrl ==
    /\ Idle
    /\ \E routes \in RouteTables, id \in EntryIds, collections \in Collections :
        /\ call' = [to |-> "pick", routes |-> routes, id |-> id, collections |-> collections]
        /\ answer' = [of |-> "pick", urls |-> pickNavigableCandidate(routes, id, collections)]

\* A save of edited fields: the file may have moved on since the baseline, to
\* one with an empty block or without a block too.
WriteFields ==
    /\ Idle
    /\ \E block \in BOOLEAN, raw \in Documents \cup {Undefined}, baseline \in Documents,
         draft \in Drafts, protected \in ProtectedSets, reversed \in BOOLEAN :
        /\ ~block => raw = Undefined
        /\ reversed => raw = Undefined
        /\ LET file == File(block, raw, block, <<"text">>)
           IN  /\ call' = [to |-> "fields", file |-> file, baseline |-> baseline,
                           draft |-> draft, protected |-> protected]
               /\ answer' = [of |-> "fields",
                             file |-> serializeEntry(
                                 file, [data |-> baseline, body |-> <<"text">>],
                                 [data |-> draft, body |-> <<"text">>], protected, reversed)]

\* A save of an edited body; `read` is the body the form was opened with.
WriteBody ==
    /\ Idle
    /\ \E block \in BOOLEAN, ended \in BOOLEAN, raw \in Bodies, read \in Bodies, draft \in Bodies :
        /\ ended => block
        /\ raw # <<>> /\ block => ended
        /\ LET file == File(block, NoKeys, ended, raw)
           IN  /\ call' = [to |-> "body", file |-> file, read |-> Trim(read), draft |-> draft]
               /\ answer' = [of |-> "body",
                             file |-> serializeEntry(file, [data |-> NoKeys, body |-> Trim(read)],
                                                     [data |-> NoKeys, body |-> draft], {}, FALSE)]

StartWalk ==
    /\ Idle
    /\ \E items \in ItemSizes, requested \in PageSizes :
        /\ call' = [to |-> "walk", items |-> items, requested |-> requested]
        /\ answer' = [of |-> "walk", status |-> "walking", collected |-> <<>>, offset |-> 0,
                      pages |-> <<>>]

Walking == call.to = "walk" /\ answer.status = "walking"

\* One turn of collectPages: the page is asked for and appended.
FetchPage ==
    /\ Walking
    /\ LET got == boundedPage(call.items, answer.offset, call.requested)
       IN  IF got.kind = "refused"
           THEN answer' = [answer EXCEPT !.status = got.reason]
           ELSE answer' = [answer EXCEPT
                    !.collected = @ \o got.items,
                    !.pages = Append(@, Len(got.items)),
                    !.offset = got.continuation,
                    !.status = IF got.continuation = 0 THEN "complete"
                               ELSE IF Len(answer.pages) + 1 = MaxPages THEN "page-bound"
                               ELSE "walking"]
    /\ UNCHANGED call

JoinStyles ==
    /\ Idle
    /\ \E records \in Records, modules \in ModuleSets, required \in RequiredFiles :
        /\ call' = [to |-> "join", records |-> records, modules |-> modules,
                    required |-> required]
        /\ answer' = [of |-> "join",
                      result |-> joinEffectiveSelectors(records, modules, required)]

\* A walk goes on to its end.
Next ==
    \/ ResolveUrl \/ PickUrl \/ WriteFields \/ WriteBody
    \/ StartWalk \/ FetchPage \/ JoinStyles
    \/ ~Walking /\ HostNext

Spec == HostInit /\ [][Next]_hostVars

-----------------------------------------------------------------------------
(* What a page shows: the route's pattern with the id in its parameter's   *)
(* place.                                                                  *)

Shows(route, id, url) ==
    /\ IsSingleParam(route.segments)
    /\ routeRendersId(route, id)
    /\ id # <<>>
    /\ ~EndsInRest(route.segments) => Len(id) = 1
    /\ BuiltUrl(route.segments, id) = url

EntriesShownAt(routes, url, collections) ==
    {e \in [collection : DOMAIN collections, entryId : EntryIds] :
        /\ e.entryId \in collections[e.collection]
        /\ \E r \in ToSet(routes) : Shows(r, e.entryId, url)}

\* A URL resolves to the one known entry whose page it is, and to none when it
\* is a page without an entry or could be the page of two; the URL the picker
\* answers is the page of the asked entry alone, of a most specific of the
\* routes that can show it, and the picker answers none only when a route that
\* can show it leads elsewhere or nowhere, or no route can.
RoutesInvert ==
    /\ answer.of = "resolve" =>
        LET shown == EntriesShownAt(call.routes, call.url, call.collections)
            static == \E r \in ToSet(call.routes) :
                          IsStatic(r.segments) /\ BuiltUrl(r.segments, <<>>) = call.url
        IN  answer.hits = IF ~static /\ Cardinality(shown) = 1 THEN shown ELSE {}
    /\ answer.of = "pick" =>
        LET shownAt(url) == EntriesShownAt(call.routes, url, call.collections)
            static(url) == \E r \in ToSet(call.routes) :
                                IsStatic(r.segments) /\ BuiltUrl(r.segments, <<>>) = url
            able == {r \in ToSet(call.routes) :
                        LET url == BuiltUrl(r.segments, call.id)
                        IN  Shows(r, call.id, url) /\ ~static(ParsedUrl(url))}
            alone(url) == \E e \in shownAt(url) : shownAt(url) = {e} /\ e.entryId = call.id
        IN  /\ Cardinality(answer.urls) <= 1
            /\ \A url \in answer.urls :
                  /\ alone(ParsedUrl(url))
                  /\ \E r \in able :
                        /\ Shows(r, call.id, url)
                        /\ \A s \in able : ~MoreSpecific(s.segments, r.segments)
            /\ (answer.urls = {}) =
                 (able = {} \/ \E r \in able : ~alone(ParsedUrl(BuiltUrl(r.segments, call.id))))

-----------------------------------------------------------------------------
\* The fields of a form: two texts, one of them in a group, and an image there.
Fields == {<<"title">>, <<"seo", "about">>, <<"seo", "image">>}

\* A group the file and the baseline agree on, or that the draft leaves alone.
SameGroups(raw, baseline, draft) ==
    \A g \in {"seo"} :
        LET at(doc) == ValueAt(doc, <<g>>).leaf
        IN  at(raw) = at(baseline) /\ at(baseline) = at(draft)

\* The white space a body begins with.
Lead(body) == SubSeq(body, 1, Len(body) - Len(TrimStart(body)))

\* A save puts each field that was edited in the file and leaves every other
\* field as the file holds it now, whatever happened to it since the form read
\* it; it fails only when a field is cleared in a file whose frontmatter has
\* become empty; an image the form cannot edit is never written; an unedited
\* form writes the file's own bytes; an edited body lands between the file's
\* own white space, and reading the file back gives the edit.
SavesMerge ==
    /\ answer.of = "fields" =>
        LET edited == {p \in Fields : ValueAt(call.baseline, p) # ValueAt(call.draft, p)}
            shut == {p \in call.protected : ValueAt(call.draft, p) # Undefined}
            raw == call.file.data
            kept == answer.file
        IN  /\ call.baseline = call.draft => kept = call.file
            /\ SameGroups(raw, call.baseline, call.draft) =>
                  /\ kept = Thrown <=>
                        raw = Undefined /\ \E p \in edited : ValueAt(call.draft, p) = Undefined
                  /\ kept # Thrown => \A p \in Fields :
                        ValueAt(kept.data, p) =
                            ValueAt(IF p \in edited \ shut THEN call.draft ELSE raw, p)
    /\ answer.of = "body" =>
        LET kept == answer.file
        IN  /\ call.draft = call.read => kept = call.file
            /\ call.draft # call.read /\ Trim(call.draft) = call.draft =>
                  /\ Parsed(kept).body = call.draft
                  /\ kept.block => IsPrefix(Lead(call.file.body), kept.body)
                  /\ IsSuffix(Lead(Reverse(call.file.body)), kept.body)
                  /\ kept.body # <<>> /\ kept.block => kept.ended

-----------------------------------------------------------------------------
RECURSIVE PagesOf(_, _, _)
\* The places a walk has seen, page by page.
PagesOf(items, pages, from) ==
    IF pages = <<>> THEN {}
    ELSE {<<from, Head(pages)>>} \cup PagesOf(items, Tail(pages), from + Head(pages))

\* A walk collects the list in order, each item once; every page is within the
\* budget and as large as the budget and the asked size allow; a complete walk
\* has the whole list; a refusal names an item that no page could carry.
WalksAreExact ==
    answer.of = "walk" =>
        /\ IsPrefix(answer.collected, call.items)
        /\ answer.status = "complete" => answer.collected = call.items
        /\ answer.status = "walking" => answer.offset = Len(answer.collected)
        /\ \A p \in PagesOf(call.items, answer.pages, 0) :
              LET one == pageOf(call.items, p[1], p[2])
                  more == pageOf(call.items, p[1], p[2] + 1)
              IN  /\ fitsBudget(one)
                  /\ \/ one = more
                     \/ ~fitsBudget(more)
                     \/ call.requested # NoSize /\ (p[2] >= call.requested)
        /\ answer.status = "single-item-over-budget" =>
              ~fitsBudget(<<call.items[Len(answer.collected) + 1]>>)
        /\ answer.status = "page-bound" => Len(answer.pages) = MaxPages
        /\ answer.status # "empty-envelope-over-budget"

-----------------------------------------------------------------------------
\* The compiler's own account of a module: the file and block it is of.
RulesFor(record) ==
    LET mine == SelectSeq(call.modules, LAMBDA m : m.of = record.file /\ m.block = record.block)
    IN  IF record.scoped /\ mine # <<>> THEN Last(mine).rules ELSE <<>>

\* No module is of a file without scoped blocks whose path ends in a file's
\* that has some: the longest known file would take it for its own.
NothingShadowed ==
    LET files == {k[1] : k \in ScopedBlocks(call.records)}
    IN  \A m \in ToSet(call.modules) :
            m.of \in files \/ \A f \in files : ~IsSuffix(f, m.of)

\* A join that is not rejected gives a scoped rule exactly the compiled selector
\* of its own place in its own block, and gives none only to a rule whose file
\* no module of the route is of and the route is not known to load; a join is
\* rejected only when the sources and the compiler disagree.  A module of a file
\* without a scoped rule must not be named like one with some.
JoinsItsOwn ==
    answer.of = "join" /\ NothingShadowed =>
        LET records == call.records
            place(i) == Cardinality({j \in 1 .. i :
                            records[j].scoped /\ Key(records[j]) = Key(records[i])})
            own(i) == place(i) \in DOMAIN RulesFor(records[i])
            agree ==
                /\ \A i \in DOMAIN records :
                      own(i) => /\ RulesFor(records[i])[place(i)].tokened
                                /\ RulesFor(records[i])[place(i)].selector = records[i].selector
                                /\ Len(RulesFor(records[i])) =
                                     Len(PlacesOf(records, Key(records[i])))
                /\ \A i \in DOMAIN records :
                      records[i].scoped /\ ~own(i) =>
                          /\ records[i].file \notin call.required
                          /\ \A m \in ToSet(call.modules) : m.of # records[i].file
                /\ call.modules # <<>> =>
                      \E i \in DOMAIN records, m \in ToSet(call.modules) :
                          records[i].scoped /\ m.of = records[i].file
        IN  /\ (answer.result.rejected = "no") = agree
            /\ agree => \A i \in DOMAIN records :
                  answer.result.selectors[i] =
                      IF own(i) THEN RulesFor(records[i])[place(i)] ELSE NoSelector

=============================================================================
