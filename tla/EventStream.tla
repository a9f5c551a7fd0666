---------------------------- MODULE EventStream ----------------------------
(***************************************************************************)
(* The event streams of the web host: the hub that keeps every live stream *)
(* and fans events out (sse-hub.ts), the admission of a stream request     *)
(* (sse-admission.ts, admission-spine.ts, host-router.ts), what a commit,  *)
(* a deactivation, a refused adoption and a crash do to the streams and to *)
(* the authority the admission reads, and the browser loop that reads a    *)
(* stream and reconnects (app-client.ts).                                  *)
(*                                                                         *)
(* A session is its generation, in 1..MaxGen; 0 is "no session".  A client *)
(* capability is the generation it was minted for; every launcher document *)
(* presents the one launcher capability, 0.                                *)
(***************************************************************************)
EXTENDS Naturals

CONSTANTS
  Projects,   \* project keys, each one virtual host
  First,      \* the project of the first generation (keys are interchangeable)
  Shells,     \* browser tabs that show a project's editor document
  Watched,    \* the shells that are scheduled fairly; the others may stall
  Launchers,  \* browser tabs that show the launcher
  MaxGen,     \* bound: generations the supervisor mints
  Pending,    \* bound: frames a connection buffers before the sink ends it
  None        \* no project, no connection

ASSUME StreamAssumption ==
  /\ MaxGen \in Nat \ {0}
  /\ Pending \in Nat \ {0}
  /\ Shells \cap Launchers = {} /\ Watched \subseteq Shells
  /\ First \in Projects /\ None \notin Projects

Tabs    == Shells \cup Launchers
Gens    == 1..MaxGen
Gens0   == 0..MaxGen
ConnIds == Tabs \X {1, 2}   \* of each tab: one held, one closing

VARIABLES
  active,     \* supervisor: the active generation
  attempt,    \* supervisor: the generation being staged
  nextGen,    \* generations minted so far
  projOf,     \* generation -> its project
  lastPair,   \* control plane: pair of the last session-state publication
  trans,      \* the revocation in flight: its old generation, where it goes
  seat,       \* the adopted session seat, 0 when none
  bound,      \* generations whose editor binding the HTTP table holds
  hostCap,    \* project -> generation its host capability was minted at
  routed,     \* project -> generation of the origin lease, 0 when retired
  running,    \* subscribed runs: generations whose plane still emits events
  revoked,    \* hub: revokedPairs
  watermark,  \* hub: newest generation published
  live,       \* hub: ids of the registered streams
  conn,       \* id -> the connection
  tab,        \* tab -> its document and stream loop
  jar         \* browser cookie jar: project -> host capability held
supervisorVars == <<active, attempt, nextGen, projOf, lastPair>>
authorityVars  == <<trans, seat, bound, hostCap, routed, running>>
hubVars        == <<revoked, watermark, live, conn>>
clientVars     == <<tab, jar>>
streamVars == <<supervisorVars, authorityVars, hubVars, clientVars>>

NoTransition == [old |-> 0, goal |-> "none", by |-> None]
NoConn == [cap |-> 0, sess |-> 0, host |-> None,
           out |-> 0, ended |-> TRUE, gone |-> TRUE]
Closed == [doc |-> 0, cur |-> 0, loop |-> "none", conn |-> None]

Conn  == [cap : Gens0, sess : Gens0,
          host : Projects \cup {"launcher", None}, out : 0..Pending + 1,
          ended : BOOLEAN, gone : BOOLEAN]
Tab   == [doc : Gens0, cur : Gens0, conn : ConnIds \cup {None},
          loop : {"none", "fetch", "open", "stale", "failed"}]

StreamTypeOK ==
  /\ active \in Gens0 /\ attempt \in Gens0 /\ nextGen \in Gens0
  /\ projOf \in [Gens -> Projects \cup {None}]
  /\ lastPair \in Gens0
  /\ trans \in [old : Gens0, goal : {"none", "switch", "deactivation"},
                by : Shells \cup {None}]
  /\ seat \in Gens0 /\ bound \subseteq Gens /\ running \subseteq Gens
  /\ hostCap \in [Projects -> Gens0] /\ routed \in [Projects -> Gens0]
  /\ revoked \subseteq Gens /\ watermark \in Gens0
  /\ live \subseteq ConnIds /\ conn \in [ConnIds -> Conn]
  /\ tab \in [Tabs -> Tab] /\ jar \in [Projects -> Gens0]

StreamInit ==
  /\ active = 0 /\ attempt = 0 /\ nextGen = 0 /\ lastPair = 0
  /\ projOf = [g \in Gens |-> None]
  /\ trans = NoTransition /\ seat = 0 /\ bound = {} /\ running = {}
  /\ hostCap = [p \in Projects |-> 0] /\ routed = [p \in Projects |-> 0]
  /\ revoked = {} /\ watermark = 0 /\ live = {}
  /\ conn = [id \in ConnIds |-> NoConn]
  /\ tab = [t \in Tabs |-> Closed] /\ jar = [p \in Projects |-> 0]

----------------------------------------------------------------------------
(* The hub.                                                                *)

\* The sink: nothing reaches a connection that ended or died; the frame that
\* passes the pending tolerance is written and the response ended behind it.
Sunk(c) ==
  IF c.ended \/ c.gone THEN c
  ELSE [c EXCEPT !.out = @ + 1, !.ended = c.out >= Pending]

\* A stream of a session gets the session's frames at the exact pair; the
\* launcher gets every session-state frame and no other.
Addressed(c, kind, gen) ==
  IF c.host = "launcher" THEN kind = "state" ELSE c.sess = gen

\* Mutant: The hub publishes whatever pair it is given.
Mut_StalePublication(gone, gen) == FALSE

StalePublication(gone, gen) == gen \in gone \/ gen < watermark

\* publish over the streams as they are, with the revoked pairs `gone`.  A
\* connection counts the frames it buffers: a frame's generation is the
\* watermark of the step that writes it.
Publish(cs, ids, gone, kind, gen) ==
  IF gen = 0 \/ StalePublication(gone, gen)
  THEN conn' = cs /\ UNCHANGED watermark
  ELSE /\ conn' = [id \in ConnIds |-> IF id \in ids /\ Addressed(cs[id], kind, gen)
                                      THEN Sunk(cs[id]) ELSE cs[id]]
       /\ watermark' = gen

\* The supervisor's subscriber: every snapshot goes out under the active pair,
\* else the attempt's, else the last one published.
PublishState(cs, ids, gone, act, att) ==
  LET pair == CASE act # 0 -> act [] att # 0 -> att [] OTHER -> lastPair
  IN  /\ lastPair' = pair
      /\ Publish(cs, ids, gone, "state", pair)

\* Mutant: endOne forgets the connection and leaves it open.
Mut_EndOne(c) == c

\* What endOne leaves of a connection; one whose peer left is forgotten.
EndOne(c) == IF c.gone THEN NoConn ELSE [c EXCEPT !.ended = TRUE]

Ended(cs, ids) == [id \in ConnIds |-> IF id \in ids THEN EndOne(cs[id]) ELSE cs[id]]

\* The streams a revocation of session g ends: by binding, host and session.
EndedBy(g) ==
  {id \in live : \/ conn[id].cap = g
                 \/ conn[id].host = projOf[g]
                 \/ conn[id].sess = g}

----------------------------------------------------------------------------
(* The session's life, as far as the streams and their authority see it.   *)

Begin(p) ==
  /\ attempt = 0 /\ nextGen < MaxGen
  /\ nextGen = 0 => p = First
  /\ active # 0 => projOf[active] # p
  /\ nextGen' = nextGen + 1
  /\ attempt' = nextGen + 1
  /\ projOf' = [projOf EXCEPT ![nextGen + 1] = p]
  /\ PublishState(conn, live, revoked, active, nextGen + 1)
  /\ UNCHANGED <<active, authorityVars, revoked, live, clientVars>>

AttemptFails ==
  /\ attempt # 0 /\ trans.goal # "switch"
  /\ attempt' = 0
  /\ PublishState(conn, live, revoked, active, 0)
  /\ UNCHANGED <<active, nextGen, projOf, authorityVars, revoked, live, clientVars>>

\* The first commit mints the host capability of the attempt's project.
CommitFirst ==
  /\ attempt # 0 /\ active = 0 /\ trans = NoTransition
  /\ active' = attempt /\ attempt' = 0
  /\ hostCap' = [hostCap EXCEPT ![projOf[attempt]] = attempt]
  /\ PublishState(conn, live, revoked, attempt, 0)
  /\ UNCHANGED <<nextGen, projOf, trans, seat, bound, routed, running,
                 revoked, live, clientVars>>

\* Adoption installs binding, lease, the run's subscriber and the seat; the
\* grant table's read is awaited before the last two.
AdoptBind ==
  /\ active # 0 /\ seat # active /\ trans = NoTransition
  /\ bound = {} /\ \A p \in Projects : routed[p] = 0
  /\ bound' = {active}
  /\ routed' = [routed EXCEPT ![projOf[active]] = active]
  /\ UNCHANGED <<supervisorVars, trans, seat, hostCap, running, hubVars, clientVars>>

AdoptSeat ==
  /\ active # 0 /\ seat # active /\ active \in bound /\ trans = NoTransition
  /\ seat' = active
  /\ running' = running \cup {active}
  /\ UNCHANGED <<supervisorVars, trans, bound, hostCap, routed, hubVars, clientVars>>

\* A binding another session still holds refuses the adoption; the aftermath
\* revokes what the commit granted and stops the run.
AdoptRefused ==
  /\ active # 0 /\ seat # active /\ trans = NoTransition
  /\ bound \ {active} # {}
  /\ revoked' = revoked \cup {active}
  /\ live' = live \ EndedBy(active)
  /\ active' = 0
  /\ hostCap' = [hostCap EXCEPT ![projOf[active]] = 0]
  /\ PublishState(Ended(conn, EndedBy(active)), live', revoked', 0, attempt)
  /\ UNCHANGED <<attempt, nextGen, projOf, trans, seat, bound, routed, running,
                 clientVars>>

\* streams and routes: the hub ends the streams and the router retires the
\* host with no request in between; the lease then waits for its sockets.
RevokeStreams(goal, t) ==
  /\ trans = NoTransition /\ active # 0 /\ seat = active
  /\ goal = "switch" => attempt # 0 /\ t = None
  /\ goal = "deactivation" => t # None /\ tab[t].cur = active
  /\ revoked' = revoked \cup {active}
  /\ live' = live \ EndedBy(active)
  /\ conn' = Ended(conn, EndedBy(active))
  /\ routed' = [routed EXCEPT ![projOf[active]] = 0]
  /\ trans' = [old |-> active, goal |-> goal, by |-> t]
  /\ UNCHANGED <<supervisorVars, seat, bound, hostCap, running, watermark, clientVars>>

\* edit-grants, client-bindings, host-capability; then the candidate commits
\* (or its commit is rejected), or the supervisor retires the old session.
RevokeRest(committed) ==
  LET old  == trans.old
      next == IF trans.goal = "switch" /\ committed THEN attempt ELSE 0
      att  == IF trans.goal = "switch" THEN 0 ELSE attempt
      capped == [hostCap EXCEPT ![projOf[old]] = 0]
  IN  /\ trans # NoTransition
      /\ trans.goal = "deactivation" => committed
      /\ bound' = bound \ {old}
      /\ hostCap' = IF next = 0 THEN capped ELSE [capped EXCEPT ![projOf[next]] = next]
      /\ seat' = 0 /\ active' = next /\ attempt' = att
      /\ trans' = NoTransition
      /\ PublishState(conn, live, revoked, next, att)
      /\ tab' = IF trans.by = None THEN tab ELSE [tab EXCEPT ![trans.by].cur =
                  IF @ = old THEN 0 ELSE @]
      /\ UNCHANGED <<nextGen, projOf, routed, running, revoked, live, jar>>

\* The active run dies outside any transition: only the host capability goes.
Crash ==
  /\ active # 0 /\ trans = NoTransition
  /\ active' = 0
  /\ running' = running \ {active}
  /\ seat' = IF seat = active THEN 0 ELSE seat
  /\ hostCap' = [hostCap EXCEPT ![projOf[active]] = 0]
  /\ PublishState(conn, live, revoked, 0, attempt)
  /\ UNCHANGED <<attempt, nextGen, projOf, trans, bound, routed, revoked, live,
                 clientVars>>

\* A plane emits invalidations while its run lasts, after its session was
\* revoked too: a run that stopped is one that takes this step no more.
RunEmits(g) ==
  /\ g \in running
  /\ Publish(conn, live, revoked, "invalidation", g)
  /\ UNCHANGED <<supervisorVars, authorityVars, revoked, live, clientVars>>

----------------------------------------------------------------------------
(* Documents and the browser's stream loop.                                *)

\* The tab gives up its connection.
Abandoned(cs, t) ==
  [id \in ConnIds |-> IF id = tab[t].conn
                      THEN IF id \in live THEN [cs[id] EXCEPT !.gone = TRUE, !.out = 0]
                           ELSE NoConn
                      ELSE cs[id]]

\* The document is served to a routed host whose session is seated; it
\* carries capability and session, its response sets the host's cookie.
LoadShell(t) ==
  /\ active # 0 /\ seat = active /\ routed[projOf[active]] # 0
  /\ tab[t].loop \in {"none", "stale", "failed"}
  /\ tab' = [tab EXCEPT ![t] = [Closed EXCEPT !.doc = active, !.cur = active,
                                              !.loop = "fetch"]]
  /\ jar' = [jar EXCEPT ![projOf[active]] = hostCap[projOf[active]]]
  /\ conn' = Abandoned(conn, t)
  /\ UNCHANGED <<supervisorVars, authorityVars, revoked, watermark, live>>

LoadLauncher(t) ==
  /\ tab[t].loop = "none"
  /\ tab' = [tab EXCEPT ![t] = [Closed EXCEPT !.loop = "fetch"]]
  /\ UNCHANGED <<supervisorVars, authorityVars, hubVars, jar>>

\* Navigation away, or the shell's reset: the subscription is aborted.
Leave(t) ==
  /\ tab[t].loop # "none"
  /\ tab' = [tab EXCEPT ![t] = Closed]
  /\ conn' = Abandoned(conn, t)
  /\ UNCHANGED <<supervisorVars, authorityVars, revoked, watermark, live, jar>>

\* Everything the origin and the admission ask of a shell's request, in the
\* order of the code: route, host, cookie, binding, currency.
Refusal(t) ==
  LET g == tab[t].doc
      p == projOf[g]
  IN  CASE routed[p] = 0                          -> "failed"
        [] active = 0 \/ projOf[active] # p       -> "failed"
        [] jar[p] = 0 \/ jar[p] # hostCap[p]      -> "failed"
        [] g \notin bound                         -> "failed"
        [] g # active                             -> "stale"
        [] OTHER                                  -> "none"

FreeConn(t) == IF conn[<<t, 1>>] = NoConn THEN <<t, 1>> ELSE <<t, 2>>

RoleOf(t) == IF t \in Launchers THEN "launcher" ELSE "editor"
EditorStreams(ids) == {id \in ids : conn[id].host # "launcher"}

\* hub.admit ends the streams of the same capability, then counts the cap.
Superseded(t) == {id \in live : conn[id].cap = tab[t].doc}
\* Mutant: The cap is counted before the client's own stream is superseded.
Mut_OverCap(t) == RoleOf(t) = "editor" /\ EditorStreams(live) # {}

OverCap(t) == RoleOf(t) = "editor" /\ EditorStreams(live \ Superseded(t)) # {}

\* What the request of tab t settles its loop at.
Answer(t) ==
  CASE t \in Shells /\ Refusal(t) # "none" -> Refusal(t)
    [] OverCap(t)                          -> "failed"
    [] OTHER                               -> "open"

\* The server handles the request tab t has in flight.
Request(t) ==
  LET answer == Answer(t)
      reached == ~(t \in Shells /\ Refusal(t) # "none")
      over == IF reached THEN Superseded(t) ELSE {}
      id   == FreeConn(t)
      held == [Ended(conn, over) EXCEPT ![id] =
                [cap |-> tab[t].doc, sess |-> tab[t].doc,
                 host |-> IF t \in Launchers THEN "launcher" ELSE projOf[tab[t].doc],
                 out |-> 0, ended |-> FALSE, gone |-> FALSE]]
  IN  /\ tab[t].loop = "fetch"
      /\ live' = (live \ over) \cup (IF answer = "open" THEN {id} ELSE {})
      /\ conn' = IF answer = "open" THEN held ELSE Ended(conn, over)
      /\ tab' = [tab EXCEPT ![t].loop = answer,
                            ![t].conn = IF answer = "open" THEN id ELSE None]
      /\ UNCHANGED <<supervisorVars, authorityVars, revoked, watermark, jar>>

\* A frame reaches the tab.
ReadFrame(t) ==
  /\ tab[t].loop = "open" /\ conn[tab[t].conn].out # 0
  /\ conn' = [conn EXCEPT ![tab[t].conn].out = @ - 1]
  /\ UNCHANGED <<supervisorVars, authorityVars, revoked, watermark, live, clientVars>>

\* The stream ended: a shell whose session is still its client's reconnects;
\* the delay before it is part of the time its next request is under way.
ReadEnd(t) ==
  LET c == conn[tab[t].conn] IN
  /\ tab[t].loop = "open" /\ c.out = 0 /\ c.ended
  /\ tab' = [tab EXCEPT ![t].conn = None, ![t].loop =
               IF t \in Launchers \/ tab[t].cur = tab[t].doc THEN "fetch" ELSE "stale"]
  /\ conn' = Abandoned(conn, t)
  /\ UNCHANGED <<supervisorVars, authorityVars, revoked, watermark, live, jar>>

\* The read fails instead: the loop settles and never reconnects.  (Only the
\* shells' connections break and only shells leave: a launcher that is gone
\* touches no other stream.)
ConnectionBreaks(t) ==
  /\ tab[t].loop = "open"
  /\ tab' = [tab EXCEPT ![t].conn = None, ![t].loop = "failed"]
  /\ conn' = Abandoned(conn, t)
  /\ UNCHANGED <<supervisorVars, authorityVars, revoked, watermark, live, jar>>

\* 'close' of a response that ended or lost its peer unregisters the stream.
ConnCloses(id) ==
  /\ id \in live /\ (conn[id].ended \/ conn[id].gone)
  /\ live' = live \ {id}
  /\ conn' = IF conn[id].gone THEN [conn EXCEPT ![id] = NoConn] ELSE conn
  /\ UNCHANGED <<supervisorVars, authorityVars, revoked, watermark, clientVars>>

----------------------------------------------------------------------------
SessionStep ==
  \/ \E p \in Projects : Begin(p)
  \/ AttemptFails
  \/ CommitFirst
  \/ AdoptBind
  \/ AdoptSeat
  \/ AdoptRefused
  \/ RevokeStreams("switch", None)
  \/ \E t \in Shells : RevokeStreams("deactivation", t)
  \/ \E ok \in BOOLEAN : RevokeRest(ok)
  \/ Crash
  \/ \E g \in Gens : RunEmits(g)

ClientStep(t) ==
  Request(t) \/ ReadFrame(t) \/ ReadEnd(t)

StreamNext ==
  \/ SessionStep
  \/ \E t \in Shells : LoadShell(t) \/ Leave(t) \/ ConnectionBreaks(t)
  \/ \E t \in Launchers : LoadLauncher(t)
  \/ \E t \in Tabs : ClientStep(t)
  \/ \E id \in ConnIds : ConnCloses(id)

\* The server answers a request and a stream loop is one sequential process:
\* it takes its next step while it has one.
StreamFairness == \A t \in Watched : WF_streamVars(ClientStep(t))

StreamSpec == StreamInit /\ [][StreamNext]_streamVars
FairStreamSpec == StreamSpec /\ StreamFairness

----------------------------------------------------------------------------
(* Properties.                                                             *)

\* Once a session's streams were ended for a revocation, none is admitted
\* again: its capability, its binding and the supervisor's active pair all
\* outlive the first step by up to the lease's socket wait, and a client
\* reconnects 500 ms after its stream ended.
RevokedStaysEnded == \A id \in live : conn[id].sess \notin revoked

\* No frame minted under a revoked session is written to any connection any
\* more, whatever its run still emits.
RevokedIsSilent ==
  [][\A id \in ConnIds :
       conn'[id].out > conn[id].out => watermark' \notin revoked']_streamVars

\* The editor of the current session gets its stream: a request with the
\* current document's capability is refused only while a transition runs,
\* never against a stream its own earlier connection left in the hub, or
\* against one of an earlier session.
BoundEditorAdmitted ==
  [][\A t \in Shells :
       (/\ tab[t].loop = "fetch" /\ tab'[t].loop \in {"stale", "failed"}
        /\ tab[t].doc = active /\ seat = active)
         => trans # NoTransition]_streamVars

\* A tab that shows a revoked session learns it: its stream settles, in
\* whatever order the end, the reconnection and the refusal arrive, and
\* whichever other tab holds the same capability.
SupersededSettles ==
  LET Unsettled == \E t \in Watched: /\ tab[t].doc \in revoked
                                     /\ tab[t].loop \notin {"stale", "failed"}
  IN  Unsettled ~> ~Unsettled

\* A revoked session is over for every client: no stream of it comes back, and
\* none says another word.
RevokedIsOver == []RevokedStaysEnded /\ RevokedIsSilent

============================================================================
