---------------------------- MODULE DesktopHost ----------------------------
(***************************************************************************)
(* The desktop application: the Electron main process (native-host.ts,     *)
(* control-plane-client.ts, desktop-composition-target.ts), the control    *)
(* plane child it boots over private IPC (control-plane-boot.ts,           *)
(* control-plane-child.ts, desktop-composition.ts) and the main-frame      *)
(* handshake by which an activation binds the editor to the document the   *)
(* window really shows (control-plane.ts, document-authority.ts).          *)
(*                                                                         *)
(* IPC is one first-in first-out queue each way.  A document is the number *)
(* of the navigation that committed it, counted over all the windows there *)
(* are in turn; a window (a webContents) is the number of its first        *)
(* document.  A client capability is the pair of the session and the       *)
(* document it was bound for.                                              *)
(***************************************************************************)
EXTENDS Naturals, Sequences

CONSTANTS
  MaxGen,    \* bound: generations minted
  MaxDoc,    \* bound: documents the window commits
  MaxReq,    \* bound: transitions the user asks for, the quit among them
  MaxFault,  \* bound: reloads, lost renderers, closed windows, failed runs
  None       \* no capability, no session, no request

ASSUME DesktopAssumption ==
  /\ MaxGen \in Nat \ {0} /\ MaxDoc \in Nat \ {0}
  /\ MaxReq \in Nat \ {0} /\ MaxFault \in Nat
  /\ None \notin Nat /\ None \notin Nat \X Nat

Gens0 == 0..MaxGen
Docs0 == 0..MaxDoc
Reqs  == 1..MaxReq
Caps  == (1..MaxGen) \X (1..MaxDoc)

VARIABLES
  lost,     \* host: the client gave the control plane up
  shown,    \* host: currentSessionRef
  req,      \* host: the requests, pending settles among them
  caps,     \* host: capability injected for the target's window
  wiped,    \* history: a late clear took the target's capability
  closing,  \* host: teardowns that wait for the unload and the hygiene
  target,   \* host: the authoritative target window; absent until the boot report
  bypass,   \* host: the target's debugger guard is active
  doc,      \* host: newest document of the target windows
  win,      \* host: the newest target window
  load,     \* host: the replace-top-level being answered
  quit,     \* host: the quit transition
  toChild, toHost, open,   \* the IPC channel
  child,    \* the child process
  active,   \* child, supervisor: active generation
  nextGen,  \* child, supervisor: generations minted
  exec,     \* child, executor: the activation in flight
  ending,   \* child, executor: each request's hold on the seat it ends
  ousted,   \* history: sessions that lost the active entry to another's ending or their run's
  seat,     \* child, executor: the session seat
  grants,   \* child, document authority: live editor grants
  latest,   \* child, document authority: newest document observed
  lease,    \* child: generation that holds the project origin
  faults    \* environment: faults so far

userVars  == <<lost, shown, req, quit>>
frameVars == <<caps, wiped, closing, target, bypass, doc, win, load>>
hostVars  == <<userVars, frameVars>>
chanVars  == <<toChild, toHost, open>>
childVars == <<child, active, nextGen, exec, ending, ousted, seat, grants, latest, lease>>
desktopVars == <<hostVars, chanVars, childVars, faults>>

NoExec == [req |-> 0, gen |-> 0, phase |-> "none"]
NoSeat == [gen |-> 0, cap |-> None]
NoHold == [gen |-> 0, cap |-> None, phase |-> "none"]
Unused == [kind |-> "none", state |-> "unused", sess |-> 0]

DesktopTypeOK ==
  /\ lost \in BOOLEAN /\ shown \in Gens0
  /\ req \in [Reqs -> [kind : {"none", "activate", "deactivate"}, sess : Gens0,
                       state : {"unused", "preparing", "pending", "done", "unavailable"}]]
  /\ caps \in Caps \cup {None} /\ wiped \in BOOLEAN /\ closing \in Nat
  /\ target \in {"absent", "none", "live", "destroyed"} /\ bypass \in BOOLEAN
  /\ doc \in Docs0 /\ win \in Nat
  /\ load \in {"none", "loading", "navigated", "orphan"}
  /\ quit \in {"no", "teardown", "unloading", "stopping", "killing", "settled"}
  /\ open \in BOOLEAN
  /\ child \in {"boot", "serving", "closing", "exited"}
  /\ active \in Gens0 /\ nextGen \in Gens0
  /\ exec \in [req : 0..MaxReq, gen : Gens0,
               phase : {"none", "staging", "switching", "asked", "replacing", "stranded"}]
  /\ ending \in [Reqs -> [gen : Gens0, cap : Caps \cup {None},
                          phase : {"none", "draining", "revoking"}]]
  /\ ousted \subseteq 1..MaxGen
  /\ seat \in [gen : Gens0, cap : Caps \cup {None}]
  /\ grants \subseteq Caps
  /\ latest \in Docs0 /\ lease \in Gens0 /\ faults \in 0..MaxFault

DesktopInit ==
  /\ lost = FALSE /\ shown = 0 /\ req = [r \in Reqs |-> Unused] /\ quit = "no"
  /\ caps = None /\ wiped = FALSE /\ closing = 0 /\ target = "absent" /\ bypass = FALSE
  /\ doc = 0 /\ win = 0 /\ load = "none"
  /\ toChild = <<>> /\ toHost = <<>> /\ open = TRUE
  /\ child = "boot" /\ active = 0 /\ nextGen = 0
  /\ exec = NoExec /\ ending = [r \in Reqs |-> NoHold] /\ ousted = {}
  /\ seat = NoSeat /\ grants = {} /\ latest = 0 /\ lease = 0 /\ faults = 0

----------------------------------------------------------------------------
(* The host: requests, settlements and the loss of the control plane.      *)

Post(msg) == IF open THEN Append(toChild, msg) ELSE toChild

Settled(outcome) ==
  [r \in Reqs |-> IF req[r].state = "pending" THEN [req[r] EXCEPT !.state = outcome]
                  ELSE req[r]]

\* Mutant: the requests in flight are forgotten without an answer.
MarkLostSilently == ~lost /\ lost' = TRUE /\ UNCHANGED req

\* markLost settles every request in flight; later messages are ignored.
MarkLost ==
  /\ ~lost
  /\ lost' = TRUE
  /\ req' = Settled("unavailable")

MayAsk  == quit = "no" /\ \E r \in Reqs : req[r].state = "unused"
NextReq == CHOOSE r \in Reqs : /\ req[r].state = "unused"
                               /\ \A s \in 1..(r - 1) : req[s].state # "unused"

\* What a request is once it was sent, or could not be.
Sent == IF lost \/ ~open THEN "unavailable" ELSE "pending"

Sends(msg) == IF lost THEN toChild ELSE Post(msg)

\* A navigation commits: the authority's observation goes out before
\* anything that waits for the load.
Navigated == [k |-> "navigated", doc |-> doc + 1, win |-> win]

\* An activation prepares the target before it asks: without one it makes a
\* new window.
Activate ==
  /\ MayAsk /\ target # "absent"
  /\ req' = [req EXCEPT ![NextReq] =
               [kind |-> "activate", sess |-> 0, state |-> "preparing"]]
  /\ target' = IF target = "none" THEN "live" ELSE target
  /\ win' = IF target = "none" THEN doc + 1 ELSE win
  /\ UNCHANGED <<lost, shown, quit, caps, wiped, closing, bypass, doc, load, chanVars,
                 childVars, faults>>

\* The preparation settles: a new window has loaded its neutral document,
\* the guard is attached, and the request is sent.
Prepared(r) ==
  /\ req[r].state = "preparing" /\ target = "live"
  /\ bypass' = TRUE
  /\ req' = [req EXCEPT ![r].state = Sent]
  /\ LET ask == [k |-> "activate", id |-> r, sess |-> 0]
     IN  IF doc >= win
         THEN doc' = doc /\ toChild' = Sends(ask)
         ELSE /\ doc < MaxDoc /\ doc' = doc + 1
              /\ toChild' = IF lost \/ ~open THEN Post(Navigated)
                            ELSE Append(Post(Navigated), ask)
  /\ UNCHANGED <<lost, shown, quit, caps, wiped, closing, target, win, load, toHost, open,
                 childVars, faults>>

\* ...or the target could not be made ready, and nothing is sent.
NotReady(r) ==
  /\ req[r].state = "preparing" /\ ~(target = "live" /\ bypass)
  /\ req' = [req EXCEPT ![r].state = "done"]
  /\ UNCHANGED <<lost, shown, quit, frameVars, chanVars, childVars, faults>>

\* The menu item's captured session must be the current one.
Deactivate ==
  /\ MayAsk /\ shown # 0
  /\ req' = [req EXCEPT ![NextReq] =
               [kind |-> "deactivate", sess |-> shown, state |-> Sent]]
  /\ toChild' = Sends([k |-> "deactivate", id |-> NextReq, sess |-> shown])
  /\ UNCHANGED <<lost, shown, quit, frameVars, toHost, open, childVars, faults>>

NoticesLoss ==
  /\ child = "exited" \/ ~open
  /\ MarkLost
  /\ UNCHANGED <<shown, quit, frameVars, chanVars, childVars, faults>>

\* The boot deadline gives up a child that may still come up.
BootTimeout ==
  /\ target = "absent" /\ MarkLost
  /\ UNCHANGED <<shown, quit, frameVars, chanVars, childVars, faults>>

----------------------------------------------------------------------------
(* The host: what it does with a report of the child.                      *)

\* A capability is held for the window it was bound in; a clear, for the
\* window reported last.
Holds(cap) ==
  IF cap = None THEN None ELSE IF target # "none" /\ cap[2] >= win THEN cap ELSE caps

\* What goes with the window, before the unload and the hygiene are waited
\* for: the target itself, its guard and the authority it still held.
CloseTarget ==
  /\ target' = "none" /\ bypass' = FALSE /\ caps' = None /\ wiped' = FALSE
  /\ load' = IF load = "loading" THEN "orphan" ELSE load
  /\ toChild' = IF caps = None THEN toChild ELSE Post([k |-> "revoked", cap |-> caps])

\* A deactivation that completed tears the target down.
HearResult(m) ==
  LET answered == req[m.id].state = "pending"
      gone == answered /\ m.ok /\ req[m.id].kind = "deactivate" /\ target # "none"
  IN  /\ req' = IF answered THEN [req EXCEPT ![m.id].state = "done"] ELSE req
      /\ IF gone
         THEN CloseTarget /\ closing' = closing + 1
         ELSE /\ caps' = Holds(m.cap) /\ wiped' = (wiped /\ m.cap = None)
              /\ UNCHANGED <<target, bypass, load, closing, toChild>>
      /\ UNCHANGED shown

HearState(m) ==
  /\ shown' = m.gen /\ caps' = Holds(m.cap) /\ wiped' = (wiped /\ m.cap = None)
  /\ UNCHANGED <<req, closing, target, bypass, load, toChild>>

Identity(d) == [k |-> "observed", doc |-> d, win |-> win]

\* current-document is answered at once.
HearAsk ==
  /\ toChild' = Post(Identity(IF target = "none" \/ doc < win THEN 0 ELSE doc))
  /\ UNCHANGED <<req, shown, caps, wiped, closing, target, bypass, load>>

\* replace-top-level loads the project origin through the guard.
HearReplace ==
  /\ IF target = "live" /\ bypass
     THEN load' = "loading" /\ UNCHANGED toChild
     ELSE load' = load /\ toChild' = Post(Identity(0))
  /\ UNCHANGED <<req, shown, caps, wiped, closing, target, bypass>>

Hear ==
  /\ toHost # <<>> /\ ~lost
  /\ toHost' = Tail(toHost)
  /\ LET m == Head(toHost) IN
       \/ /\ m.k = "booted" /\ target' = "none"
          /\ UNCHANGED <<req, shown, caps, wiped, closing, bypass, load, toChild>>
       \/ m.k = "state" /\ HearState(m)
       \/ m.k = "result" /\ HearResult(m)
       \/ m.k = "ask" /\ HearAsk
       \/ m.k = "replace" /\ HearReplace
  /\ UNCHANGED <<lost, doc, win, quit, open, childVars, faults>>

\* A teardown ends: the unload and the hygiene are over, and every window's
\* capability is cleared, that of a window made meanwhile among them.
TeardownEnds ==
  /\ closing > 0
  /\ closing' = closing - 1
  /\ caps' = None /\ wiped' = (wiped \/ caps # None)
  /\ UNCHANGED <<userVars, target, bypass, doc, win, load, chanVars, childVars, faults>>

----------------------------------------------------------------------------
(* The host: the target's document.                                        *)

LoadCommits ==
  /\ load = "loading" /\ target = "live" /\ doc < MaxDoc
  /\ load' = "navigated" /\ doc' = doc + 1 /\ toChild' = Post(Navigated)
  /\ UNCHANGED <<userVars, caps, wiped, closing, target, bypass, win, toHost, open,
                 childVars, faults>>

\* The load's promise settles; the answer names the document shown by then,
\* in whatever window is the target then.
LoadSettles(ok) ==
  /\ load # "none"
  /\ ok => load = "navigated" /\ target = "live" /\ doc >= win
  /\ load' = "none"
  /\ toChild' = Sends(Identity(IF ok THEN doc ELSE 0))
  /\ UNCHANGED <<userVars, caps, wiped, closing, target, bypass, doc, win, toHost, open,
                 childVars, faults>>

Fault == faults < MaxFault /\ faults' = faults + 1

Reload ==
  /\ target = "live" /\ doc >= win /\ doc < MaxDoc /\ Fault
  /\ doc' = doc + 1 /\ toChild' = Post(Navigated)
  /\ UNCHANGED <<userVars, caps, wiped, closing, target, bypass, win, load, toHost, open,
                 childVars>>

RendererLost ==
  /\ target = "live" /\ Fault
  /\ caps' = None
  /\ toChild' = Post([k |-> "rendererLost", win |-> win])
  /\ UNCHANGED <<userVars, wiped, closing, target, bypass, doc, win, load, toHost, open,
                 childVars>>

TargetDestroyed ==
  /\ target = "live" /\ Fault
  /\ target' = "destroyed" /\ bypass' = FALSE /\ caps' = None
  /\ toChild' = Post([k |-> "targetDestroyed", win |-> win])
  /\ UNCHANGED <<userVars, wiped, closing, doc, win, load, toHost, open, childVars>>

\* The guard loses its debugger: the capability dies on both sides.
GuardCompromised ==
  /\ target = "live" /\ bypass /\ Fault
  /\ bypass' = FALSE /\ caps' = None
  /\ toChild' = IF caps = None THEN toChild ELSE Post([k |-> "revoked", cap |-> caps])
  /\ UNCHANGED <<userVars, wiped, closing, target, doc, win, load, toHost, open, childVars>>

----------------------------------------------------------------------------
(* The host: quit.                                                         *)

Quit ==
  /\ MayAsk /\ quit' = "teardown"
  /\ UNCHANGED <<lost, shown, req, frameVars, chanVars, childVars, faults>>

\* The target is torn down and waited for...
QuitTeardown ==
  /\ quit = "teardown" /\ quit' = "unloading"
  /\ IF target \in {"absent", "none"}
     THEN UNCHANGED <<target, bypass, caps, wiped, load, toChild>> ELSE CloseTarget
  /\ UNCHANGED <<lost, shown, req, closing, doc, win, toHost, open, childVars, faults>>

\* ...before the channel is closed and the child left.
QuitUnloads ==
  /\ quit = "unloading" /\ quit' = "stopping"
  /\ caps' = None /\ open' = FALSE
  /\ UNCHANGED <<lost, shown, req, wiped, closing, target, bypass, doc, win, load, toChild,
                 toHost, childVars, faults>>

\* The graceful wait ends with the exit or its deadline; the kill's likewise.
QuitWaits ==
  \/ /\ quit = "stopping"
     /\ quit' = IF child = "exited" THEN "settled" ELSE "killing"
  \/ quit = "killing" /\ quit' = "settled"

QuitSettles ==
  /\ QuitWaits
  /\ UNCHANGED <<lost, shown, req, frameVars, chanVars, childVars, faults>>

----------------------------------------------------------------------------
(* The child: boot, notifications, the authority's observations.           *)

Tell(q, msg) == IF open THEN Append(q, msg) ELSE q

\* reportDocumentCapability: the seat's capability while its session is the
\* active one, else none.
SeatCap(act, st) == IF st.gen # 0 /\ st.gen = act THEN st.cap ELSE None

\* Mutant: only an adopted session is announced.
NotifyAdopted(q, act, st) ==
  IF act # 0 /\ st.gen # act THEN q
  ELSE Tell(q, [k |-> "state", gen |-> act, cap |-> SeatCap(act, st)])

\* The supervisor's subscriber: the session, then the capability.
Notify(q, act, st) == Tell(q, [k |-> "state", gen |-> act, cap |-> SeatCap(act, st)])

\* Mutant: a result is followed by the clear, whatever is seated.
ResultAlone(q, id, ok, act, st) == Tell(q, [k |-> "result", id |-> id, ok |-> ok, cap |-> None])

Result(q, id, ok, act, st) ==
  Tell(q, [k |-> "result", id |-> id, ok |-> ok, cap |-> SeatCap(act, st)])

ChildBoots ==
  /\ child = "boot" /\ open
  /\ child' = "serving"
  /\ toHost' = Tell(toHost, [k |-> "booted"])
  /\ UNCHANGED <<hostVars, toChild, open, active, nextGen, exec, ending, ousted, seat,
                 grants, latest, lease, faults>>

\* The channel died: the child fences, closes its composition and exits.
ChildFences ==
  /\ child \in {"boot", "serving"} /\ ~open
  /\ child' = IF child = "boot" THEN "exited" ELSE "closing"
  /\ UNCHANGED <<hostVars, chanVars, active, nextGen, exec, ending, ousted, seat, grants,
                 latest, lease, faults>>

ChildExits ==
  \/ child = "closing"
  \/ child = "serving" /\ faults < MaxFault
  \/ quit = "killing" /\ child # "exited"

ChildGone ==
  /\ ChildExits
  /\ child' = "exited" /\ open' = FALSE
  /\ faults' = IF child = "serving" /\ quit # "killing" THEN faults + 1 ELSE faults
  /\ UNCHANGED <<hostVars, toChild, toHost, active, nextGen, exec, ending, ousted, seat,
                 grants, latest, lease>>

Newer(d) == IF latest > d THEN latest ELSE d

\* documentNavigated never goes back and sweeps the grants of its window's
\* other documents.  (Windows come in turn, each with the documents from its
\* first on: no grant of a later window is older than the observation.)
Swept(gs, d, w) == {c \in gs : c[2] = d \/ c[2] < w}

Receive(kind) == /\ toChild # <<>> /\ Head(toChild).k = kind /\ child = "serving"
                 /\ toChild' = Tail(toChild)

ObserveNavigation ==
  /\ Receive("navigated")
  /\ LET m == Head(toChild)
     IN  latest' = Newer(m.doc) /\ grants' = Swept(grants, Newer(m.doc), m.win)
  /\ UNCHANGED <<hostVars, toHost, open, child, active, nextGen, exec, ending, ousted, seat,
                 lease, faults>>

ObserveLoss ==
  /\ \/ /\ Receive("rendererLost") \/ Receive("targetDestroyed")
        /\ grants' = {c \in grants : c[2] < Head(toChild).win}
     \/ Receive("revoked") /\ grants' = grants \ {Head(toChild).cap}
  /\ UNCHANGED <<hostVars, toHost, open, child, active, nextGen, exec, ending, ousted, seat,
                 latest, lease, faults>>

----------------------------------------------------------------------------
(* The child: an activation, from its request to its commit.               *)

\* A request to activate: refused (beside another; for an unknown project,
\* which is every project once the generations are used up), the no-op of
\* the active project, or a candidate begun.  (An activation begun while
\* another is being adopted is SwitchTransition's subject.)
StartActivation ==
  /\ Receive("activate")
  /\ LET id == Head(toChild).id IN
       \/ /\ exec = NoExec /\ nextGen < MaxGen
          /\ nextGen' = nextGen + 1
          /\ exec' = [req |-> id, gen |-> nextGen + 1, phase |-> "staging"]
          /\ toHost' = Notify(toHost, active, seat)
       \/ /\ exec # NoExec \/ nextGen = MaxGen
          /\ toHost' = Result(toHost, id, FALSE, active, seat)
          /\ UNCHANGED <<nextGen, exec>>
       \/ /\ active # 0
          /\ toHost' = Result(toHost, id, TRUE, active, seat)
          /\ UNCHANGED <<nextGen, exec>>
  /\ UNCHANGED <<hostVars, open, child, active, ending, ousted, seat, grants, latest, lease,
                 faults>>

\* seatStore.active: the seat of the active session, if it has been adopted.
Seated == active # 0 /\ seat.gen = active

\* One ending holds a seat's fence at a time.
Fenced(g) == \E r \in Reqs : ending[r].phase # "none" /\ ending[r].gen = g

Fence(r) == [ending EXCEPT ![r] = [gen |-> seat.gen, cap |-> seat.cap, phase |-> "draining"]]

\* The candidate is ready beside a seated session: its edits are drained.
StartSwitch ==
  /\ child = "serving" /\ exec.phase = "staging" /\ Seated /\ ~Fenced(active)
  /\ exec' = [exec EXCEPT !.phase = "switching"]
  /\ ending' = Fence(exec.req)
  /\ UNCHANGED <<hostVars, chanVars, child, active, nextGen, ousted, seat, grants, latest,
                 lease, faults>>

\* The candidate fails, is cancelled, or meets a fence that is held.
StagingFails ==
  /\ child = "serving" /\ exec.phase = "staging"
  /\ toHost' = Result(Notify(toHost, active, seat), exec.req, active # 0, active, seat)
  /\ exec' = NoExec
  /\ UNCHANGED <<hostVars, toChild, open, child, active, nextGen, ending, ousted, seat,
                 grants, latest, lease, faults>>

\* The candidate becomes the active session and asks for the origin lease,
\* which a session that crashed still holds.
Commits ==
  /\ active' = exec.gen
  /\ LET told == Notify(toHost, exec.gen, seat)
     IN  IF lease = 0
         THEN /\ lease' = exec.gen
              /\ exec' = [exec EXCEPT !.phase = "asked"]
              /\ toHost' = Tell(told, [k |-> "ask"])
         ELSE /\ exec' = [exec EXCEPT !.phase = "stranded"]
              /\ toHost' = told /\ UNCHANGED lease

\* With nothing seated there is nothing to drain.
FirstCommit ==
  /\ child = "serving" /\ exec.phase = "staging" /\ ~Seated
  /\ Commits
  /\ UNCHANGED <<hostVars, toChild, open, child, nextGen, ending, ousted, seat, grants,
                 latest, faults>>

----------------------------------------------------------------------------
(* The child: what an activation and a deactivation share, the ending of   *)
(* the seated session.  Either keeps the seat it read before the waits.    *)

\* The request to deactivate acts on the seated session, whatever session it
\* names.
StartDeactivation ==
  /\ Receive("deactivate")
  /\ LET id == Head(toChild).id
     IN  IF Seated /\ ~Fenced(active)
         THEN ending' = Fence(id) /\ UNCHANGED toHost
         ELSE toHost' = Result(toHost, id, FALSE, active, seat) /\ UNCHANGED ending
  /\ UNCHANGED <<hostVars, open, child, active, nextGen, exec, ousted, seat, grants, latest,
                 lease, faults>>

\* The drained session's client must hold its authority in both tables, at
\* the document the seat named then: the supervisor's dies with a crash.
Authoritative(e) == e.gen = active /\ e.cap \in grants

Switching(r) == exec.phase = "switching" /\ exec.req = r

\* The drain ends and the receipt is spent: the route is retired at once and
\* its sockets are waited for.  Otherwise the fence is lifted.
Drained(r) ==
  /\ child = "serving" /\ ending[r].phase = "draining"
  /\ IF Authoritative(ending[r])
     THEN /\ ending' = [ending EXCEPT ![r].phase = "revoking"]
          /\ lease' = IF lease = ending[r].gen THEN 0 ELSE lease
          /\ UNCHANGED <<exec, toHost>>
     ELSE /\ ending' = [ending EXCEPT ![r] = NoHold]
          /\ exec' = IF Switching(r) THEN NoExec ELSE exec
          /\ toHost' = IF Switching(r)
                       THEN Result(Notify(toHost, active, seat), r, active # 0, active, seat)
                       ELSE Result(toHost, r, FALSE, active, seat)
          /\ UNCHANGED lease
  /\ UNCHANGED <<hostVars, toChild, open, child, active, nextGen, ousted, seat, grants,
                 latest, faults>>

\* The rest of the ordered pass, when the sockets have closed.
Revoked(r) == {c \in grants : c[1] # ending[r].gen}

\* A deactivation then empties the supervisor's active entry, whichever
\* session it holds by now.
EndDeactivation(r) ==
  /\ child = "serving" /\ ending[r].phase = "revoking" /\ ~Switching(r)
  /\ ending' = [ending EXCEPT ![r] = NoHold]
  /\ grants' = Revoked(r)
  /\ seat' = IF seat.gen = ending[r].gen THEN NoSeat ELSE seat
  /\ active' = 0
  /\ ousted' = IF active \in {0, ending[r].gen} THEN ousted ELSE ousted \cup {active}
  /\ LET told == IF active = 0 THEN toHost ELSE Notify(toHost, 0, NoSeat)
     IN  toHost' = Result(told, r, TRUE, 0, NoSeat)
  /\ UNCHANGED <<hostVars, toChild, open, child, nextGen, exec, latest, lease, faults>>

\* A switch commits its candidate.
EndSwitch(r) ==
  /\ child = "serving" /\ ending[r].phase = "revoking" /\ Switching(r)
  /\ ending' = [ending EXCEPT ![r] = NoHold]
  /\ grants' = Revoked(r)
  /\ seat' = NoSeat
  /\ Commits
  /\ UNCHANGED <<hostVars, toChild, open, child, nextGen, ousted, latest, faults>>

----------------------------------------------------------------------------
(* The child: the adoption.                                                *)

\* bindEditor binds at the newest document only, beside no other editor.
Bindable(gs, d) == d # 0 /\ d = Newer(d) /\ gs = {}

\* The host's answer to either question of the handshake.  The first binds
\* at the document shown, if the session is still the active one, seats it
\* and asks for the replacement; the second rebinds at the replaced document,
\* whatever became of the session, and gives the seat its capability.
Answer ==
  /\ Receive("observed") /\ exec.phase \in {"asked", "replacing"}
  /\ LET m  == Head(toChild)
         gs == IF m.doc = 0 THEN grants ELSE Swept(grants, Newer(m.doc), m.win)
         ok == /\ exec.phase = "asked" => exec.gen = active
               /\ Bindable(gs, m.doc)
         bound == <<exec.gen, m.doc>>
     IN  /\ latest' = Newer(m.doc)
         /\ \/ /\ ~ok
               /\ grants' = gs
               /\ exec' = [exec EXCEPT !.phase = "stranded"]
               /\ lease' = IF lease = exec.gen THEN 0 ELSE lease
               /\ UNCHANGED <<seat, toHost>>
            \/ /\ ok /\ exec.phase = "asked"
               /\ grants' = {bound}
               /\ seat' = [gen |-> exec.gen, cap |-> bound]
               /\ exec' = [exec EXCEPT !.phase = "replacing"]
               /\ toHost' = Tell(toHost, [k |-> "replace"])
               /\ UNCHANGED lease
            \/ /\ ok /\ exec.phase = "replacing"
               /\ grants' = {bound}
               /\ seat' = IF Seated THEN [seat EXCEPT !.cap = bound] ELSE seat
               /\ exec' = NoExec
               /\ toHost' = Result(toHost, exec.req, active # 0, active, seat')
               /\ UNCHANGED lease
  /\ UNCHANGED <<hostVars, open, child, active, nextGen, ending, ousted, faults>>

\* The aftermath of a failed adoption ends: the session's authority is
\* revoked, its run stopped, and the stop observed.
Aftermath ==
  /\ child = "serving" /\ exec.phase = "stranded"
  /\ grants' = {c \in grants : c[1] # exec.gen}
  /\ ousted' = IF active = exec.gen THEN ousted \cup {active} ELSE ousted
  /\ active' = IF active = exec.gen THEN 0 ELSE active
  /\ exec' = NoExec
  /\ LET told == IF active = exec.gen THEN Notify(toHost, 0, seat) ELSE toHost
     IN  toHost' = Result(told, exec.req, active' # 0, active', seat)
  /\ UNCHANGED <<hostVars, toChild, open, child, nextGen, ending, seat, latest, lease, faults>>

\* The active run dies: the supervisor clears it and leaves the document's
\* grant and the lease where they are.
RunCrashes ==
  /\ child = "serving" /\ active # 0 /\ Fault
  /\ active' = 0 /\ ousted' = ousted \cup {active}
  /\ toHost' = Notify(toHost, 0, seat)
  /\ UNCHANGED <<hostVars, toChild, open, child, nextGen, exec, ending, seat, grants,
                 latest, lease>>

----------------------------------------------------------------------------
HostStep ==
  \/ NoticesLoss \/ Hear \/ TeardownEnds \/ LoadCommits
  \/ QuitTeardown \/ QuitUnloads \/ QuitSettles
  \/ \E r \in Reqs : Prepared(r) \/ NotReady(r)
  \/ \E ok \in BOOLEAN : LoadSettles(ok)

ChildStep ==
  \/ ChildFences \/ ObserveNavigation \/ ObserveLoss
  \/ StartActivation \/ StartSwitch \/ StagingFails \/ FirstCommit
  \/ StartDeactivation \/ Answer \/ Aftermath
  \/ \E r \in Reqs : Drained(r) \/ EndDeactivation(r) \/ EndSwitch(r)

Environment ==
  \/ Activate \/ Deactivate \/ Quit \/ BootTimeout
  \/ Reload \/ RendererLost \/ TargetDestroyed \/ GuardCompromised
  \/ ChildBoots \/ ChildGone \/ RunCrashes

DesktopNext == HostStep \/ ChildStep \/ Environment

\* Each event loop takes the step it can take: messages are handled; loads,
\* preparations, unloads, stagings, drains and socket closes settle; timers
\* fire.  A child need not boot, close or exit.
DesktopFairness == WF_desktopVars(HostStep) /\ WF_desktopVars(ChildStep)

DesktopSpec == DesktopInit /\ [][DesktopNext]_desktopVars
FairDesktopSpec == DesktopSpec /\ DesktopFairness

----------------------------------------------------------------------------
(* Properties.                                                             *)

\* Nothing is under way between the two processes.
Quiet ==
  /\ toHost = <<>> /\ toChild = <<>> /\ open /\ child = "serving" /\ ~lost
  /\ exec = NoExec /\ load = "none" /\ quit = "no"
  /\ \A r \in Reqs : ending[r].phase = "none" /\ req[r].state # "preparing"

\* What the host injects into the window's requests is what the child's
\* authority accepts: between transitions it is the active seat's capability
\* while that is granted, and never the capability of another session, in
\* whatever order renderer losses, reloads, commits and crashes are seen.
\* (A teardown that ends late clears the next window's capability with its
\* own: then, nothing is injected.)
InjectsTheSeat ==
  Quiet => IF active # 0 /\ seat.cap \in grants /\ ~wiped THEN caps = seat.cap
           ELSE caps \in {None, SeatCap(active, seat)}

\* No document of the window but the one it shows holds the editor's
\* authority: a navigation that overtakes the handshake leaves no grant
\* behind.  What an ended session's handshake bound late is the grant of a
\* window torn down since, and never the active session's.
EditorIsTheDocument ==
  Quiet => \A c \in grants : c[2] = doc \/ (c[2] < win /\ c[1] # active)

\* A deactivation ends the session it was clicked for: the seat it drains,
\* revokes and stops is the one its request names, although the child reads
\* whichever is seated; and what it empties after its waits is that session's
\* entry, unless that session had lost the entry meanwhile, to the end of its
\* run or to another ending (the emptying names no session).
DeactivatesTheNamed ==
  [][\A r \in Reqs :
       req[r].kind = "deactivate" /\ ending[r].phase = "revoking" /\ ending'[r].phase = "none"
         => /\ ending[r].gen = req[r].sess
            /\ active' # active => active = req[r].sess \/ req[r].sess \in ousted]_desktopVars

\* Every request the user made settles, answered or as unavailable (there
\* are finitely many, so that none is left pending).
Pending == {r \in Reqs : req[r].state \in {"preparing", "pending"}}
RequestsSettle == (Pending # {}) ~> (Pending = {})

\* A quit that was asked for settles, whether or not the child ever exits.
QuitEnds == (quit # "no") ~> (quit = "settled")

\* One window, one seat: who injects and who edits agree with what is seated
\* and shown, once nothing is under way.
AuthorityFitsWindow == InjectsTheSeat /\ EditorIsTheDocument

\* Nothing the user asked for is left waiting.
EverythingSettles == RequestsSettle /\ QuitEnds

============================================================================
