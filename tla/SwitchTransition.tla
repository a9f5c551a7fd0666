-------------------------- MODULE SwitchTransition --------------------------
(***************************************************************************)
(* The settled activation, switch and deactivation transitions as the web  *)
(* composition runs them (apps/web/src/executor.ts): many requests in      *)
(* flight over one supervisor, one seat per adopted session, the fence of  *)
(* each seat, the switch coordinator's revocation, the replacement         *)
(* completion with its failure aftermath, and the one origin lease.        *)
(* A step runs from one real wait (a run, a drain, sockets closing, the    *)
(* file system) to the next; awaits of settled promises do not interleave. *)
(***************************************************************************)
EXTENDS Integers, FiniteSets

CONSTANTS
    Projects,        \* project keys
    Deactivations,   \* deactivation requests, each sent at most once
    MaxGeneration,   \* bound: begun activations
    MaxCrashes       \* bound: runs that die unprompted after readiness

ASSUME SwitchAssumption ==
    MaxGeneration \in Nat \ {0} /\ MaxCrashes \in Nat /\ 0 \notin Projects

VARIABLES
    sup,         \* the supervisor: next generation, active session, slot
    sess,        \* per generation: project key and run
    act,         \* per generation: the activation request
    deact,       \* per deactivation request
    seat,        \* SeatStore: what each adopted session's seat holds as run
    fence,       \* the edit fence of each seat
    remembered,  \* CandidateStore: sessions whose run is remembered
    auth,        \* authority: origin lease, editor binding, capability, grants
    crashes

vars == <<sup, sess, act, deact, seat, fence, remembered, auth, crashes>>

Generations == 1 .. MaxGeneration
Session == 0 .. MaxGeneration      \* 0: no session
NoProject == 0

\* An activation waits for readiness, the old seat's drain, the old lease's
\* sockets, the grant table's file system reads, or a run being reaped.
ActivationPc == {"unused", "starting", "draining", "revoking", "resuming",
                 "adopting", "undoing", "reaping", "done"}

DeactivationPc == {"unsent", "draining", "revoking", "done"}

\* A hollow seat holds neverSpawnedRun() instead of its session's run.
Seat == {"none", "whole", "hollow"}

FenceState == {"open", "draining", "drained", "failed", "timed-out",
               "terminal-after-timeout"}

OpenFence == [state |-> "open", work |-> FALSE, conflict |-> FALSE]

Key(g) == IF g = 0 THEN NoProject ELSE sess[g].key

\* SeatStore.active(): the seat of the session the supervisor says is active.
ActiveSeat == IF sup.active # 0 /\ seat[sup.active] # "none" THEN sup.active ELSE 0

-----------------------------------------------------------------------------
(* Authority.  Each operator maps the authority record to the next one.    *)

\* lease.revoke(): the route of the lease's project is retired at once.
RouteRevoked(a, g) ==
    [a EXCEPT !.routed = IF @ = Key(g) THEN NoProject ELSE @,
              !.lease = IF @ = g THEN 0 ELSE @]

\* Mutant: whoever is bound as the editor is unbound.
RestRevokedAnyEditor(a, g) ==
    [a EXCEPT !.grants = @ \ {g},
              !.editor = 0,
              !.hostCaps = @ \ {Key(g)}]

\* revokeOldAuthority() after its routes step: edit grants, client bindings,
\* host capability.
RestRevoked(a, g) ==
    [a EXCEPT !.grants = @ \ {g},
              !.editor = IF @ = g THEN 0 ELSE @,
              !.hostCaps = @ \ {Key(g)}]

\* The supervisor's retireActive(): client bindings and host capability only.
Retired(a, g) ==
    [a EXCEPT !.editor = IF @ = g THEN 0 ELSE @,
              !.hostCaps = @ \ {Key(g)}]

\* grantProjectLease(): refused while any lease is active.
LeaseOccupied(a) == a.routed # NoProject

Stopped(g) == [sess EXCEPT ![g].stopping = TRUE]

Init ==
    /\ sup = [next |-> 1, active |-> 0, slot |-> 0]
    /\ sess = [g \in Generations |->
                 [key |-> NoProject, up |-> FALSE, stopping |-> FALSE]]
    /\ act = [g \in Generations |-> [pc |-> "unused", old |-> 0]]
    /\ deact = [d \in Deactivations |-> [pc |-> "unsent", old |-> 0]]
    /\ seat = [g \in Generations |-> "none"]
    /\ fence = [g \in Generations |-> OpenFence]
    /\ remembered = {}
    /\ auth = [lease |-> 0, routed |-> NoProject, editor |-> 0,
               hostCaps |-> {}, grants |-> {}]
    /\ crashes = 0

-----------------------------------------------------------------------------
(* Activation: begin and failed readiness.  A resolved readiness runs on    *)
(* into the commit or the drain: FirstCommit, StartSwitch, SwitchRefused.  *)

\* CandidateStore: the slate reset to one pair, and the run a pair names, without
\* which a seat holds neverSpawnedRun().
clearExcept(g) == {g}
runOf(g) == IF g \in remembered THEN "whole" ELSE "hollow"

\* Mutant: begin() forgets the attempt already in flight.
AdmitsAlways == TRUE

\* begin() refuses a concurrent activation.
AdmitsAttempt == sup.slot = 0

\* activate(): begin() admits one attempt and no second plane for a root, then
\* the candidate slate is reset to the admitted attempt.
Activate(p) ==
    LET g == sup.next
    IN  /\ g \in Generations
        /\ AdmitsAttempt
        /\ Key(sup.active) # p
        /\ sup' = [sup EXCEPT !.next = @ + 1, !.slot = g]
        /\ sess' = [sess EXCEPT ![g] = [key |-> p, up |-> TRUE, stopping |-> FALSE]]
        /\ act' = [act EXCEPT ![g].pc = "starting"]
        /\ remembered' = clearExcept(g)
        /\ UNCHANGED <<deact, seat, fence, auth, crashes>>

\* attempt.ready rejects (a refusal, a crash or the startup deadline): the slot empties and the run is stopped.
ReadinessFails(g) ==
    /\ act[g].pc = "starting"
    /\ sup' = [sup EXCEPT !.slot = 0]
    /\ sess' = Stopped(g)
    /\ act' = [act EXCEPT ![g].pc = "done"]
    /\ UNCHANGED <<deact, seat, fence, remembered, auth, crashes>>

-----------------------------------------------------------------------------
(* Commit and adoption.                                                    *)

\* The aftermath's reapGrantedRun(): the run is found in the candidate store,
\* or there is nothing to stop and nothing to wait for.
Reaps(g) == g \in remembered

AftermathPc(g) == IF Reaps(g) THEN "reaping" ELSE "done"

\* candidate.commit() and everything up to the next wait: the supervisor swaps
\* authority over `a`, a candidate that is already dead is cleared as a crash
\* at once, and adoptSession() binds the editor and grants the lease before it
\* waits for the grant table; a refusal runs the failure aftermath.
CommitAndAdopt(g, a) ==
    LET o == sup.active
        swapped == [Retired(a, o) EXCEPT !.hostCaps = @ \cup {Key(g)}]
        bound == [swapped EXCEPT !.editor = g]
        alive == sess[g].up
        adopts == alive /\ ~LeaseOccupied(bound)
        stops == {o} \cup (IF ~adopts /\ Reaps(g) THEN {g} ELSE {})
    IN  /\ sup' = [sup EXCEPT !.slot = 0, !.active = IF alive THEN g ELSE 0]
        /\ sess' = [x \in Generations |->
                      IF x \in stops THEN [sess[x] EXCEPT !.stopping = TRUE]
                      ELSE sess[x]]
        /\ auth' = CASE adopts -> [bound EXCEPT !.routed = Key(g), !.lease = g]
                     [] alive /\ ~adopts -> RestRevoked(bound, g)
                     [] OTHER -> RestRevoked(swapped, g)
        /\ act' = [act EXCEPT ![g].pc = IF adopts THEN "adopting" ELSE AftermathPc(g)]

\* Readiness with no seated session: commitFirstActivation().
FirstCommit(g) ==
    /\ act[g].pc = "starting" /\ ActiveSeat = 0
    /\ CommitAndAdopt(g, auth)
    /\ UNCHANGED <<deact, seat, fence, remembered, crashes>>

\* createGrantTable() answered: the session is seated with a fresh fence; its
\* run is the remembered one, if a later begin() has not cleared it.
Adopted(g) ==
    /\ act[g].pc = "adopting"
    /\ seat' = [seat EXCEPT ![g] = runOf(g)]
    /\ fence' = [fence EXCEPT ![g] = OpenFence]
    /\ auth' = [auth EXCEPT !.grants = @ \cup {g}]
    /\ act' = [act EXCEPT ![g].pc = "done"]
    /\ UNCHANGED <<sup, sess, deact, remembered, crashes>>

\* createGrantTable() rejected: the aftermath revokes the granted lease.
AdoptionFails(g) ==
    /\ act[g].pc = "adopting"
    /\ auth' = RouteRevoked(auth, g)
    /\ act' = [act EXCEPT ![g].pc = "undoing"]
    /\ UNCHANGED <<sup, sess, deact, seat, fence, remembered, crashes>>

\* The aftermath's remaining revocations and its reap.
Undone(g) ==
    /\ act[g].pc = "undoing"
    /\ auth' = RestRevoked(auth, g)
    /\ sess' = IF Reaps(g) THEN Stopped(g) ELSE sess
    /\ act' = [act EXCEPT ![g].pc = AftermathPc(g)]
    /\ UNCHANGED <<sup, deact, seat, fence, remembered, crashes>>

\* The stopped run closed: the aftermath, or the rolled-back request, is over.
Reaped(g) ==
    /\ act[g].pc = "reaping" /\ ~sess[g].up
    /\ act' = [act EXCEPT ![g].pc = "done"]
    /\ UNCHANGED <<sup, sess, deact, seat, fence, remembered, auth, crashes>>

-----------------------------------------------------------------------------
(* The switch: commitSwitch().                                             *)

\* fence() starts a drain only on an open fence.
FenceAdmits(f) == f.state = "open"

\* Mutant: a conflicted edit does not spoil the drain.
DrainedDespiteConflict(f) == ~f.work

\* How a drain can end: drained, a conflict among its accepted edits, or its
\* deadline over unsettled work.
Drained(f) == ~f.work /\ ~f.conflict

\* Mutant: the drain has no deadline.
DrainFailureWithoutDeadline(f) == IF ~f.work /\ f.conflict THEN "failed" ELSE "none"
DrainFailure(f) ==
    IF f.work THEN "timed-out" ELSE IF f.conflict THEN "failed" ELSE "none"

\* candidate.rollback(): the slot empties and the candidate's run is stopped.
RollBack(g, pc) ==
    /\ sup' = [sup EXCEPT !.slot = 0]
    /\ sess' = Stopped(g)
    /\ act' = [act EXCEPT ![g].pc = pc]

\* Readiness while a session is seated: its fence starts to drain.
StartSwitch(g) ==
    /\ act[g].pc = "starting" /\ ActiveSeat # 0
    /\ FenceAdmits(fence[ActiveSeat])
    /\ fence' = [fence EXCEPT ![ActiveSeat].state = "draining"]
    /\ act' = [act EXCEPT ![g] = [pc |-> "draining", old |-> ActiveSeat]]
    /\ UNCHANGED <<sup, sess, deact, seat, remembered, auth, crashes>>

\* The seat's fence is not open: the candidate is rolled back.
SwitchRefused(g) ==
    /\ act[g].pc = "starting" /\ ActiveSeat # 0
    /\ ~FenceAdmits(fence[ActiveSeat])
    /\ RollBack(g, "reaping")
    /\ UNCHANGED <<deact, seat, fence, remembered, auth, crashes>>

\* The drain did not end drained: the candidate is rolled back; the drain
\* handle is dropped, so nobody resumes the fence.
SwitchDrainFails(g) ==
    LET o == act[g].old
    IN  /\ act[g].pc = "draining"
        /\ DrainFailure(fence[o]) # "none"
        /\ fence' = [fence EXCEPT ![o].state = DrainFailure(fence[o])]
        /\ RollBack(g, "reaping")
        /\ UNCHANGED <<deact, seat, remembered, auth, crashes>>

\* clientIsAuthoritative(): the seat's editor binding is live.
ClientIsAuthoritative(o) == auth.editor = o

\* Drained: prepareNormal() mints the receipt and commit() spends it; the old
\* lease is revoked first.
SwitchRevokes(g) ==
    LET o == act[g].old
    IN  /\ act[g].pc = "draining" /\ Drained(fence[o])
        /\ ClientIsAuthoritative(o)
        /\ fence' = [fence EXCEPT ![o].state = "drained"]
        /\ auth' = RouteRevoked(auth, o)
        /\ act' = [act EXCEPT ![g].pc = "revoking"]
        /\ UNCHANGED <<sup, sess, deact, seat, remembered, crashes>>

\* Drained, but the preparation is refused: the candidate is rolled back first.
SwitchNotPrepared(g) ==
    LET o == act[g].old
    IN  /\ act[g].pc = "draining" /\ Drained(fence[o])
        /\ ~ClientIsAuthoritative(o)
        /\ fence' = [fence EXCEPT ![o].state = "drained"]
        /\ RollBack(g, "resuming")
        /\ UNCHANGED <<deact, seat, remembered, auth, crashes>>

\* The rolled-back candidate is reaped: drain.resume().
SwitchResumes(g) ==
    /\ act[g].pc = "resuming" /\ ~sess[g].up
    /\ fence' = [fence EXCEPT ![act[g].old] = OpenFence]
    /\ act' = [act EXCEPT ![g].pc = "done"]
    /\ UNCHANGED <<sup, sess, deact, seat, remembered, auth, crashes>>

\* The old lease's sockets are closed: the rest of the old authority is
\* revoked, the candidate commits, the old seat is dropped.
SwitchCommits(g) ==
    LET o == act[g].old
    IN  /\ act[g].pc = "revoking"
        /\ CommitAndAdopt(g, RestRevoked(auth, o))
        /\ seat' = [seat EXCEPT ![o] = "none"]
        /\ UNCHANGED <<deact, fence, remembered, crashes>>

-----------------------------------------------------------------------------
(* Deactivation.                                                           *)

Deactivate(d) ==
    /\ deact[d].pc = "unsent" /\ ActiveSeat # 0
    /\ FenceAdmits(fence[ActiveSeat])
    /\ fence' = [fence EXCEPT ![ActiveSeat].state = "draining"]
    /\ deact' = [deact EXCEPT ![d] = [pc |-> "draining", old |-> ActiveSeat]]
    /\ UNCHANGED <<sup, sess, act, seat, remembered, auth, crashes>>

\* Not drained: the request is answered and nobody resumes the fence.
DeactivationDrainFails(d) ==
    LET o == deact[d].old
    IN  /\ deact[d].pc = "draining"
        /\ DrainFailure(fence[o]) # "none"
        /\ fence' = [fence EXCEPT ![o].state = DrainFailure(fence[o])]
        /\ deact' = [deact EXCEPT ![d].pc = "done"]
        /\ UNCHANGED <<sup, sess, act, seat, remembered, auth, crashes>>

DeactivationNotPrepared(d) ==
    LET o == deact[d].old
    IN  /\ deact[d].pc = "draining" /\ Drained(fence[o])
        /\ ~ClientIsAuthoritative(o)
        /\ fence' = [fence EXCEPT ![o] = OpenFence]
        /\ deact' = [deact EXCEPT ![d].pc = "done"]
        /\ UNCHANGED <<sup, sess, act, seat, remembered, auth, crashes>>

DeactivationRevokes(d) ==
    LET o == deact[d].old
    IN  /\ deact[d].pc = "draining" /\ Drained(fence[o])
        /\ ClientIsAuthoritative(o)
        /\ fence' = [fence EXCEPT ![o].state = "drained"]
        /\ auth' = RouteRevoked(auth, o)
        /\ deact' = [deact EXCEPT ![d].pc = "revoking"]
        /\ UNCHANGED <<sup, sess, act, seat, remembered, crashes>>

\* The sockets are closed: the rest is revoked, the seat's run is stopped, the
\* seat dropped, and supervisor.revoke() clears whatever session is active.
DeactivationClears(d) ==
    LET o == deact[d].old
    IN  /\ deact[d].pc = "revoking"
        /\ auth' = Retired(RestRevoked(auth, o), sup.active)
        /\ sess' = IF seat[o] = "whole" THEN Stopped(o) ELSE sess
        /\ seat' = [seat EXCEPT ![o] = "none"]
        /\ sup' = [sup EXCEPT !.active = 0]
        /\ deact' = [deact EXCEPT ![d].pc = "done"]
        /\ UNCHANGED <<act, fence, remembered, crashes>>

-----------------------------------------------------------------------------
(* Edits, and the project runs.                                            *)

\* An edit of the seated session is accepted by its fence.
Submit(g) ==
    /\ ActiveSeat = g /\ fence[g].state = "open" /\ ~fence[g].work
    /\ fence' = [fence EXCEPT ![g].work = TRUE]
    /\ UNCHANGED <<sup, sess, act, deact, seat, remembered, auth, crashes>>

\* The accepted work settles, with or without a conflict; after a deadline it
\* only makes the timed-out fence terminal.
Settle(g, conflict) ==
    /\ fence[g].work
    /\ fence' = [fence EXCEPT
                   ![g] = [state |-> IF @.state = "timed-out"
                                     THEN "terminal-after-timeout" ELSE @.state,
                           work |-> FALSE,
                           conflict |-> @.conflict \/ conflict]]
    /\ UNCHANGED <<sup, sess, act, deact, seat, remembered, auth, crashes>>

\* A run closes: stopped, or crashed after readiness.  The active session's
\* close clears it and retires its bindings and host capability, nothing else.
RunCloses(g) ==
    /\ sess[g].up
    /\ IF sess[g].stopping
       THEN crashes' = crashes
       ELSE act[g].pc # "starting" /\ crashes < MaxCrashes /\ crashes' = crashes + 1
    /\ sess' = [sess EXCEPT ![g].up = FALSE]
    /\ IF sup.active = g
       THEN sup' = [sup EXCEPT !.active = 0] /\ auth' = Retired(auth, g)
       ELSE UNCHANGED <<sup, auth>>
    /\ UNCHANGED <<act, deact, seat, fence, remembered>>

-----------------------------------------------------------------------------

ActivationStep(g) ==
    \/ ReadinessFails(g)
    \/ FirstCommit(g)
    \/ StartSwitch(g)
    \/ SwitchRefused(g)
    \/ SwitchDrainFails(g)
    \/ SwitchRevokes(g)
    \/ SwitchNotPrepared(g)
    \/ SwitchResumes(g)
    \/ SwitchCommits(g)
    \/ Adopted(g)
    \/ AdoptionFails(g)
    \/ Undone(g)
    \/ Reaped(g)

DeactivationStep(d) ==
    \/ DeactivationDrainFails(d)
    \/ DeactivationNotPrepared(d)
    \/ DeactivationRevokes(d)
    \/ DeactivationClears(d)

Next ==
    \/ \E p \in Projects : Activate(p)
    \/ \E d \in Deactivations : Deactivate(d) \/ DeactivationStep(d)
    \/ \E g \in Generations :
        \/ ActivationStep(g)
        \/ Submit(g)
        \/ \E conflict \in BOOLEAN : Settle(g, conflict)
        \/ RunCloses(g)

Spec == Init /\ [][Next]_vars

\* Every wait of a request ends: readiness and drains have deadlines, waiting
\* for sockets is bounded, file reads answer, and a stopped run closes within
\* the plane's kill deadlines.  Edits need not settle and nobody has to ask.
Fairness ==
    /\ \A g \in Generations :
        /\ WF_vars(ActivationStep(g))
        /\ WF_vars(sess[g].stopping /\ RunCloses(g))
    /\ \A d \in Deactivations : WF_vars(DeactivationStep(d))

FairSpec == Spec /\ Fairness

-----------------------------------------------------------------------------
(* Properties.                                                             *)

TypeOK ==
    /\ sup \in [next : 1 .. (MaxGeneration + 1), active : Session, slot : Session]
    /\ sess \in [Generations -> [key : Projects \cup {NoProject}, up : BOOLEAN,
                                 stopping : BOOLEAN]]
    /\ act \in [Generations -> [pc : ActivationPc, old : Session]]
    /\ deact \in [Deactivations -> [pc : DeactivationPc, old : Session]]
    /\ seat \in [Generations -> Seat]
    /\ fence \in [Generations -> [state : FenceState, work : BOOLEAN,
                                  conflict : BOOLEAN]]
    /\ remembered \subseteq Generations
    /\ auth \in [lease : Session, routed : Projects \cup {NoProject},
                  editor : Session, hostCaps : SUBSET Projects,
                  grants : SUBSET Generations]
    /\ crashes \in 0 .. MaxCrashes

\* The requests that hold session o's drain or have begun to revoke it.
Transitions(o) ==
    {<<"act", g>> : g \in {x \in Generations :
        act[x].old = o /\ act[x].pc \in {"draining", "revoking", "resuming"}}}
    \cup
    {<<"deact", d>> : d \in {x \in Deactivations :
        deact[x].old = o /\ deact[x].pc \in {"draining", "revoking"}}}

Revoking(o) ==
    \/ \E g \in Generations : act[g].pc = "revoking" /\ act[g].old = o
    \/ \E d \in Deactivations : deact[d].pc = "revoking" /\ deact[d].old = o

\* A seat's fence serializes the transitions over it: two requests never drain
\* or revoke the same session.
OneTransitionPerSeat ==
    \A o \in Generations : Cardinality(Transitions(o)) <= 1

\* One transition at a time takes a session's authority, and only over a
\* certified fence: no accepted edit of the
\* session is unsettled or conflicted, and no new one is admitted, until the
\* transition is over.
RevokedOnlyWhenQuiet ==
    /\ OneTransitionPerSeat
    /\ \A o \in Generations :
        Revoking(o) => fence[o] = [OpenFence EXCEPT !.state = "drained"]

\* No irreversible failure: whoever has begun to revoke an old session still
\* holds the slot its commit needs, so revocation is never spent for nothing.
CommitStaysPossible ==
    \A g \in Generations :
        act[g].pc \in {"starting", "draining", "revoking"} => sup.slot = g

\* A seated active session keeps the authority that is bound to the session
\* until its own transition revokes it: nobody else's revocation, aftermath or
\* failed adoption takes its lease, editor binding or edit grants.
SeatedHasAuthority ==
    \A g \in Generations :
        ActiveSeat = g /\ ~Revoking(g) =>
            /\ auth.lease = g
            /\ auth.editor = g
            /\ g \in auth.grants

\* A session that was switched away from or deactivated leaves nothing behind:
\* no lease, binding or edit grants.
ReplacedHoldsNothing ==
    \A g \in Generations :
        act[g].pc = "done" /\ seat[g] = "none" =>
            auth.lease # g /\ auth.editor # g /\ g \notin auth.grants

\* Authority is the active seat's alone, and all of it.
AuthorityOfSeat == SeatedHasAuthority /\ ReplacedHoldsNothing

ActivationAnswers ==
    \A g \in Generations : act[g].pc = "starting" ~> act[g].pc = "done"

DeactivationAnswers ==
    \A d \in Deactivations : deact[d].pc = "draining" ~> deact[d].pc = "done"

\* Every activation and every deactivation is answered, although edits may hang
\* and runs may crash.
RequestsAnswered == ActivationAnswers /\ DeactivationAnswers

=============================================================================
