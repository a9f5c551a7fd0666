------------------------- MODULE SessionSupervisor -------------------------
(***************************************************************************)
(* The staged activation transaction over the one active project session   *)
(* (packages/runtime/session-supervisor/staging): the supervisor's         *)
(* snapshot, the attempt machine of each begun activation, and the project *)
(* run each attempt owns.  A generation names one attempt and, once        *)
(* committed, the session.  Every method is synchronous; the reactions of  *)
(* run.ready, run.closed and run.stop() are actions of their own, because  *)
(* other calls can run between a promise's settlement and its reaction.    *)
(***************************************************************************)
EXTENDS Integers, FiniteSets

CONSTANTS
    Projects,        \* project keys
    MaxGeneration    \* bound: begun activations

ASSUME SupervisorAssumption == MaxGeneration \in Nat \ {0} /\ 0 \notin Projects

VARIABLES
    nextGeneration,  \* the generation the next begin() reserves
    active,          \* generation of the active session, 0 when none
    attemptCtx,      \* generation of the attempt in flight, 0 when none
    lastFailure,     \* category of the snapshot's last failure
    att,             \* per generation: attempt, run and observers
    bindings,        \* sessions that hold at least one client binding
    hostCaps,        \* projects whose host capability is live
    frame            \* the snapshot the subscribers were last sent

vars == <<nextGeneration, active, attemptCtx, lastFailure, att, bindings,
          hostCaps, frame>>

Generations == 1 .. MaxGeneration

\* Readiness failures keep one category here; a rollback's is its reason.
Failures == {"none", "readiness", "crash", "drain-conflict", "drain-timeout",
             "incomplete-reap"}

RollbackReasons == {"cancelled", "drain-conflict", "drain-timeout",
                    "incomplete-reap"}

Ends == {"failed", "rolled-back", "cancelled"}

\* `committing` exists only inside the synchronous commit().
AttemptPhase == {"unused", "starting", "staged", "cancelling", "ended"}

Attempt ==
    [key : Projects \cup {0},
     phase : AttemptPhase,
     ready : {"pending", "resolved", "rejected"},  \* run.ready
     reacted : BOOLEAN,                            \* did ready's reaction run?
     up : BOOLEAN,                                 \* has run.closed not settled?
     stopping : BOOLEAN,                           \* was run.stop() called?
     ending : Ends \cup {"none"},                  \* outcome owed to stop()'s report
     outcome : Ends \cup {"pending", "committed"}, \* attempt.closed
     observed : BOOLEAN]                           \* is observeActiveClose attached?

UnusedAttempt ==
    [key |-> 0, phase |-> "unused", ready |-> "pending", reacted |-> FALSE,
     up |-> FALSE, stopping |-> FALSE, ending |-> "none",
     outcome |-> "pending", observed |-> FALSE]

Snapshot == [active |-> active, attempt |-> attemptCtx, failure |-> lastFailure]

\* notify(): every subscriber gets the snapshot of the state just reached.  The
\* frame sent inside commit(), with the attempt committing, is replaced within
\* the same call.
Notify == frame' = Snapshot'

-----------------------------------------------------------------------------
(* What the supervisor does for its attempts.                              *)

\* retireActive(): bindings and host capability die with the session.
RetireActive(g) ==
    /\ bindings' = bindings \ {g}
    /\ hostCaps' = hostCaps \ {att[g].key}

\* attemptEnded(): the slot empties and the dead candidate's bindings die.
AttemptEnded(failure) ==
    IF attemptCtx = 0
    THEN UNCHANGED <<active, attemptCtx, bindings, lastFailure, frame>>
    ELSE /\ attemptCtx' = 0
         /\ bindings' = bindings \ {attemptCtx}
         /\ lastFailure' = IF failure = "none" THEN lastFailure ELSE failure
         /\ UNCHANGED active
         /\ Notify

\* rootHasPlane(): the active session or the attempt in flight is this root's.
RootHasPlane(p) ==
    \/ active # 0 /\ att[active].key = p
    \/ attemptCtx # 0 /\ att[attemptCtx].key = p

-----------------------------------------------------------------------------
(* The supervisor's operations.                                            *)

Init ==
    /\ nextGeneration = 1
    /\ active = 0
    /\ attemptCtx = 0
    /\ lastFailure = "none"
    /\ att = [g \in Generations |-> UnusedAttempt]
    /\ bindings = {}
    /\ hostCaps = {}
    /\ frame = [active |-> 0, attempt |-> 0, failure |-> "none"]

\* Mutant: the reservation is not recorded.
ReserveNothing == nextGeneration

\* Every attempt consumes a fresh generation.
ReserveGeneration == nextGeneration + 1

\* begin(): `launched` is false when startCandidate throws and the attempt
\* gets neverStartedRun(), whose ready rejects and whose closed is settled.
Begin(p, launched) ==
    /\ ~RootHasPlane(p)
    /\ attemptCtx = 0
    /\ nextGeneration \in Generations
    /\ nextGeneration' = ReserveGeneration
    /\ attemptCtx' = nextGeneration
    /\ att' = [att EXCEPT ![nextGeneration] =
                 [UnusedAttempt EXCEPT
                    !.key = p, !.phase = "starting", !.up = launched,
                    !.ready = IF launched THEN "pending" ELSE "rejected"]]
    /\ UNCHANGED <<active, lastFailure, bindings, hostCaps>>
    /\ Notify

\* A client binds to the session or the candidate that admitted it.
Bind(g) ==
    /\ g \in {active, attemptCtx} \ {0}
    /\ bindings' = bindings \cup {g}
    /\ UNCHANGED <<nextGeneration, active, attemptCtx, lastFailure, att,
                   hostCaps, frame>>

\* The linearization commitCandidate(): one synchronous swap of authority.
CommitCandidate(g) ==
    /\ active' = g
    /\ attemptCtx' = 0
    /\ LET committed == [att EXCEPT ![g].phase = "ended",
                                    ![g].outcome = "committed",
                                    ![g].observed = TRUE]
       IN  IF active = 0
           THEN /\ att' = committed
                /\ bindings' = bindings
                /\ hostCaps' = hostCaps \cup {att[g].key}
           ELSE /\ att' = [committed EXCEPT ![active].stopping = TRUE]
                /\ bindings' = bindings \ {active}
                /\ hostCaps' = (hostCaps \ {att[active].key}) \cup {att[g].key}
    /\ UNCHANGED <<nextGeneration, lastFailure>>
    /\ Notify

\* commit() of a staged candidate; an attempt the supervisor no longer holds
\* is refused 'not-current' and its run stopped.
Commit(g) ==
    /\ att[g].phase = "staged"
    /\ IF attemptCtx = g
       THEN CommitCandidate(g)
       ELSE /\ att' = [att EXCEPT ![g].phase = "ended", ![g].stopping = TRUE,
                                  ![g].outcome = "cancelled"]
            /\ UNCHANGED <<nextGeneration, active, attemptCtx, lastFailure,
                           bindings, hostCaps, frame>>

\* The failure category a rollback leaves in the snapshot.
RollbackFailureCategory(reason) == IF reason = "cancelled" THEN "none" ELSE reason

\* rollback(reason) of a staged candidate; a cancel() after readiness is
\* rollback("cancelled").
Rollback(g, reason) ==
    /\ att[g].phase = "staged"
    /\ att' = [att EXCEPT ![g].phase = "ended", ![g].stopping = TRUE,
                          ![g].ending = "rolled-back"]
    /\ AttemptEnded(RollbackFailureCategory(reason))
    /\ UNCHANGED <<nextGeneration, hostCaps>>

\* cancel() before readiness.
Cancel(g) ==
    /\ att[g].phase = "starting"
    /\ att' = [att EXCEPT ![g].phase = "cancelling", ![g].stopping = TRUE,
                          ![g].ending = "cancelled"]
    /\ AttemptEnded("none")
    /\ UNCHANGED <<nextGeneration, hostCaps>>

\* revoke('deactivation'): clears whatever session is active, no failure.
Revoke ==
    /\ active # 0
    /\ active' = 0
    /\ RetireActive(active)
    /\ UNCHANGED <<nextGeneration, attemptCtx, lastFailure, att>>
    /\ Notify

-----------------------------------------------------------------------------
(* Reactions to the run's promises.                                        *)

\* run.ready resolved: a starting attempt is staged; a cancelled one keeps its
\* phase and its candidate refuses every method.
OnReady(g) ==
    /\ att[g].ready = "resolved" /\ ~att[g].reacted
    /\ att' = [att EXCEPT
                 ![g].reacted = TRUE,
                 ![g].phase = IF @ = "starting" THEN "staged" ELSE @]
    /\ UNCHANGED <<nextGeneration, active, attemptCtx, lastFailure, bindings,
                   hostCaps, frame>>

\* Mutant: the readiness failure of a cancelled attempt also ends an attempt.
OnReadyRejectedUnguarded(g) ==
    /\ att[g].ready = "rejected" /\ ~att[g].reacted
    /\ att' = [att EXCEPT ![g].reacted = TRUE, ![g].phase = "ended",
                          ![g].stopping = TRUE, ![g].ending = "failed"]
    /\ AttemptEnded("readiness")
    /\ UNCHANGED <<nextGeneration, hostCaps>>

\* run.ready rejected: the attempt fails, unless cancel() owns its end.
OnReadyRejected(g) ==
    /\ att[g].ready = "rejected" /\ ~att[g].reacted
    /\ IF att[g].phase = "cancelling"
       THEN /\ att' = [att EXCEPT ![g].reacted = TRUE]
            /\ UNCHANGED <<active, attemptCtx, bindings, lastFailure, frame>>
       ELSE /\ att' = [att EXCEPT ![g].reacted = TRUE, ![g].phase = "ended",
                                  ![g].stopping = TRUE, ![g].ending = "failed"]
            /\ AttemptEnded("readiness")
    /\ UNCHANGED <<nextGeneration, hostCaps>>

\* Mutant: the stop report never reaches the attempt's closed promise.
SettlesNever(g) == FALSE

\* stopCandidate()'s settlement is due once the stopped run has closed.
SettlesOnReport(g) ==
    att[g].stopping /\ ~att[g].up /\ att[g].ending # "none"

\* run.stop() reported: settleOutcome() settles attempt.closed, once.
StopReports(g) ==
    /\ SettlesOnReport(g)
    /\ att' = [att EXCEPT ![g].ending = "none",
                          ![g].outcome = IF @ = "pending" THEN att[g].ending ELSE @]
    /\ UNCHANGED <<nextGeneration, active, attemptCtx, lastFailure, bindings,
                   hostCaps, frame>>

\* observeActiveClose()'s guard: the run that closed is the active session's.
ClosesActive(g) == active = g

\* run.closed settled for a committed session: a crash if it is still active,
\* history if it was replaced or revoked.
ObserveActiveClose(g) ==
    /\ att[g].observed /\ ~att[g].up
    /\ att' = [att EXCEPT ![g].observed = FALSE]
    /\ UNCHANGED <<nextGeneration, attemptCtx>>
    /\ IF ClosesActive(g)
       THEN /\ active' = 0
            /\ RetireActive(g)
            /\ lastFailure' = "crash"
            /\ Notify
       ELSE UNCHANGED <<active, bindings, hostCaps, lastFailure, frame>>

-----------------------------------------------------------------------------
(* The project run (project-runtime.ts), as the supervisor sees it.        *)

\* The plane and its health check are ready; a stop() aborts the check.
RunReadies(g) ==
    /\ att[g].up /\ att[g].ready = "pending" /\ ~att[g].stopping
    /\ att' = [att EXCEPT ![g].ready = "resolved"]
    /\ UNCHANGED <<nextGeneration, active, attemptCtx, lastFailure, bindings,
                   hostCaps, frame>>

\* The run fails to become ready (deadline, crash, health check, stop) while
\* its processes are still being reaped.
RunFailsToReady(g) ==
    /\ att[g].up /\ att[g].ready = "pending"
    /\ att' = [att EXCEPT ![g].ready = "rejected"]
    /\ UNCHANGED <<nextGeneration, active, attemptCtx, lastFailure, bindings,
                   hostCaps, frame>>

\* The run closes: stopped, crashed, or done failing.
RunCloses(g) ==
    /\ att[g].up
    /\ att' = [att EXCEPT ![g].up = FALSE,
                          ![g].ready = IF @ = "pending" THEN "rejected" ELSE @]
    /\ UNCHANGED <<nextGeneration, active, attemptCtx, lastFailure, bindings,
                   hostCaps, frame>>

-----------------------------------------------------------------------------

Next ==
    \/ \E p \in Projects, launched \in BOOLEAN : Begin(p, launched)
    \/ Revoke
    \/ \E g \in Generations :
        \/ Bind(g)
        \/ Commit(g)
        \/ \E reason \in RollbackReasons : Rollback(g, reason)
        \/ Cancel(g)
        \/ OnReady(g)
        \/ OnReadyRejected(g)
        \/ StopReports(g)
        \/ ObserveActiveClose(g)
        \/ RunReadies(g)
        \/ RunFailsToReady(g)
        \/ RunCloses(g)

Spec == Init /\ [][Next]_vars

\* Promise reactions always run, and a stopped run always closes (its stop is
\* bounded by the plane's kill deadlines); nobody has to ready, crash or be
\* committed.
Fairness ==
    \A g \in Generations :
        /\ WF_vars(OnReady(g))
        /\ WF_vars(OnReadyRejected(g))
        /\ WF_vars(StopReports(g))
        /\ WF_vars(ObserveActiveClose(g))
        /\ WF_vars(att[g].stopping /\ RunCloses(g))

FairSpec == Spec /\ Fairness

-----------------------------------------------------------------------------
(* Properties.                                                             *)

TypeOK ==
    /\ nextGeneration \in 1 .. (MaxGeneration + 1)
    /\ active \in 0 .. MaxGeneration
    /\ attemptCtx \in 0 .. MaxGeneration
    /\ lastFailure \in Failures
    /\ att \in [Generations -> Attempt]
    /\ bindings \subseteq Generations
    /\ hostCaps \subseteq Projects
    /\ frame \in [active : 0 .. MaxGeneration, attempt : 0 .. MaxGeneration,
                  failure : Failures]

\* The slot holds exactly the one attempt that can still be staged or
\* committed: an attempt that ended, by whatever path, never keeps or clears
\* another attempt's slot.
SlotHoldsLiveAttempt ==
    \A g \in Generations :
        att[g].phase \in {"starting", "staged"} <=> attemptCtx = g

\* Authority never outlives the session that minted it: the live host
\* capability is the active session's alone, and bindings belong to the active
\* session or the candidate.
AuthorityFollowsActive ==
    /\ hostCaps = IF active = 0 THEN {} ELSE {att[active].key}
    /\ bindings \subseteq {active, attemptCtx} \ {0}

\* One attempt at most is under way, and authority is held by the active session
\* and that attempt only, whichever reaction of an ended one comes late.
SeatsAgree == SlotHoldsLiveAttempt /\ AuthorityFollowsActive

\* Subscribers hold the current snapshot after every step.
SubscribersCurrent == frame = Snapshot

\* A run is stopped, or some slot still owns it, or deactivation cleared it:
\* the staging layer abandons no candidate.
NoAbandonedCandidate ==
    \A g \in Generations :
        att[g].up /\ att[g].outcome # "committed" =>
            att[g].stopping \/ attemptCtx = g

\* A session only becomes active by committing the staged candidate in the
\* slot, generations never come back, and a settled outcome is final.
ForwardOnly ==
    [][/\ active' \notin {0, active} => active' = attemptCtx /\ active' > active
       /\ \A g \in Generations :
            att[g].outcome # "pending" => att'[g].outcome = att[g].outcome]_vars

\* Every attempt that ended reports its outcome.
EndedSettles ==
    \A g \in Generations :
        (att[g].phase \in {"ended", "cancelling"}) ~> (att[g].outcome # "pending")

\* A dead active session is noticed and cleared.
CrashNoticed ==
    \A g \in Generations : (active = g /\ ~att[g].up) ~> (active # g)

\* What happened late still lands: every ended attempt reports, and a dead
\* session is not shown as the active one for ever.
EndingsLand == EndedSettles /\ CrashNoticed

=============================================================================
