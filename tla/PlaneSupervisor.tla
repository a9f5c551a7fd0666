--------------------------- MODULE PlaneSupervisor --------------------------
(***************************************************************************)
(* One project run: the run facade (runtime/project-runtime), the plane    *)
(* supervisor with its close sequence (project-plane/supervision) and the  *)
(* two children it owns, the project worker behind its IPC wire and the    *)
(* managed Astro dev server.  The control plane and the children are       *)
(* separate processes: a message, a signal or an exit takes effect in one  *)
(* and is seen by the other later, and the control plane itself may die.   *)
(***************************************************************************)
EXTENDS Integers, Sequences, FiniteSets, SequencesExt

CONSTANT Inspections    \* ids of the consumer's inspections

\* FIRST_CONSUMER_WIRE_ID is 1: id 0 is the supervisor's readiness probe.
ASSUME PlaneAssumption == Inspections \subseteq Nat \ {0} /\ IsFiniteSet(Inspections)

VARIABLES
    up,          \* is the control plane process alive?
    run,         \* the run facade: launch and stop()
    plane,       \* the supervisor's own state
    close,       \* runClose: its stage and what it has observed
    child,       \* per child: the process, and what the supervisor did to it
    worker,      \* the worker process: its phase and its work
    wire,        \* the IPC channel, both directions
    inspection   \* per inspection: its promise

vars == <<up, run, plane, close, child, worker, wire, inspection>>

PROBE == 0
Children == {"worker", "managed-astro"}
Sibling(c) == IF c = "worker" THEN "managed-astro" ELSE "worker"

CrashReason(c) == IF c = "worker" THEN "worker-crash" ELSE "managed-astro-crash"
CrashReasons == {CrashReason(c) : c \in Children}
StopReasons == {"stopped", "cancelled", "startup-timeout"} \cup CrashReasons

Categories == {"worker-close-report", "worker-cleanup-incomplete",
               "worker-reap", "managed-astro-reap", "probe-abort"}

\* ready: pending, resolved, or the code it was rejected with.  Admission is
\* pending while starting, admitted while running and revoked from then on.
PlaneState ==
    [state : {"starting", "running", "closing", "closed"},
     ready : {"pending", "resolved", "launch-failed"} \cup (StopReasons \ {"stopped"}),
     answered : BOOLEAN,                          \* workerAnswered
     probe : {"trying", "ready", "aborted"},      \* probeManagedDevServer
     report : {"none", "complete", "incomplete"}] \* workerReport

CloseState ==
    [reason : StopReasons \cup {"none"},
     stage : {"none", "graceful", "probes", "reaping", "done"},
     graceful : BOOLEAN,                          \* gracefulExited
     probes : BOOLEAN,                            \* probesSettled
     failures : SUBSET Categories]                \* the report, once done

\* ladder: terminateAndReap's rung, and how it ended.
ChildState ==
    [alive : BOOLEAN,
     signal : {"none", "term", "kill"},           \* strongest signal sent
     gone : BOOLEAN,                              \* was its exit observed?
     ladder : {"idle", "term", "kill", "reaped", "unreaped"}]

WorkerState ==
    [phase : {"booting", "running", "stopping"},
     inFlight : SUBSET (Inspections \cup {PROBE})]

\* down: to the worker; out: from it; dead: has the facet been marked dead?
ToWorker == [type : {"inspect"}, id : Inspections \cup {PROBE}] \cup [type : {"stop"}]
FromWorker ==
    [type : {"inspect-result"}, id : Inspections \cup {PROBE}, ok : BOOLEAN]
        \cup [type : {"closed"}, outcome : {"complete", "incomplete"}]
WireState ==
    [down : Seq(ToWorker), out : Seq(FromWorker), connected : BOOLEAN, dead : BOOLEAN]

Promise == {"idle", "waiting", "sent", "resolved", "rejected"}

Inspect(i) == [type |-> "inspect", id |-> i]
STOP == [type |-> "stop"]

Init ==
    /\ up = TRUE
    /\ run = [launch |-> "launching", stopped |-> FALSE]
    /\ plane = [state |-> "starting", ready |-> "pending", answered |-> FALSE,
                probe |-> "trying", report |-> "none"]
    /\ close = [reason |-> "none", stage |-> "none", graceful |-> FALSE,
                probes |-> FALSE, failures |-> {}]
    /\ child = [c \in Children |-> [alive |-> FALSE, signal |-> "none",
                                    gone |-> FALSE, ladder |-> "idle"]]
    /\ worker = [phase |-> "booting", inFlight |-> {}]
    /\ wire = [down |-> <<>>, out |-> <<>>, connected |-> FALSE, dead |-> FALSE]
    /\ inspection = [i \in Inspections |-> "idle"]

Supervising == up /\ run.launch = "launched"
Live == plane.state \in {"starting", "running"}
Settled(i) == inspection[i] \in {"resolved", "rejected"}

-----------------------------------------------------------------------------
\* The terminal transition.

Rejection(reason) == IF reason = "stopped" THEN "cancelled" ELSE reason

\* A stop before readiness is a cancellation.
StopReason == IF plane.state = "running" THEN "stopped" ELSE "cancelled"

\* The crash law: the surviving child is killed in the transition's own tick.
CrashKill(children, reason) ==
    [c \in Children |->
        IF reason = CrashReason(Sibling(c))
        THEN [children[c] EXCEPT !.signal = "kill"] ELSE children[c]]

\* Mutant: a crash-killed worker counts as one that has exited.
CloseBegunBlindly(reason) ==
    [reason |-> reason,
     stage |-> IF reason \in CrashReasons THEN "probes" ELSE "graceful",
     graceful |-> reason \in CrashReasons,
     probes |-> FALSE,
     failures |-> {}]

\* A crashed worker has exited; a crash-killed one is only known to by its reap.
CloseBegun(reason) ==
    [reason |-> reason,
     stage |-> IF reason \in CrashReasons THEN "probes" ELSE "graceful",
     graceful |-> reason = "worker-crash",
     probes |-> FALSE,
     failures |-> {}]

\* A message to a dead worker, or on a closed channel, is lost.
Sent(messages) ==
    IF wire.connected /\ child["worker"].alive THEN wire.down \o messages ELSE wire.down

InitiateClose(reason, p, children) ==
    /\ plane' = [p EXCEPT !.state = "closing",
                          !.ready = IF @ = "pending" THEN Rejection(reason) ELSE @]
    /\ close' = CloseBegun(reason)
    /\ child' = CrashKill(children, reason)

\* ready once the worker has answered and the dev server serves.
Admitted(p) ==
    IF p.answered /\ p.probe = "ready" /\ p.state = "starting"
    THEN [p EXCEPT !.state = "running", !.ready = "resolved"] ELSE p

-----------------------------------------------------------------------------
\* The run facade.

\* launchManagedPlane spawns both children; the waiting calls then go through
\* in the order they were made, inspections before a stop().
Launch ==
    /\ up /\ run.launch = "launching"
    /\ run' = [run EXCEPT !.launch = "launched"]
    /\ \E waiting \in SetToSeqs({i \in Inspections : inspection[i] = "waiting"}) :
        wire' = [down |-> <<Inspect(PROBE)>>
                              \o [n \in DOMAIN waiting |-> Inspect(waiting[n])]
                              \o IF run.stopped THEN <<STOP>> ELSE <<>>,
                 out |-> <<>>, connected |-> TRUE, dead |-> FALSE]
    /\ inspection' = [i \in Inspections |->
                        IF inspection[i] = "waiting" THEN "sent" ELSE inspection[i]]
    /\ LET spawned == [c \in Children |-> [child[c] EXCEPT !.alive = TRUE]]
       IN IF run.stopped THEN InitiateClose(StopReason, plane, spawned)
          ELSE child' = spawned /\ UNCHANGED <<plane, close>>
    /\ UNCHANGED <<up, worker>>

\* Nothing was spawned: ready rejects, closed and stop() report neverSpawnedReport.
LaunchFails ==
    /\ up /\ run.launch = "launching"
    /\ run' = [run EXCEPT !.launch = "failed"]
    /\ plane' = [plane EXCEPT !.state = "closed", !.ready = "launch-failed"]
    /\ close' = [close EXCEPT !.reason = "cancelled", !.stage = "done"]
    /\ inspection' = [i \in Inspections |->
                        IF inspection[i] = "waiting" THEN "rejected" ELSE inspection[i]]
    /\ UNCHANGED <<up, child, worker, wire>>

\* Mutant: the facet accepts what the closing plane will not answer.
RefusesTheDead == wire.dead \/ ~wire.connected

\* The facet refuses what could not be answered: dead, closing or disconnected.
Refuses == wire.dead \/ ~Live \/ ~wire.connected

Dispatch(i) ==
    /\ up /\ inspection[i] = "idle"
    /\ inspection' = [inspection EXCEPT ![i] =
            IF run.stopped THEN "rejected"
            ELSE CASE run.launch = "launching" -> "waiting"
                   [] run.launch = "failed" -> "rejected"
                   [] run.launch = "launched" -> IF Refuses THEN "rejected" ELSE "sent"]
    /\ wire' = IF inspection'[i] = "sent"
               THEN [wire EXCEPT !.down = Sent(<<Inspect(i)>>)] ELSE wire
    /\ UNCHANGED <<up, run, plane, close, child, worker>>

\* stop() on a run still launching is carried out by Launch.  During a close it
\* only returns the report: inspections are refused already.
Stop ==
    /\ up /\ ~run.stopped /\ run.launch # "failed" /\ Live
    /\ run' = [run EXCEPT !.stopped = TRUE]
    /\ IF run.launch = "launched"
       THEN /\ InitiateClose(StopReason, plane, child)
            /\ wire' = [wire EXCEPT !.down = Sent(<<STOP>>)]
       ELSE UNCHANGED <<plane, close, child, wire>>
    /\ UNCHANGED <<up, worker, inspection>>

-----------------------------------------------------------------------------
\* What the supervisor sees of its children.

\* Mutant: the channel is marked dead and its calls are forgotten.
MarkDeadOnly == UNCHANGED inspection

MarkDead ==
    inspection' = [i \in Inspections |->
                    IF ~wire.dead /\ inspection[i] = "sent" THEN "rejected"
                    ELSE inspection[i]]

Settlement(ok) == IF ok THEN "resolved" ELSE "rejected"

\* The supervisor's own message listener is removed once the close is over.
Listening == plane.state # "closed"

\* onWorkerMessage, and the facet's onWireOut.
HandleMessage(m) ==
    /\ plane' = CASE Listening /\ m.type = "inspect-result" /\ m.id = PROBE ->
                        Admitted([plane EXCEPT !.answered = @ \/ m.ok])
                  [] Listening /\ m.type = "closed" /\ plane.report = "none" ->
                        [plane EXCEPT !.report = m.outcome]
                  [] OTHER -> plane
    /\ inspection' =
        IF m.type = "inspect-result" /\ m.id # PROBE /\ inspection[m.id] = "sent"
        THEN [inspection EXCEPT ![m.id] = Settlement(m.ok)]
        ELSE inspection

Message ==
    /\ Supervising /\ wire.out # <<>>
    /\ HandleMessage(Head(wire.out))
    /\ wire' = [wire EXCEPT !.out = Tail(@)]
    /\ UNCHANGED <<up, run, close, child, worker>>

\* The channel's end, after its last message; the exit may be seen before it.
Disconnect ==
    /\ Supervising /\ wire.connected /\ ~child["worker"].alive /\ wire.out = <<>>
    /\ wire' = [wire EXCEPT !.connected = FALSE, !.dead = TRUE]
    /\ MarkDead
    /\ UNCHANGED <<up, run, plane, close, child, worker>>

ChildGone(c) ==
    /\ Supervising /\ ~child[c].alive /\ ~child[c].gone
    /\ LET seen == [child EXCEPT ![c].gone = TRUE]
       IN IF Live THEN InitiateClose(CrashReason(c), plane, seen)
          ELSE child' = seen /\ UNCHANGED <<plane, close>>
    /\ IF c = "worker" THEN MarkDead /\ wire' = [wire EXCEPT !.dead = TRUE]
       ELSE UNCHANGED <<inspection, wire>>
    /\ UNCHANGED <<up, run, worker>>

\* The dev server answers 200; the answer may be taken in after the abort.
ProbeServed ==
    /\ Supervising /\ plane.probe = "trying" /\ child["managed-astro"].alive
    /\ plane' = Admitted([plane EXCEPT !.probe = "ready"])
    /\ UNCHANGED <<up, run, close, child, worker, wire, inspection>>

ProbeAborted ==
    /\ Supervising /\ plane.probe = "trying" /\ ~Live
    /\ plane' = [plane EXCEPT !.probe = "aborted"]
    /\ UNCHANGED <<up, run, close, child, worker, wire, inspection>>

StartupTimeout ==
    /\ Supervising /\ plane.state = "starting"
    /\ InitiateClose("startup-timeout", plane, child)
    /\ wire' = [wire EXCEPT !.down = Sent(<<STOP>>)]
    /\ UNCHANGED <<up, run, worker, inspection>>

-----------------------------------------------------------------------------
\* runClose, one action per awaited step.

CrashKilled(c) == close.reason = CrashReason(Sibling(c))

WorkerClosed == plane.report # "none" /\ child["worker"].gone

\* The stop bound cuts the wait short when the worker has not closed.
GracefulEnds ==
    /\ Supervising /\ close.stage = "graceful"
    /\ close' = [close EXCEPT !.stage = "probes", !.graceful = WorkerClosed]
    /\ UNCHANGED <<up, run, plane, child, worker, wire, inspection>>

TermSent(c) ==
    [child[c] EXCEPT !.ladder = "term",
                     !.signal = IF CrashKilled(c) \/ @ = "kill" THEN @ ELSE "term"]

ProbesEnd ==
    /\ Supervising /\ close.stage = "probes"
    /\ close' = [close EXCEPT !.stage = "reaping", !.probes = plane.probe # "trying"]
    /\ child' = [c \in Children |-> TermSent(c)]
    /\ UNCHANGED <<up, run, plane, worker, wire, inspection>>

Reaped(c) ==
    /\ Supervising /\ child[c].ladder \in {"term", "kill"} /\ child[c].gone
    /\ child' = [child EXCEPT ![c].ladder = "reaped"]
    /\ UNCHANGED <<up, run, plane, close, worker, wire, inspection>>

TermExpires(c) ==
    /\ Supervising /\ child[c].ladder = "term" /\ ~child[c].gone
    /\ child' = [child EXCEPT ![c].ladder = "kill", ![c].signal = "kill"]
    /\ UNCHANGED <<up, run, plane, close, worker, wire, inspection>>

KillExpires(c) ==
    /\ Supervising /\ child[c].ladder = "kill" /\ ~child[c].gone
    /\ child' = [child EXCEPT ![c].ladder = "unreaped"]
    /\ UNCHANGED <<up, run, plane, close, worker, wire, inspection>>

WorkerReportExpected == close.reason \notin CrashReasons /\ plane.answered

Failed(category) ==
    CASE category = "worker-close-report" ->
            WorkerReportExpected /\ plane.report = "none"
      [] category = "worker-cleanup-incomplete" -> plane.report = "incomplete"
      [] category = "worker-reap" ->
            ~(close.graceful \/ child["worker"].ladder = "reaped")
      [] category = "managed-astro-reap" -> child["managed-astro"].ladder # "reaped"
      [] category = "probe-abort" -> ~close.probes

Closed ==
    /\ Supervising /\ close.stage = "reaping"
    /\ \A c \in Children : child[c].ladder \in {"reaped", "unreaped"}
    /\ plane' = [plane EXCEPT !.state = "closed"]
    /\ close' = [close EXCEPT !.stage = "done",
                             !.failures = {c \in Categories : Failed(c)}]
    /\ UNCHANGED <<up, run, child, worker, wire, inspection>>

-----------------------------------------------------------------------------
\* The children, which run whether or not the control plane does.

Dies(c) ==
    /\ child' = [child EXCEPT ![c].alive = FALSE]
    /\ IF c = "worker"
       THEN worker' = [worker EXCEPT !.inFlight = {}]
       ELSE UNCHANGED worker

\* Any exit the child did not announce; one that SIGTERM causes among them.
ChildExits(c) ==
    /\ child[c].alive
    /\ Dies(c)
    /\ wire' = IF c = "worker" THEN [wire EXCEPT !.down = <<>>] ELSE wire
    /\ UNCHANGED <<up, run, plane, close, inspection>>

Killed(c) == child[c].signal = "kill" /\ ChildExits(c)

WorkerBoots ==
    /\ child["worker"].alive /\ worker.phase = "booting"
    /\ worker' = [worker EXCEPT !.phase = IF up THEN "running" ELSE "stopping"]
    /\ UNCHANGED <<up, run, plane, close, child, wire, inspection>>

\* The worker's send: nothing reads the channel once the control plane is gone.
Sends(message) == IF up THEN Append(wire.out, message) ELSE wire.out

Result(i, ok) == [type |-> "inspect-result", id |-> i, ok |-> ok]

\* An inspection read after the stop is refused at once.
WorkerReads ==
    /\ child["worker"].alive /\ worker.phase # "booting" /\ wire.down # <<>>
    /\ LET m == Head(wire.down)
       IN \/ /\ m.type = "stop"
             /\ worker' = [worker EXCEPT !.phase = "stopping"]
             /\ wire' = [wire EXCEPT !.down = Tail(@)]
          \/ /\ m.type = "inspect" /\ worker.phase = "running"
             /\ worker' = [worker EXCEPT !.inFlight = @ \cup {m.id}]
             /\ wire' = [wire EXCEPT !.down = Tail(@)]
          \/ /\ m.type = "inspect" /\ worker.phase = "stopping"
             /\ wire' = [wire EXCEPT !.down = Tail(@), !.out = Sends(Result(m.id, FALSE))]
             /\ UNCHANGED worker
    /\ UNCHANGED <<up, run, plane, close, child, inspection>>

WorkerAnswers(i, ok) ==
    /\ child["worker"].alive /\ i \in worker.inFlight
    /\ worker' = [worker EXCEPT !.inFlight = @ \ {i}]
    /\ wire' = [wire EXCEPT !.out = Sends(Result(i, ok))]
    /\ UNCHANGED <<up, run, plane, close, child, inspection>>

\* Work that outlives the drain bound, or a composition that fails to close,
\* makes the worker's own report incomplete.
WorkerCloses(outcome) ==
    /\ child["worker"].alive /\ worker.phase = "stopping"
    /\ outcome = "complete" => worker.inFlight = {}
    /\ Dies("worker")
    /\ wire' = [wire EXCEPT !.down = <<>>,
                            !.out = Sends([type |-> "closed", outcome |-> outcome])]
    /\ UNCHANGED <<up, run, plane, close, inspection>>

\* The channel's end tells the worker that its control plane is gone.
WorkerOrphaned ==
    /\ ~up /\ child["worker"].alive /\ worker.phase = "running"
    /\ worker' = [worker EXCEPT !.phase = "stopping"]
    /\ UNCHANGED <<up, run, plane, close, child, wire, inspection>>

ControlPlaneDies ==
    /\ up
    /\ up' = FALSE
    /\ wire' = [wire EXCEPT !.out = <<>>]
    /\ UNCHANGED <<run, plane, close, child, worker, inspection>>

-----------------------------------------------------------------------------
CallerStep == Stop \/ \E i \in Inspections : Dispatch(i)

LaunchStep == Launch \/ LaunchFails

Observes == Message \/ Disconnect \/ ProbeAborted \/ \E c \in Children : ChildGone(c)

Closes ==
    \/ GracefulEnds \/ ProbesEnd \/ Closed
    \/ \E c \in Children : Reaped(c) \/ TermExpires(c) \/ KillExpires(c)

WorkerStep ==
    \/ WorkerBoots \/ WorkerReads \/ WorkerOrphaned
    \/ \E i \in Inspections \cup {PROBE}, ok \in BOOLEAN : WorkerAnswers(i, ok)
    \/ \E outcome \in {"complete", "incomplete"} : WorkerCloses(outcome)

Environment == ProbeServed \/ ControlPlaneDies \/ \E c \in Children : ChildExits(c)

Next ==
    \/ CallerStep \/ LaunchStep \/ Observes \/ StartupTimeout \/ Closes
    \/ WorkerStep \/ Environment

Spec == Init /\ [][Next]_vars

\* Events reach the control plane's loop and its bounds expire; SIGKILL is
\* delivered.  Nothing is assumed of the children, which may hang and may
\* ignore SIGTERM, nor of the launch.
FairSpec ==
    /\ Spec
    /\ WF_vars(Message) /\ WF_vars(Disconnect) /\ WF_vars(ProbeAborted)
    /\ WF_vars(StartupTimeout) /\ WF_vars(Closes)
    /\ \A c \in Children : WF_vars(ChildGone(c)) /\ WF_vars(Killed(c))

-----------------------------------------------------------------------------
TypeOK ==
    /\ up \in BOOLEAN
    /\ run \in [launch : {"launching", "launched", "failed"}, stopped : BOOLEAN]
    /\ plane \in PlaneState
    /\ close \in CloseState
    /\ child \in [Children -> ChildState]
    /\ worker \in WorkerState
    /\ wire \in WireState
    /\ inspection \in [Inspections -> Promise]

Complete == close.stage = "done" /\ close.failures = {}

\* A complete close report is true: neither child is left alive, and a worker
\* that could still be asked has said that its own cleanup completed
\* (close-report.ts, terminateAndReap).
HonestReport ==
    Complete =>
        /\ \A c \in Children : ~child[c].alive
        /\ WorkerReportExpected => plane.report = "complete"

\* What `ready` told the caller agrees with how the run ended: a run that was
\* ever admitted is never reported cancelled or timed out, one that was not is
\* never reported stopped, and a refused `ready` names the reason of the report.
OutcomeFitsReadiness ==
    /\ close.reason \in {"cancelled", "startup-timeout"} => plane.ready # "resolved"
    /\ close.reason = "stopped" => plane.ready = "resolved"
    /\ plane.ready \in StopReasons => plane.ready = close.reason

\* The crash law: once one child's crash has been observed both children die,
\* even a hung one and even if the control plane dies in the middle of the
\* close (plane-supervisor.ts runClose).
CrashedPlaneDies ==
    close.reason \in CrashReasons ~> \A c \in Children : ~child[c].alive

\* Every close ends in its report, whatever the children do.
CloseEnds == plane.state = "closing" ~> (plane.state = "closed" \/ ~up)

\* No inspection outlives the worker it was sent to: the facet settles it even
\* when its send raced the exit (worker-wire.ts markDead).
InspectionsSettle ==
    \A i \in Inspections :
        (inspection[i] = "sent" /\ ~child["worker"].alive) ~> (Settled(i) \/ ~up)

\* What a run's owner is told is true, in `ready` and in the report.
ReportsAreTrue == HonestReport /\ OutcomeFitsReadiness

\* What the owner of the run sees of the plane; a call that waits for the launch and one
\* that was sent are both asked.
Stage ==
    IF run.launch = "launching" THEN "launching"
    ELSE IF Live THEN "up"
    ELSE IF plane.state = "closing" THEN "ending" ELSE "over"

Asked(promise) == IF promise \in {"waiting", "sent"} THEN "asked" ELSE promise

Contract == INSTANCE RunContract WITH
    Calls <- Inspections,
    stage <- Stage,
    ready <- plane.ready,
    reason <- close.reason,
    clean <- Complete,
    alive <- {c \in Children : child[c].alive},
    call <- [i \in Inspections |-> Asked(inspection[i])]

\* The run keeps the contract its owner relies on, through every crash, stop, timeout and
\* late message: the children are started once, `ready` and the report settle once and
\* agree, a crash is reported of a child that is gone, and each inspection is accepted
\* only while the run lasts and settled at most once (project-runtime.ts, ProjectRun).
KeepsContract == Contract!Spec

\* Nobody waits for ever: neither the owner for the report nor a caller for the
\* answer to its inspection.
CallersSettle == CloseEnds /\ InspectionsSettle

\* A crash of either child is the end of both, and nobody waits for ever for a
\* plane that has come to its end.
PlaneComesToItsEnd == CrashedPlaneDies /\ CallersSettle

=============================================================================
