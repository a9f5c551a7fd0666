------------------------ MODULE PlaneSupervisorProofs -----------------------
(***************************************************************************)
(* Proofs that a plane's close report is true and agrees with what `ready` *)
(* said, for any set of inspections.                                       *)
(***************************************************************************)
EXTENDS PlaneSupervisor, SequenceTheorems, FiniteSetTheorems, TLAPS

\* What the supervisor has seen of a child is true of it.
SeenGone ==
    \A c \in Children :
        /\ child[c].gone => ~child[c].alive
        /\ child[c].ladder = "reaped" => child[c].gone

\* A graceful exit is claimed only of a worker whose exit was seen.
GracefulSeen == close.graceful => child["worker"].gone

\* Before the launch there is no child, and a failed launch leaves none.
Unlaunched ==
    /\ run.launch = "launching" => Live /\ ~plane.answered
    /\ run.launch = "failed" => plane.state = "closed" /\ ~plane.answered
    /\ run.launch # "launched" => \A c \in Children : ~child[c].alive /\ ~child[c].gone

\* The close sequence runs exactly while the plane closes.
CloseFollowsState ==
    /\ Live <=> close.stage = "none"
    /\ Live <=> close.reason = "none"
    /\ plane.state = "closed" <=> close.stage = "done"

\* `ready` is open exactly while the plane starts.
ReadyFollowsState ==
    /\ plane.state = "starting" <=> plane.ready = "pending"
    /\ plane.state = "running" => plane.ready = "resolved"

IInv ==
    /\ TypeOK
    /\ SeenGone
    /\ GracefulSeen
    /\ Unlaunched
    /\ CloseFollowsState
    /\ ReadyFollowsState
    /\ HonestReport
    /\ OutcomeFitsReadiness

-----------------------------------------------------------------------------

LEMMA Names ==
    /\ Children = {"worker", "managed-astro"}
    /\ CrashReasons = {"worker-crash", "managed-astro-crash"}
    /\ StopReasons = {"stopped", "cancelled", "startup-timeout",
                      "worker-crash", "managed-astro-crash"}
    /\ \A c \in Children : CrashReason(c) \in CrashReasons
<1>1. CrashReason("worker") = "worker-crash"
      /\ CrashReason("managed-astro") = "managed-astro-crash"
  BY DEF CrashReason
<1>2. CrashReasons = {"worker-crash", "managed-astro-crash"}
  BY <1>1 DEF CrashReasons, Children
<1> QED
  BY <1>1, <1>2 DEF Children, StopReasons

LEMMA InitEstablishes == Init => IInv
<1> SUFFICES ASSUME Init PROVE IInv
  OBVIOUS
<1>1. TypeOK
  <2>1. wire \in WireState
    BY EmptySeq DEF Init, WireState
  <2> QED
    BY <2>1 DEF Init, TypeOK, PlaneState, CloseState, ChildState, WorkerState, Promise,
             StopReasons, Categories
<1>2. SeenGone /\ GracefulSeen /\ Unlaunched
  BY DEF Init, SeenGone, GracefulSeen, Unlaunched, Live, Children
<1>3. CloseFollowsState /\ ReadyFollowsState
  BY DEF Init, CloseFollowsState, ReadyFollowsState, Live
<1>4. HonestReport /\ OutcomeFitsReadiness
  BY Names DEF Init, HonestReport, OutcomeFitsReadiness, Complete
<1> QED
  BY <1>1, <1>2, <1>3, <1>4 DEF IInv

-----------------------------------------------------------------------------
\* The terminal transition.

\* Whatever the reason, a close begun on a live plane keeps the supervisor's
\* own invariants, if the reason fits the plane and a crash was seen.
LEMMA InitiatePreserves ==
    ASSUME IInv, Live, NEW reason \in StopReasons,
           NEW children \in [Children -> ChildState],
           \A c \in Children :
                /\ children[c].gone => ~children[c].alive
                /\ children[c].ladder = "reaped" => children[c].gone,
           reason = "worker-crash" => children["worker"].gone,
           reason = "stopped" => plane.state = "running",
           reason \in {"cancelled", "startup-timeout"} => plane.state = "starting",
           InitiateClose(reason, plane, children)
    PROVE  /\ plane' \in PlaneState /\ close' \in CloseState
           /\ child' \in [Children -> ChildState]
           /\ plane'.state = "closing"
           /\ SeenGone' /\ GracefulSeen' /\ CloseFollowsState'
           /\ ReadyFollowsState' /\ HonestReport' /\ OutcomeFitsReadiness'
<1>1. plane \in PlaneState
  BY DEF IInv, TypeOK
<1>2. /\ plane' = [plane EXCEPT !.state = "closing",
                     !.ready = IF @ = "pending" THEN Rejection(reason) ELSE @]
      /\ close' = CloseBegun(reason)
      /\ child' = CrashKill(children, reason)
  BY DEF InitiateClose
<1>3. Rejection(reason) \in StopReasons \ {"stopped"}
  BY Names DEF Rejection
<1>4. plane' \in PlaneState /\ plane'.state = "closing"
      /\ plane'.ready = IF plane.ready = "pending" THEN Rejection(reason) ELSE plane.ready
  BY <1>1, <1>2, <1>3 DEF PlaneState
<1>5. /\ close' \in CloseState
      /\ close'.reason = reason /\ close'.stage \in {"graceful", "probes"}
      /\ close'.graceful <=> reason = "worker-crash"
  BY <1>2, Names DEF CloseBegun, CloseState
<1>6. /\ child' \in [Children -> ChildState]
      /\ \A c \in Children : /\ child'[c].gone = children[c].gone
                             /\ child'[c].alive = children[c].alive
                             /\ child'[c].ladder = children[c].ladder
  BY <1>2 DEF CrashKill, ChildState
<1>7. SeenGone'
  BY <1>6 DEF SeenGone
<1>8. GracefulSeen'
  BY <1>5, <1>6, Names DEF GracefulSeen
<1>9. CloseFollowsState'
  BY <1>4, <1>5, Names DEF CloseFollowsState, Live
<1>10. ReadyFollowsState'
  BY <1>3, <1>4, Names DEF ReadyFollowsState
<1>11. HonestReport'
  BY <1>5 DEF HonestReport, Complete
<1>12. OutcomeFitsReadiness'
  <2>1. plane.ready = "pending" \/ plane.ready = "resolved"
    BY DEF IInv, ReadyFollowsState, Live
  <2>2. plane.ready = "pending" <=> plane.state = "starting"
    BY DEF IInv, ReadyFollowsState
  <2> QED
    BY <1>3, <1>4, <1>5, <2>1, <2>2, Names DEF OutcomeFitsReadiness, Rejection
<1> QED
  BY <1>4, <1>5, <1>6, <1>7, <1>8, <1>9, <1>10, <1>11, <1>12

-----------------------------------------------------------------------------
\* Steps that leave the supervisor's own state alone.

LEMMA ElsewherePreserves ==
    ASSUME IInv, UNCHANGED <<run, plane, close, child>>
    PROVE  /\ SeenGone' /\ GracefulSeen' /\ Unlaunched' /\ CloseFollowsState'
           /\ ReadyFollowsState' /\ HonestReport' /\ OutcomeFitsReadiness'
BY DEF IInv, SeenGone, GracefulSeen, Unlaunched, CloseFollowsState, ReadyFollowsState,
       HonestReport, OutcomeFitsReadiness, Complete, WorkerReportExpected, Live

LEMMA SentTyped ==
    ASSUME TypeOK, NEW m \in ToWorker
    PROVE  [wire EXCEPT !.down = Sent(<<m>>)] \in WireState
<1>1. wire \in WireState /\ wire.down \in Seq(ToWorker)
  BY DEF TypeOK, WireState
<1>2. <<m>> \in Seq(ToWorker)
  OBVIOUS
<1>3. Sent(<<m>>) \in Seq(ToWorker)
  BY <1>1, <1>2, ConcatProperties DEF Sent
<1> QED
  BY <1>1, <1>3 DEF WireState

LEMMA DispatchPreserves ==
    ASSUME IInv, NEW i \in Inspections, Dispatch(i)
    PROVE  IInv'
<1>1. TypeOK
  BY DEF IInv
<1>2. UNCHANGED <<up, run, plane, close, child, worker>>
  BY DEF Dispatch
<1>3. inspection' \in [Inspections -> Promise]
  <2>1. run.launch \in {"launching", "launched", "failed"}
    BY <1>1 DEF TypeOK
  <2> DEFINE answer == IF run.stopped THEN "rejected"
            ELSE CASE run.launch = "launching" -> "waiting"
                   [] run.launch = "failed" -> "rejected"
                   [] run.launch = "launched" -> IF Refuses THEN "rejected" ELSE "sent"
  <2>2. answer \in Promise
    <3>1. CASE run.stopped
      BY <3>1 DEF Promise
    <3>2. CASE ~run.stopped /\ run.launch = "launching"
      BY <3>2 DEF Promise
    <3>3. CASE ~run.stopped /\ run.launch = "failed"
      BY <3>3 DEF Promise
    <3>4. CASE ~run.stopped /\ run.launch = "launched"
      BY <3>4 DEF Promise
    <3> QED
      BY <2>1, <3>1, <3>2, <3>3, <3>4
  <2>3. inspection' = [inspection EXCEPT ![i] = answer]
    BY DEF Dispatch
  <2> HIDE DEF answer
  <2> QED
    BY <1>1, <2>2, <2>3 DEF TypeOK
<1>4. wire' \in WireState
  <2>1. Inspect(i) \in ToWorker
    BY DEF Inspect, ToWorker
  <2>2. [wire EXCEPT !.down = Sent(<<Inspect(i)>>)] \in WireState
    BY <1>1, <2>1, SentTyped
  <2>3. wire' = [wire EXCEPT !.down = Sent(<<Inspect(i)>>)] \/ wire' = wire
    BY DEF Dispatch
  <2> QED
    BY <1>1, <2>2, <2>3 DEF TypeOK
<1>5. TypeOK'
  BY <1>1, <1>2, <1>3, <1>4 DEF TypeOK
<1> QED
  BY <1>2, <1>5, ElsewherePreserves DEF IInv

LEMMA DisconnectPreserves == ASSUME IInv, Disconnect PROVE IInv'
<1>1. TypeOK'
  BY DEF IInv, Disconnect, MarkDead, TypeOK, WireState, Promise
<1> QED
  BY <1>1, ElsewherePreserves DEF IInv, Disconnect

LEMMA WorkerPreserves ==
    ASSUME IInv,
           WorkerBoots \/ WorkerReads \/ WorkerOrphaned \/ ControlPlaneDies
             \/ \E i \in Inspections \cup {PROBE}, ok \in BOOLEAN : WorkerAnswers(i, ok)
    PROVE  IInv'
<1>1. TypeOK /\ worker \in WorkerState /\ wire \in WireState
      /\ wire.out \in Seq(FromWorker) /\ wire.down \in Seq(ToWorker)
  BY DEF IInv, TypeOK, WireState
<1>2. ASSUME NEW i \in Inspections \cup {PROBE}, NEW ok \in BOOLEAN
      PROVE  Sends(Result(i, ok)) \in Seq(FromWorker)
  <2>1. Result(i, ok) \in FromWorker
    BY DEF Result, FromWorker
  <2> QED
    BY <1>1, <2>1, AppendProperties DEF Sends
<1>3. UNCHANGED <<run, plane, close, child>>
  BY DEF WorkerBoots, WorkerReads, WorkerOrphaned, ControlPlaneDies, WorkerAnswers
<1>4. CASE WorkerBoots \/ WorkerOrphaned
  <2>1. worker' \in WorkerState
    BY <1>1, <1>4 DEF WorkerBoots, WorkerOrphaned, WorkerState
  <2>2. TypeOK'
    BY <1>1, <1>4, <2>1 DEF WorkerBoots, WorkerOrphaned, TypeOK
  <2> QED
    BY <1>3, <2>2, ElsewherePreserves DEF IInv
<1>5. CASE ControlPlaneDies
  <2>1. wire' \in WireState
    BY <1>1, <1>5, EmptySeq DEF ControlPlaneDies, WireState
  <2>2. TypeOK'
    BY <1>1, <1>5, <2>1 DEF ControlPlaneDies, TypeOK
  <2> QED
    BY <1>3, <2>2, ElsewherePreserves DEF IInv
<1>6. ASSUME NEW i \in Inspections \cup {PROBE}, NEW ok \in BOOLEAN, WorkerAnswers(i, ok)
      PROVE  IInv'
  <2>1. wire' \in WireState /\ worker' \in WorkerState
    BY <1>1, <1>2, <1>6 DEF WorkerAnswers, WireState, WorkerState
  <2>2. TypeOK'
    BY <1>1, <1>6, <2>1 DEF WorkerAnswers, TypeOK
  <2> QED
    BY <1>3, <2>2, ElsewherePreserves DEF IInv
<1>7. CASE WorkerReads
  <2> DEFINE m == Head(wire.down)
  <2>1. m \in ToWorker /\ Tail(wire.down) \in Seq(ToWorker)
    BY <1>1, <1>7, HeadTailProperties DEF WorkerReads
  <2>2. m.type = "inspect" => m.id \in Inspections \cup {PROBE}
    BY <2>1 DEF ToWorker
  <2>3. m.type = "inspect" => Sends(Result(m.id, FALSE)) \in Seq(FromWorker)
    BY <1>2, <2>2
  <2>4. [wire EXCEPT !.down = Tail(@)] \in WireState
    BY <1>1, <2>1 DEF WireState
  <2>5. \/ /\ worker' = [worker EXCEPT !.phase = "stopping"]
           /\ wire' = [wire EXCEPT !.down = Tail(@)]
        \/ /\ m.type = "inspect"
           /\ worker' = [worker EXCEPT !.inFlight = @ \cup {m.id}]
           /\ wire' = [wire EXCEPT !.down = Tail(@)]
        \/ /\ m.type = "inspect" /\ worker' = worker
           /\ wire' = [wire EXCEPT !.down = Tail(@), !.out = Sends(Result(m.id, FALSE))]
    BY <1>7 DEF WorkerReads
  <2> HIDE DEF m
  <2>6. wire' \in WireState /\ worker' \in WorkerState
    <3>1. m.type = "inspect" =>
            [wire EXCEPT !.down = Tail(@), !.out = Sends(Result(m.id, FALSE))] \in WireState
      BY <1>1, <2>1, <2>3 DEF WireState
    <3>2. m.type = "inspect" => [worker EXCEPT !.inFlight = @ \cup {m.id}] \in WorkerState
      BY <1>1, <2>2 DEF WorkerState
    <3>3. [worker EXCEPT !.phase = "stopping"] \in WorkerState
      BY <1>1 DEF WorkerState
    <3> QED
      BY <1>1, <2>4, <2>5, <3>1, <3>2, <3>3
  <2>7. TypeOK'
    BY <1>1, <1>7, <2>6 DEF WorkerReads, TypeOK
  <2> QED
    BY <1>3, <2>7, ElsewherePreserves DEF IInv
<1> QED
  BY <1>4, <1>5, <1>6, <1>7

\* A child's end only makes more of what was seen of it true.
LEMMA DiesPreserves ==
    ASSUME IInv, NEW c \in Children, Dies(c), wire' \in WireState,
           UNCHANGED <<up, run, plane, close, inspection>>
    PROVE  IInv'
<1>1. child' \in [Children -> ChildState]
      /\ \A d \in Children : /\ child'[d].gone = child[d].gone
                             /\ child'[d].ladder = child[d].ladder
                             /\ child'[d].alive => child[d].alive
  BY DEF IInv, TypeOK, Dies, ChildState
<1>2. worker' \in WorkerState
  BY DEF IInv, TypeOK, Dies, WorkerState
<1>3. TypeOK'
  BY <1>1, <1>2 DEF IInv, TypeOK
<1>4. SeenGone' /\ GracefulSeen' /\ Unlaunched'
  BY <1>1, Names DEF IInv, SeenGone, GracefulSeen, Unlaunched, Live
<1>5. CloseFollowsState' /\ ReadyFollowsState' /\ OutcomeFitsReadiness'
  BY DEF IInv, CloseFollowsState, ReadyFollowsState, OutcomeFitsReadiness, Live
<1>6. HonestReport'
  BY <1>1 DEF IInv, HonestReport, Complete, WorkerReportExpected
<1> QED
  BY <1>3, <1>4, <1>5, <1>6 DEF IInv

LEMMA ExitPreserves ==
    ASSUME IInv,
           \/ \E c \in Children : ChildExits(c)
           \/ \E outcome \in {"complete", "incomplete"} : WorkerCloses(outcome)
    PROVE  IInv'
<1>1. wire \in WireState /\ wire.out \in Seq(FromWorker)
  BY DEF IInv, TypeOK, WireState
<1>2. ASSUME NEW c \in Children, ChildExits(c) PROVE IInv'
  <2>1. wire' \in WireState
    BY <1>1, <1>2, EmptySeq DEF ChildExits, WireState
  <2> QED
    BY <1>2, <2>1, DiesPreserves DEF ChildExits
<1>3. ASSUME NEW outcome \in {"complete", "incomplete"}, WorkerCloses(outcome) PROVE IInv'
  <2>1. [type |-> "closed", outcome |-> outcome] \in FromWorker
    BY DEF FromWorker
  <2>2. Sends([type |-> "closed", outcome |-> outcome]) \in Seq(FromWorker)
    BY <1>1, <2>1, AppendProperties DEF Sends
  <2>3. wire' \in WireState
    BY <1>1, <1>3, <2>2, EmptySeq DEF WorkerCloses, WireState
  <2>4. "worker" \in Children
    BY Names
  <2> QED
    BY <1>3, <2>3, <2>4, DiesPreserves DEF WorkerCloses
<1> QED
  BY <1>2, <1>3

-----------------------------------------------------------------------------
\* What the supervisor sees.

LEMMA AdmittedFits ==
    ASSUME NEW p \in PlaneState,
           p.state = "starting" <=> p.ready = "pending",
           p.state = "running" => p.ready = "resolved"
    PROVE  /\ Admitted(p) \in PlaneState
           /\ Admitted(p).state = "starting" <=> Admitted(p).ready = "pending"
           /\ Admitted(p).state = "running" => Admitted(p).ready = "resolved"
           /\ p.state \notin {"starting"} => Admitted(p) = p
           /\ p.state = "starting" => Admitted(p).state \in {"starting", "running"}
           /\ Admitted(p).answered = p.answered /\ Admitted(p).report = p.report
BY DEF Admitted, PlaneState

\* A step that changes only what the plane has heard, before the plane closed.
LEMMA HeardPreserves ==
    ASSUME IInv, plane' \in PlaneState, UNCHANGED <<run, close, child>>,
           run.launch = "launched",
           plane.state = "closed" => plane' = [plane EXCEPT !.probe = plane'.probe],
           ~Live => plane'.state = plane.state /\ plane'.ready = plane.ready,
           Live => Live',
           plane'.state = "starting" <=> plane'.ready = "pending",
           plane'.state = "running" => plane'.ready = "resolved"
    PROVE  /\ SeenGone' /\ GracefulSeen' /\ Unlaunched' /\ CloseFollowsState'
           /\ ReadyFollowsState' /\ HonestReport' /\ OutcomeFitsReadiness'
<1>1. SeenGone' /\ GracefulSeen' /\ Unlaunched'
  BY DEF IInv, SeenGone, GracefulSeen, Unlaunched
<1>2. CloseFollowsState'
  <2>1. plane \in PlaneState
    BY DEF IInv, TypeOK
  <2> QED
    BY <2>1 DEF IInv, CloseFollowsState, Live, PlaneState
<1>3. ReadyFollowsState'
  BY DEF ReadyFollowsState
<1>4. HonestReport'
  <2>1. plane \in PlaneState /\ plane' \in PlaneState
    BY DEF IInv, TypeOK
  <2>2. Complete' => plane.state = "closed" /\ Complete
    BY DEF IInv, CloseFollowsState, Complete
  <2>3. plane.state = "closed" => plane'.answered = plane.answered
                                  /\ plane'.report = plane.report
    BY <2>1 DEF PlaneState
  <2> QED
    BY <2>2, <2>3 DEF IInv, HonestReport, WorkerReportExpected
<1>5. OutcomeFitsReadiness'
  <2>1. CASE Live
    <3>1. close.reason = "none"
      BY <2>1 DEF IInv, CloseFollowsState
    <3>2. plane'.ready \in {"pending", "resolved"}
      BY <2>1 DEF Live
    <3> QED
      BY <3>1, <3>2, Names DEF OutcomeFitsReadiness
  <2>2. CASE ~Live
    BY <2>2 DEF IInv, OutcomeFitsReadiness
  <2> QED
    BY <2>1, <2>2
<1> QED
  BY <1>1, <1>2, <1>3, <1>4, <1>5

LEMMA PlaneFacts ==
    ASSUME IInv
    PROVE  /\ plane \in PlaneState
           /\ plane.state = "starting" <=> plane.ready = "pending"
           /\ plane.state = "running" => plane.ready = "resolved"
BY DEF IInv, TypeOK, ReadyFollowsState

LEMMA MessagePreserves == ASSUME IInv, Message PROVE IInv'
<1> DEFINE m == Head(wire.out)
<1>1. wire \in WireState /\ wire.out \in Seq(FromWorker) /\ wire.out # <<>>
  BY DEF IInv, TypeOK, WireState, Message
<1>2. m \in FromWorker /\ Tail(wire.out) \in Seq(FromWorker)
  BY <1>1, HeadTailProperties
<1>3. HandleMessage(m) /\ wire' = [wire EXCEPT !.out = Tail(@)]
      /\ run.launch = "launched" /\ UNCHANGED <<up, run, close, child, worker>>
  BY DEF Message, Supervising
<1> HIDE DEF m
<1>4. wire' \in WireState
  BY <1>1, <1>2, <1>3 DEF WireState
<1>5. inspection' \in [Inspections -> Promise]
  <2>1. inspection \in [Inspections -> Promise]
    BY DEF IInv, TypeOK
  <2>2. \/ inspection' = inspection
        \/ inspection' = [inspection EXCEPT ![m.id] = Settlement(m.ok)]
    BY <1>3 DEF HandleMessage
  <2>3. Settlement(m.ok) \in Promise
    BY DEF Settlement, Promise
  <2> QED
    BY <2>1, <2>2, <2>3
<1> DEFINE heard == [plane EXCEPT !.answered = plane.answered \/ m.ok]
<1>6. \/ plane' = plane
      \/ /\ plane.state # "closed" /\ m.type = "inspect-result"
         /\ plane' = Admitted(heard)
      \/ /\ plane.state # "closed" /\ m.type = "closed"
         /\ plane' = [plane EXCEPT !.report = m.outcome]
  <2>1. CASE Listening /\ m.type = "inspect-result" /\ m.id = PROBE
    BY <1>3, <2>1 DEF HandleMessage, Listening
  <2>2. CASE Listening /\ m.type = "closed" /\ plane.report = "none"
    BY <1>3, <2>2 DEF HandleMessage, Listening
  <2>3. CASE /\ ~(Listening /\ m.type = "inspect-result" /\ m.id = PROBE)
             /\ ~(Listening /\ m.type = "closed" /\ plane.report = "none")
    BY <1>3, <2>3 DEF HandleMessage
  <2> QED
    BY <2>1, <2>2, <2>3
<1>7. /\ plane' \in PlaneState
      /\ plane.state = "closed" => plane' = plane
      /\ ~Live => plane'.state = plane.state /\ plane'.ready = plane.ready
      /\ Live => Live'
      /\ plane'.state = "starting" <=> plane'.ready = "pending"
      /\ plane'.state = "running" => plane'.ready = "resolved"
  <2>1. CASE plane' = plane
    BY <2>1, PlaneFacts DEF Live
  <2>2. CASE plane.state # "closed" /\ m.type = "inspect-result" /\ plane' = Admitted(heard)
    <3>1. m.ok \in BOOLEAN
      BY <1>2, <2>2 DEF FromWorker
    <3>2. /\ heard \in PlaneState /\ heard.state = plane.state /\ heard.ready = plane.ready
      BY <3>1, PlaneFacts DEF PlaneState
    <3> HIDE DEF heard
    <3> QED
      BY <2>2, <3>2, PlaneFacts, AdmittedFits DEF Live
  <2>3. CASE /\ plane.state # "closed" /\ m.type = "closed"
             /\ plane' = [plane EXCEPT !.report = m.outcome]
    <3>1. m.outcome \in {"complete", "incomplete"}
      BY <1>2, <2>3 DEF FromWorker
    <3> QED
      BY <2>3, <3>1, PlaneFacts DEF PlaneState, Live
  <2> QED
    BY <1>6, <2>1, <2>2, <2>3
<1>8. plane.state = "closed" => plane' = [plane EXCEPT !.probe = plane'.probe]
  BY <1>7, PlaneFacts DEF PlaneState
<1>9. TypeOK'
  BY <1>3, <1>4, <1>5, <1>7 DEF IInv, TypeOK
<1> QED
  BY <1>3, <1>7, <1>8, <1>9, HeardPreserves DEF IInv

LEMMA ProbePreserves == ASSUME IInv, ProbeServed \/ ProbeAborted PROVE IInv'
<1>1. run.launch = "launched"
      /\ UNCHANGED <<up, run, close, child, worker, wire, inspection>>
  BY DEF ProbeServed, ProbeAborted, Supervising
<1>2. /\ plane' \in PlaneState
      /\ plane.state = "closed" => plane' = [plane EXCEPT !.probe = plane'.probe]
      /\ ~Live => plane'.state = plane.state /\ plane'.ready = plane.ready
      /\ Live => Live'
      /\ plane'.state = "starting" <=> plane'.ready = "pending"
      /\ plane'.state = "running" => plane'.ready = "resolved"
  <2>1. CASE ProbeAborted
    <3>1. plane' = [plane EXCEPT !.probe = "aborted"] /\ ~Live
      BY <2>1 DEF ProbeAborted
    <3> QED
      BY <3>1, PlaneFacts DEF PlaneState, Live
  <2>2. CASE ProbeServed
    <3> DEFINE served == [plane EXCEPT !.probe = "ready"]
    <3>1. plane' = Admitted(served)
      BY <2>2 DEF ProbeServed
    <3>2. /\ served \in PlaneState /\ served.state = plane.state
          /\ served.ready = plane.ready /\ served.probe = "ready"
      BY PlaneFacts DEF PlaneState
    <3>3. plane.state = "closed" => plane' = served
      BY <3>1, <3>2, AdmittedFits, PlaneFacts
    <3>4. plane.state = "closed" => plane' = [plane EXCEPT !.probe = plane'.probe]
      BY <3>2, <3>3
    <3> HIDE DEF served
    <3> QED
      BY <3>1, <3>2, <3>4, PlaneFacts, AdmittedFits DEF Live
  <2> QED
    BY <2>1, <2>2
<1>3. TypeOK'
  BY <1>1, <1>2 DEF IInv, TypeOK
<1> QED
  BY <1>1, <1>2, <1>3, HeardPreserves DEF IInv

-----------------------------------------------------------------------------
\* The steps that begin a close.

LEMMA StartupTimeoutPreserves == ASSUME IInv, StartupTimeout PROVE IInv'
<1>1. /\ InitiateClose("startup-timeout", plane, child) /\ Live /\ run.launch = "launched"
      /\ plane.state = "starting" /\ child \in [Children -> ChildState]
      /\ wire' = [wire EXCEPT !.down = Sent(<<STOP>>)]
      /\ UNCHANGED <<up, run, worker, inspection>>
  BY DEF StartupTimeout, Supervising, Live, IInv, TypeOK
<1>2. \A c \in Children :
        /\ child[c].gone => ~child[c].alive
        /\ child[c].ladder = "reaped" => child[c].gone
  BY DEF IInv, SeenGone
<1>3. /\ plane' \in PlaneState /\ close' \in CloseState
      /\ child' \in [Children -> ChildState]
      /\ SeenGone' /\ GracefulSeen' /\ CloseFollowsState'
      /\ ReadyFollowsState' /\ HonestReport' /\ OutcomeFitsReadiness'
  BY <1>1, <1>2, InitiatePreserves, Names
<1>4. wire' \in WireState
  BY <1>1, SentTyped DEF STOP, ToWorker, IInv
<1>5. TypeOK'
  BY <1>1, <1>3, <1>4 DEF IInv, TypeOK
<1>6. Unlaunched'
  BY <1>1 DEF Unlaunched
<1> QED
  BY <1>3, <1>5, <1>6 DEF IInv

LEMMA ChildGonePreserves ==
    ASSUME IInv, NEW c \in Children, ChildGone(c)
    PROVE  IInv'
<1>0. \/ MarkDead /\ wire' = [wire EXCEPT !.dead = TRUE]
      \/ inspection' = inspection /\ wire' = wire
  <2>1. IF c = "worker" THEN MarkDead /\ wire' = [wire EXCEPT !.dead = TRUE]
        ELSE UNCHANGED <<inspection, wire>>
    BY Zenon DEF ChildGone
  <2> QED
    BY <2>1
<1> DEFINE seen == [child EXCEPT ![c].gone = TRUE]
<1>1. /\ ~child[c].alive /\ run.launch = "launched"
      /\ UNCHANGED <<up, run, worker>>
      /\ IF Live THEN InitiateClose(CrashReason(c), plane, seen)
         ELSE child' = seen /\ UNCHANGED <<plane, close>>
  BY DEF ChildGone, Supervising
<1>2. /\ seen \in [Children -> ChildState]
      /\ seen[c].gone
      /\ \A d \in Children :
            /\ seen[d].gone => ~seen[d].alive
            /\ seen[d].ladder = "reaped" => seen[d].gone
            /\ child[d].gone => seen[d].gone
            /\ seen[d].alive = child[d].alive
  BY <1>1 DEF IInv, TypeOK, SeenGone, ChildState
<1>3. wire' \in WireState /\ inspection' \in [Inspections -> Promise]
  <2>1. wire \in WireState /\ inspection \in [Inspections -> Promise]
    BY DEF IInv, TypeOK
  <2>2. [wire EXCEPT !.dead = TRUE] \in WireState
    BY <2>1 DEF WireState
  <2>3. MarkDead => inspection' \in [Inspections -> Promise]
    BY <2>1 DEF MarkDead, Promise
  <2> QED
    BY <1>0, <2>1, <2>2, <2>3
<1> HIDE DEF seen
<1>4. Unlaunched'
  BY <1>1 DEF Unlaunched
<1>5. CASE Live
  <2>1. /\ CrashReason(c) \in StopReasons \cap CrashReasons
        /\ CrashReason(c) = "worker-crash" => c = "worker"
    BY Names DEF CrashReason
  <2>2. /\ plane' \in PlaneState /\ close' \in CloseState
        /\ child' \in [Children -> ChildState]
        /\ SeenGone' /\ GracefulSeen' /\ CloseFollowsState'
        /\ ReadyFollowsState' /\ HonestReport' /\ OutcomeFitsReadiness'
    BY <1>1, <1>2, <1>5, <2>1, InitiatePreserves, Names
  <2>3. TypeOK'
    BY <1>1, <1>3, <2>2 DEF IInv, TypeOK
  <2> QED
    BY <1>4, <2>2, <2>3 DEF IInv
<1>6. CASE ~Live
  <2>1. child' = seen /\ UNCHANGED <<run, plane, close>>
    BY <1>1, <1>6
  <2>2. SeenGone' /\ GracefulSeen'
    BY <1>2, <2>1, Names DEF IInv, SeenGone, GracefulSeen
  <2>3. CloseFollowsState' /\ ReadyFollowsState' /\ OutcomeFitsReadiness'
    BY <2>1 DEF IInv, CloseFollowsState, ReadyFollowsState, OutcomeFitsReadiness, Live
  <2>4. HonestReport'
    BY <1>2, <2>1 DEF IInv, HonestReport, Complete, WorkerReportExpected
  <2>5. TypeOK'
    BY <1>1, <1>2, <1>3, <2>1 DEF IInv, TypeOK
  <2> QED
    BY <1>4, <2>2, <2>3, <2>4, <2>5 DEF IInv
<1> QED
  BY <1>5, <1>6

LEMMA StopReasonFits ==
    ASSUME IInv, Live
    PROVE  /\ StopReason \in StopReasons \ CrashReasons
           /\ StopReason = "stopped" => plane.state = "running"
           /\ StopReason \in {"cancelled", "startup-timeout"} => plane.state = "starting"
BY Names DEF StopReason, Live

LEMMA StopPreserves == ASSUME IInv, Stop PROVE IInv'
<1>1. Live /\ run.launch # "failed" /\ run' = [run EXCEPT !.stopped = TRUE]
      /\ UNCHANGED <<up, worker, inspection>>
  BY DEF Stop
<1>2. run \in [launch : {"launching", "launched", "failed"}, stopped : BOOLEAN]
      /\ run' \in [launch : {"launching", "launched", "failed"}, stopped : BOOLEAN]
      /\ run'.launch = run.launch
  BY <1>1 DEF IInv, TypeOK
<1>3. CASE run.launch = "launched"
  <2>1. /\ InitiateClose(StopReason, plane, child)
        /\ wire' = [wire EXCEPT !.down = Sent(<<STOP>>)]
    BY <1>3 DEF Stop
  <2>2. /\ child \in [Children -> ChildState]
        /\ \A c \in Children :
            /\ child[c].gone => ~child[c].alive
            /\ child[c].ladder = "reaped" => child[c].gone
    BY DEF IInv, TypeOK, SeenGone
  <2>3. /\ plane' \in PlaneState /\ close' \in CloseState
        /\ child' \in [Children -> ChildState]
        /\ SeenGone' /\ GracefulSeen' /\ CloseFollowsState'
        /\ ReadyFollowsState' /\ HonestReport' /\ OutcomeFitsReadiness'
    BY <1>1, <2>1, <2>2, StopReasonFits, InitiatePreserves, Names
  <2>4. wire' \in WireState
    BY <2>1, SentTyped DEF STOP, ToWorker, IInv
  <2>5. TypeOK'
    BY <1>1, <1>2, <2>3, <2>4 DEF IInv, TypeOK
  <2>6. Unlaunched'
    BY <1>2, <1>3 DEF Unlaunched
  <2> QED
    BY <2>3, <2>5, <2>6 DEF IInv
<1>4. CASE run.launch # "launched"
  <2>1. UNCHANGED <<plane, close, child, wire>>
    BY <1>4 DEF Stop
  <2>2. TypeOK'
    BY <1>1, <1>2, <2>1 DEF IInv, TypeOK
  <2>3. SeenGone' /\ GracefulSeen' /\ Unlaunched'
    BY <1>2, <2>1 DEF IInv, SeenGone, GracefulSeen, Unlaunched, Live
  <2>4. CloseFollowsState' /\ ReadyFollowsState' /\ OutcomeFitsReadiness' /\ HonestReport'
    BY <2>1 DEF IInv, CloseFollowsState, ReadyFollowsState, OutcomeFitsReadiness, Live,
                HonestReport, Complete, WorkerReportExpected
  <2> QED
    BY <2>2, <2>3, <2>4 DEF IInv
<1> QED
  BY <1>3, <1>4

\* The calls that waited for the launch form a finite sequence of inspections.
LEMMA LaunchMessages ==
    ASSUME NEW W \in SUBSET Inspections, NEW waiting \in SetToSeqs(W),
           NEW tail \in Seq(ToWorker)
    PROVE  <<Inspect(PROBE)>> \o [n \in DOMAIN waiting |-> Inspect(waiting[n])] \o tail
                \in Seq(ToWorker)
<1>1. IsFiniteSet(W)
  BY PlaneAssumption, FS_Subset
<1>2. Cardinality(W) \in Nat
  BY <1>1, FS_CardinalityType
<1>3. waiting \in [1 .. Cardinality(W) -> W]
  BY DEF SetToSeqs
<1>4. \A i \in Inspections \cup {PROBE} : Inspect(i) \in ToWorker
  BY DEF Inspect, ToWorker
<1> DEFINE mid == [n \in DOMAIN waiting |-> Inspect(waiting[n])]
<1>5. mid \in [1 .. Cardinality(W) -> ToWorker]
  BY <1>3, <1>4
<1>6. mid \in Seq(ToWorker)
  BY <1>2, <1>5, IsASeq
<1>7. <<Inspect(PROBE)>> \in Seq(ToWorker)
  BY <1>4
<1> HIDE DEF mid
<1>8. <<Inspect(PROBE)>> \o mid \in Seq(ToWorker)
  BY <1>6, <1>7, ConcatProperties
<1>9. (<<Inspect(PROBE)>> \o mid) \o tail \in Seq(ToWorker)
  BY <1>8, ConcatProperties
<1> QED
  BY <1>9 DEF mid

LEMMA LaunchPreserves == ASSUME IInv, Launch PROVE IInv'
<1> DEFINE spawned == [c \in Children |-> [child[c] EXCEPT !.alive = TRUE]]
<1>1. /\ run.launch = "launching" /\ run' = [run EXCEPT !.launch = "launched"]
      /\ UNCHANGED <<up, worker>>
      /\ inspection' = [i \in Inspections |->
                        IF inspection[i] = "waiting" THEN "sent" ELSE inspection[i]]
      /\ IF run.stopped THEN InitiateClose(StopReason, plane, spawned)
         ELSE child' = spawned /\ UNCHANGED <<plane, close>>
  BY DEF Launch
<1>2. Live /\ \A c \in Children : ~child[c].gone
  BY <1>1 DEF IInv, Unlaunched
<1>3. /\ spawned \in [Children -> ChildState]
      /\ \A c \in Children : ~spawned[c].gone /\ spawned[c].ladder # "reaped"
  BY <1>2 DEF IInv, TypeOK, SeenGone, ChildState
<1>4. wire' \in WireState
  <2>1. PICK waiting \in SetToSeqs({i \in Inspections : inspection[i] = "waiting"}) :
          wire' = [down |-> <<Inspect(PROBE)>>
                              \o [n \in DOMAIN waiting |-> Inspect(waiting[n])]
                              \o IF run.stopped THEN <<STOP>> ELSE <<>>,
                   out |-> <<>>, connected |-> TRUE, dead |-> FALSE]
    BY DEF Launch
  <2>2. (IF run.stopped THEN <<STOP>> ELSE <<>>) \in Seq(ToWorker)
    <3>1. STOP \in ToWorker
      BY DEF STOP, ToWorker
    <3>2. <<STOP>> \in Seq(ToWorker) /\ <<>> \in Seq(ToWorker)
      BY <3>1, EmptySeq
    <3> QED
      BY <3>2
  <2>3. wire'.down \in Seq(ToWorker)
    BY <2>1, <2>2, LaunchMessages
  <2> QED
    BY <2>1, <2>3, EmptySeq DEF WireState
<1>5. inspection' \in [Inspections -> Promise]
  BY <1>1 DEF IInv, TypeOK, Promise
<1>6. run' \in [launch : {"launching", "launched", "failed"}, stopped : BOOLEAN]
      /\ run'.launch = "launched"
  BY <1>1 DEF IInv, TypeOK
<1>7. Unlaunched'
  BY <1>6 DEF Unlaunched
<1> HIDE DEF spawned
<1>8. CASE run.stopped
  <2>1. InitiateClose(StopReason, plane, spawned)
    BY <1>1, <1>8
  <2>2. /\ plane' \in PlaneState /\ close' \in CloseState
        /\ child' \in [Children -> ChildState]
        /\ SeenGone' /\ GracefulSeen' /\ CloseFollowsState'
        /\ ReadyFollowsState' /\ HonestReport' /\ OutcomeFitsReadiness'
    BY <1>2, <1>3, <2>1, StopReasonFits, InitiatePreserves, Names
  <2>3. TypeOK'
    BY <1>1, <1>4, <1>5, <1>6, <2>2 DEF IInv, TypeOK
  <2> QED
    BY <1>7, <2>2, <2>3 DEF IInv
<1>9. CASE ~run.stopped
  <2>1. child' = spawned /\ UNCHANGED <<plane, close>>
    BY <1>1, <1>9
  <2>2. SeenGone'
    BY <1>3, <2>1 DEF SeenGone
  <2>3. GracefulSeen'
    <3>1. ~close.graceful
      BY <1>2, Names DEF IInv, GracefulSeen
    <3> QED
      BY <2>1, <3>1 DEF GracefulSeen
  <2>4. CloseFollowsState' /\ ReadyFollowsState' /\ OutcomeFitsReadiness'
    BY <2>1 DEF IInv, CloseFollowsState, ReadyFollowsState, OutcomeFitsReadiness, Live
  <2>5. HonestReport'
    BY <1>2, <2>1 DEF IInv, CloseFollowsState, HonestReport, Complete
  <2>6. TypeOK'
    BY <1>1, <1>3, <1>4, <1>5, <1>6, <2>1 DEF IInv, TypeOK
  <2> QED
    BY <1>7, <2>2, <2>3, <2>4, <2>5, <2>6 DEF IInv
<1> QED
  BY <1>8, <1>9

LEMMA LaunchFailsPreserves == ASSUME IInv, LaunchFails PROVE IInv'
<1>1. /\ run.launch = "launching" /\ Live /\ ~plane.answered
      /\ \A c \in Children : ~child[c].alive /\ ~child[c].gone
  BY DEF LaunchFails, IInv, Unlaunched
<1>2. /\ run' \in [launch : {"launching", "launched", "failed"}, stopped : BOOLEAN]
      /\ run'.launch = "failed"
  BY DEF LaunchFails, IInv, TypeOK
<1>3. /\ plane' \in PlaneState /\ plane'.state = "closed"
      /\ plane'.ready = "launch-failed" /\ ~plane'.answered
  BY <1>1 DEF LaunchFails, IInv, TypeOK, PlaneState
<1>4. /\ close' \in CloseState /\ close'.reason = "cancelled" /\ close'.stage = "done"
      /\ close'.graceful = close.graceful
  BY Names DEF LaunchFails, IInv, TypeOK, CloseState
<1>5. inspection' \in [Inspections -> Promise] /\ UNCHANGED <<up, child, worker, wire>>
  BY DEF LaunchFails, IInv, TypeOK, Promise
<1>6. TypeOK'
  BY <1>2, <1>3, <1>4, <1>5 DEF IInv, TypeOK
<1>7. SeenGone' /\ GracefulSeen' /\ Unlaunched'
  BY <1>1, <1>2, <1>3, <1>4, <1>5 DEF IInv, SeenGone, GracefulSeen, Unlaunched
<1>8. CloseFollowsState' /\ ReadyFollowsState'
  BY <1>3, <1>4 DEF CloseFollowsState, ReadyFollowsState, Live
<1>9. HonestReport' /\ OutcomeFitsReadiness'
  BY <1>1, <1>3, <1>4, <1>5, Names
     DEF HonestReport, Complete, WorkerReportExpected, OutcomeFitsReadiness
<1> QED
  BY <1>6, <1>7, <1>8, <1>9 DEF IInv

-----------------------------------------------------------------------------
\* runClose's awaited steps.

\* A step of the close sequence before its report, with no new sight of a child.
LEMMA CloseStepPreserves ==
    ASSUME IInv, Supervising, close.stage \in {"graceful", "probes", "reaping"},
           UNCHANGED <<up, run, plane, worker, wire, inspection>>,
           close' \in CloseState, close'.reason = close.reason,
           close'.stage \in {"graceful", "probes", "reaping"},
           close'.graceful => child["worker"].gone,
           child' \in [Children -> ChildState],
           \A c \in Children :
                /\ child'[c].alive = child[c].alive /\ child'[c].gone = child[c].gone
                /\ child'[c].ladder = "reaped" => child[c].gone
    PROVE  IInv'
<1>1. TypeOK'
  BY DEF IInv, TypeOK
<1>2. SeenGone' /\ GracefulSeen' /\ Unlaunched'
  BY Names DEF IInv, SeenGone, GracefulSeen, Unlaunched, Supervising
<1>3. CloseFollowsState' /\ ReadyFollowsState' /\ OutcomeFitsReadiness'
  BY DEF IInv, CloseFollowsState, ReadyFollowsState, OutcomeFitsReadiness, Live
<1>4. HonestReport'
  BY DEF HonestReport, Complete
<1> QED
  BY <1>1, <1>2, <1>3, <1>4 DEF IInv

LEMMA GracefulEndsPreserves == ASSUME IInv, GracefulEnds PROVE IInv'
<1>1. /\ close' \in CloseState /\ close'.reason = close.reason
      /\ close'.stage = "probes" /\ close'.graceful = WorkerClosed
  BY DEF GracefulEnds, IInv, TypeOK, CloseState, WorkerClosed, PlaneState
<1>2. close'.graceful => child["worker"].gone
  BY <1>1 DEF WorkerClosed
<1>3. /\ Supervising /\ close.stage = "graceful"
      /\ UNCHANGED <<up, run, plane, child, worker, wire, inspection>>
  BY DEF GracefulEnds
<1>4. child' \in [Children -> ChildState]
      /\ \A c \in Children : child'[c].ladder = "reaped" => child[c].gone
  BY <1>3 DEF IInv, TypeOK, SeenGone
<1> QED
  BY <1>1, <1>2, <1>3, <1>4, CloseStepPreserves

LEMMA ProbesEndPreserves == ASSUME IInv, ProbesEnd PROVE IInv'
<1>1. /\ Supervising /\ close.stage = "probes"
      /\ UNCHANGED <<up, run, plane, worker, wire, inspection>>
      /\ close' = [close EXCEPT !.stage = "reaping", !.probes = plane.probe # "trying"]
      /\ child' = [c \in Children |-> TermSent(c)]
  BY DEF ProbesEnd
<1>2. /\ close' \in CloseState /\ close'.reason = close.reason
      /\ close'.stage = "reaping" /\ close'.graceful = close.graceful
  BY <1>1 DEF IInv, TypeOK, CloseState
<1>3. \A c \in Children :
        /\ TermSent(c) \in ChildState /\ TermSent(c).alive = child[c].alive
        /\ TermSent(c).gone = child[c].gone /\ TermSent(c).ladder = "term"
  BY DEF TermSent, IInv, TypeOK, ChildState
<1>4. child' \in [Children -> ChildState]
      /\ \A c \in Children : /\ child'[c].alive = child[c].alive
                             /\ child'[c].gone = child[c].gone
                             /\ child'[c].ladder = "term"
  BY <1>1, <1>3
<1>5. close'.graceful => child["worker"].gone
  BY <1>2 DEF IInv, GracefulSeen
<1> QED
  BY <1>1, <1>2, <1>4, <1>5, CloseStepPreserves

\* A rung of one child's ladder.
LEMMA LadderPreserves ==
    ASSUME IInv, NEW c \in Children, Reaped(c) \/ TermExpires(c) \/ KillExpires(c)
    PROVE  IInv'
<1>1. run.launch = "launched"
      /\ UNCHANGED <<up, run, plane, close, worker, wire, inspection>>
  BY DEF Reaped, TermExpires, KillExpires, Supervising
<1>2. child' \in [Children -> ChildState]
      /\ \A d \in Children : /\ child'[d].alive = child[d].alive
                             /\ child'[d].gone = child[d].gone
                             /\ child'[d].ladder = "reaped" => child[d].gone
  BY DEF Reaped, TermExpires, KillExpires, IInv, TypeOK, SeenGone, ChildState
<1>3. TypeOK'
  BY <1>1, <1>2 DEF IInv, TypeOK
<1>4. SeenGone' /\ GracefulSeen' /\ Unlaunched'
  BY <1>1, <1>2, Names DEF IInv, SeenGone, GracefulSeen, Unlaunched
<1>5. CloseFollowsState' /\ ReadyFollowsState' /\ OutcomeFitsReadiness'
  BY <1>1 DEF IInv, CloseFollowsState, ReadyFollowsState, OutcomeFitsReadiness, Live
<1>6. HonestReport'
  BY <1>1, <1>2 DEF IInv, HonestReport, Complete, WorkerReportExpected
<1> QED
  BY <1>3, <1>4, <1>5, <1>6 DEF IInv

\* The report: no failure means every category was checked against what was seen.
LEMMA ClosedPreserves == ASSUME IInv, Closed PROVE IInv'
<1>1. /\ run.launch = "launched" /\ close.stage = "reaping"
      /\ plane' = [plane EXCEPT !.state = "closed"]
      /\ close' = [close EXCEPT !.stage = "done",
                                !.failures = {c \in Categories : Failed(c)}]
      /\ UNCHANGED <<up, run, child, worker, wire, inspection>>
  BY DEF Closed, Supervising
<1>2. plane \in PlaneState /\ close \in CloseState
  BY DEF IInv, TypeOK
<1>3. /\ plane' \in PlaneState /\ plane'.state = "closed" /\ plane'.ready = plane.ready
      /\ plane'.answered = plane.answered /\ plane'.report = plane.report
  BY <1>1, <1>2 DEF PlaneState
<1>4. /\ close' \in CloseState /\ close'.stage = "done" /\ close'.reason = close.reason
      /\ close'.graceful = close.graceful
      /\ close'.failures = {c \in Categories : Failed(c)}
  BY <1>1, <1>2 DEF CloseState
<1>5. TypeOK'
  BY <1>1, <1>3, <1>4 DEF IInv, TypeOK
<1>6. ~Live
  BY <1>1 DEF IInv, CloseFollowsState
<1>7. SeenGone' /\ GracefulSeen' /\ Unlaunched'
  BY <1>1, <1>4 DEF IInv, SeenGone, GracefulSeen, Unlaunched
<1>8. CloseFollowsState' /\ ReadyFollowsState' /\ OutcomeFitsReadiness'
  BY <1>3, <1>4, <1>6 DEF IInv, CloseFollowsState, ReadyFollowsState,
     OutcomeFitsReadiness, Live
<1>9. HonestReport'
  <2> SUFFICES ASSUME {c \in Categories : Failed(c)} = {}
               PROVE  /\ \A c \in Children : ~child[c].alive
                      /\ WorkerReportExpected => plane.report = "complete"
    BY <1>1, <1>3, <1>4 DEF HonestReport, Complete, WorkerReportExpected
  <2>1. /\ ~Failed("worker-reap") /\ ~Failed("managed-astro-reap")
        /\ ~Failed("worker-close-report") /\ ~Failed("worker-cleanup-incomplete")
    BY DEF Categories
  <2>2. close.graceful \/ child["worker"].ladder = "reaped"
    BY <2>1 DEF Failed
  <2>3. child["managed-astro"].ladder = "reaped"
    BY <2>1 DEF Failed
  <2>4. \A c \in Children : ~child[c].alive
    BY <2>2, <2>3, Names DEF IInv, SeenGone, GracefulSeen
  <2>5. WorkerReportExpected => plane.report # "none"
    BY <2>1 DEF Failed
  <2>6. plane.report # "incomplete"
    BY <2>1 DEF Failed
  <2>7. plane.report \in {"none", "complete", "incomplete"}
    BY <1>2 DEF PlaneState
  <2> QED
    BY <2>4, <2>5, <2>6, <2>7
<1> QED
  BY <1>5, <1>7, <1>8, <1>9 DEF IInv

-----------------------------------------------------------------------------

LEMMA StutterPreserves == ASSUME IInv, UNCHANGED vars PROVE IInv'
<1>1. TypeOK'
  BY DEF IInv, TypeOK, vars
<1> QED
  BY <1>1, ElsewherePreserves DEF IInv, vars

\* The plane's inductive invariant: what the supervisor believes of its children
\* is true, and its report, its state and `ready` agree.
THEOREM PlaneInvariant == Spec => []IInv
<1>1. Init => IInv
  BY InitEstablishes
<1>2. IInv /\ [Next]_vars => IInv'
  <2> SUFFICES ASSUME IInv, [Next]_vars PROVE IInv'
    OBVIOUS
  <2>1. CASE CallerStep
    BY <2>1, StopPreserves, DispatchPreserves DEF CallerStep
  <2>2. CASE LaunchStep
    BY <2>2, LaunchPreserves, LaunchFailsPreserves DEF LaunchStep
  <2>3. CASE Observes
    BY <2>3, MessagePreserves, DisconnectPreserves, ProbePreserves, ChildGonePreserves
       DEF Observes
  <2>4. CASE StartupTimeout
    BY <2>4, StartupTimeoutPreserves
  <2>5. CASE Closes
    BY <2>5, GracefulEndsPreserves, ProbesEndPreserves, ClosedPreserves, LadderPreserves
       DEF Closes
  <2>6. CASE WorkerStep
    BY <2>6, WorkerPreserves, ExitPreserves DEF WorkerStep
  <2>7. CASE Environment
    BY <2>7, ProbePreserves, WorkerPreserves, ExitPreserves DEF Environment
  <2>8. CASE UNCHANGED vars
    BY <2>8, StutterPreserves
  <2> QED
    BY <2>1, <2>2, <2>3, <2>4, <2>5, <2>6, <2>7, <2>8 DEF Next
<1> QED
  BY <1>1, <1>2, PTL DEF Spec

\* The supervisor, the children and the wire stay well typed.
THEOREM PlaneTypeOK == Spec => []TypeOK
<1>1. IInv => TypeOK
  BY DEF IInv
<1> QED
  BY <1>1, PlaneInvariant, PTL

\* A complete close report is true of both children and of the worker's cleanup.
THEOREM PlaneHonestReport == Spec => []HonestReport
<1>1. IInv => HonestReport
  BY DEF IInv
<1> QED
  BY <1>1, PlaneInvariant, PTL

\* What `ready` said and what the report says are the same run's outcome.
THEOREM PlaneOutcome == Spec => []OutcomeFitsReadiness
<1>1. IInv => OutcomeFitsReadiness
  BY DEF IInv
<1> QED
  BY <1>1, PlaneInvariant, PTL

\* What a run's owner is told is true, in `ready` and in the close report
\* (close-report.ts, plane-supervisor.ts initiateClose and stop).
THEOREM PlaneReportsAreTrue == Spec => []ReportsAreTrue
<1>1. HonestReport /\ OutcomeFitsReadiness => ReportsAreTrue
  BY DEF ReportsAreTrue
<1> QED
  BY <1>1, PlaneHonestReport, PlaneOutcome, PTL

-----------------------------------------------------------------------------
\* The contract with the owner of the run.

\* Before the launch the plane is as it was made and no inspection was sent, and a
\* close that is not over has nothing to report.
Fresh ==
    /\ run.launch = "launching" =>
          plane.state = "starting" /\ \A i \in Inspections : inspection[i] # "sent"
    /\ close.stage # "done" => close.failures = {}

LEMMA FreshHolds == IInv /\ Fresh /\ [Next]_vars => Fresh'
<1> SUFFICES ASSUME IInv, Fresh, [Next]_vars PROVE Fresh'
  OBVIOUS
<1>1. plane \in PlaneState /\ close \in CloseState /\ inspection \in [Inspections -> Promise]
  BY DEF IInv, TypeOK
<1>r. run \in [launch : {"launching", "launched", "failed"}, stopped : BOOLEAN]
  BY DEF IInv, TypeOK
<1>2. ASSUME NEW reason, NEW p, NEW children, InitiateClose(reason, p, children)
      PROVE  close'.failures = {}
  BY <1>2 DEF InitiateClose, CloseBegun
<1>3. CASE CallerStep
  <2>1. CASE Stop
    BY <1>1, <1>2, <2>1 DEF Stop, Fresh
  <2>2. ASSUME NEW i \in Inspections, Dispatch(i) PROVE Fresh'
    BY <1>1, <2>2 DEF Dispatch, Fresh
  <2> QED
    BY <1>3, <2>1, <2>2 DEF CallerStep
<1>4. CASE LaunchStep
  <2>1. CASE Launch
    <3>1. run'.launch = "launched"
      BY <1>r, <2>1 DEF Launch
    <3>2. close' = close \/ close'.failures = {}
      BY <1>2, <2>1 DEF Launch
    <3> QED
      BY <3>1, <3>2 DEF Fresh
  <2>2. CASE LaunchFails
    <3>1. run'.launch = "failed" /\ close'.stage = "done"
      BY <1>1, <1>r, <2>2 DEF LaunchFails, CloseState
    <3> QED
      BY <3>1 DEF Fresh
  <2> QED
    BY <1>4, <2>1, <2>2 DEF LaunchStep
<1>5. CASE Observes \/ StartupTimeout \/ ProbeServed
  <2>1. run.launch = "launched" /\ run' = run
    BY <1>5 DEF Observes, Message, Disconnect, ProbeAborted, ChildGone, StartupTimeout,
                ProbeServed, Supervising
  <2>2. close' = close \/ close'.failures = {}
    BY <1>2, <1>5 DEF Observes, Message, Disconnect, ProbeAborted, ChildGone,
                      StartupTimeout, ProbeServed
  <2> QED
    BY <2>1, <2>2 DEF Fresh
<1>6. CASE Closes
  BY <1>1, <1>6 DEF Closes, GracefulEnds, ProbesEnd, Closed, Reaped, TermExpires,
                    KillExpires, Supervising, Fresh, CloseState
<1>7. CASE WorkerStep \/ (\E c \in Children : ChildExits(c)) \/ ControlPlaneDies
            \/ UNCHANGED vars
  BY <1>7 DEF WorkerStep, WorkerBoots, WorkerReads, WorkerOrphaned, WorkerAnswers,
              WorkerCloses, ChildExits, ControlPlaneDies, Fresh, vars
<1> QED
  BY <1>3, <1>4, <1>5, <1>6, <1>7 DEF Next, Environment

LEMMA CallUpdated ==
    ASSUME IInv, NEW i \in Inspections, NEW promise,
           inspection' = [inspection EXCEPT ![i] = promise]
    PROVE  [j \in Inspections |-> Asked(inspection[j])]'
             = [[j \in Inspections |-> Asked(inspection[j])] EXCEPT ![i] = Asked(promise)]
BY DEF IInv, TypeOK, Asked

LEMMA CallsSettle ==
    ASSUME IInv,
           \A i \in Inspections :
              \/ inspection'[i] = inspection[i]
              \/ inspection[i] = "sent" /\ inspection'[i] \in {"resolved", "rejected"}
    PROVE  Contract!MaySettle
BY DEF Contract!MaySettle, Asked

\* A close begun on a live plane is the end of the run, for a reason that fits.
LEMMA InitiateEnds ==
    ASSUME IInv, Live, run.launch = "launched", run'.launch = "launched",
           NEW why \in StopReasons, NEW children \in [Children -> ChildState],
           \A c \in Children : children[c].alive = child[c].alive,
           Contract!Fits(why), Contract!MaySettle,
           InitiateClose(why, plane, children)
    PROVE  Contract!Next
<1>1. plane \in PlaneState /\ close.stage = "none"
  BY DEF IInv, TypeOK, CloseFollowsState
<1>2. /\ plane' = [plane EXCEPT !.state = "closing",
                     !.ready = IF @ = "pending" THEN Rejection(why) ELSE @]
      /\ close' = CloseBegun(why)
      /\ child' = CrashKill(children, why)
  BY DEF InitiateClose
<1>3. plane'.state = "closing"
      /\ plane'.ready = IF plane.ready = "pending" THEN Rejection(why) ELSE plane.ready
  BY <1>1, <1>2 DEF PlaneState
<1>4. close'.reason = why /\ close'.stage \in {"graceful", "probes"}
  BY <1>2 DEF CloseBegun
<1>5. \A c \in Children : child'[c].alive = child[c].alive
  BY <1>2 DEF CrashKill, ChildState
<1>6. {c \in Children : child[c].alive}' = {c \in Children : child[c].alive}
  BY <1>5
<1>7. Stage = "up" /\ Stage' = "ending"
  BY <1>1, <1>3, <1>4 DEF Stage, Live
<1>c. Complete' = Complete
  BY <1>1, <1>4 DEF Complete
<1>8. plane.ready = "pending" => why # "stopped"
  BY Names DEF Contract!Fits
<1>9. plane'.ready = IF plane.ready = "pending" THEN why ELSE plane.ready
  BY <1>3, <1>8 DEF Rejection
<1>10. why \in {"stopped", "cancelled", "startup-timeout",
                "worker-crash", "managed-astro-crash"}
  BY Names
<1>11. Contract!Ends
  BY <1>4, <1>6, <1>7, <1>c, <1>9, <1>10, Zenon DEF Contract!Ends
<1> QED
  BY <1>11 DEF Contract!Next

\* A step that only settles calls, or changes nothing the owner sees.
LEMMA OnlySettles ==
    ASSUME IInv, run.launch = "launched", Contract!MaySettle,
           Stage' = Stage, plane'.ready = plane.ready, close'.reason = close.reason,
           Complete' = Complete, child' = child
    PROVE  Contract!Next
<1>1. Stage # "launching"
  BY DEF Stage, Live
<1> QED
  BY <1>1 DEF Contract!Next, Contract!Settle

\* A child's death.
LEMMA DeathIsSeen ==
    ASSUME IInv, NEW c \in Children, child[c].alive, Dies(c),
           UNCHANGED <<run, plane, close, inspection>>
    PROVE  Contract!Next
<1>1. {d \in Children : child[d].alive}' = {d \in Children : child[d].alive} \ {c}
  BY DEF IInv, TypeOK, ChildState, Dies
<1>2. c \in {d \in Children : child[d].alive}
  OBVIOUS
<1>3. Stage' = Stage /\ Complete' = Complete
  BY DEF Stage, Complete, Live
<1> QED
  BY <1>1, <1>2, <1>3 DEF Contract!Next, Contract!ChildEnds

\* A step the owner does not see.
LEMMA Unseen ==
    ASSUME UNCHANGED <<run, inspection>>, plane'.state = plane.state,
           plane'.ready = plane.ready, close'.reason = close.reason, Complete' = Complete,
           \A c \in Children : child'[c].alive = child[c].alive
    PROVE  UNCHANGED Contract!vars
<1>1. {c \in Children : child[c].alive}' = {c \in Children : child[c].alive}
  OBVIOUS
<1>2. Stage' = Stage
  BY DEF Stage, Live
<1>3. [i \in Inspections |-> Asked(inspection[i])]'
        = [i \in Inspections |-> Asked(inspection[i])]
  BY DEF Asked
<1> QED
  BY <1>1, <1>2, <1>3 DEF Contract!vars

\* The answers the readiness waits for arrive, or something the owner does not see.
LEMMA AdmissionShows ==
    ASSUME IInv, run.launch = "launched", NEW p \in PlaneState,
           p.state = plane.state, p.ready = plane.ready,
           plane' = Admitted(p), UNCHANGED <<run, close, child, inspection>>
    PROVE  Contract!Next \/ UNCHANGED Contract!vars
<1>1. Complete' = Complete
  BY DEF Complete
<1>2. CASE p.answered /\ p.probe = "ready" /\ p.state = "starting"
  <2>1. plane'.state = "running" /\ plane'.ready = "resolved"
    BY <1>2 DEF Admitted, PlaneState
  <2>2. plane.ready = "pending"
    BY <1>2 DEF IInv, ReadyFollowsState
  <2>3. Stage = "up" /\ Stage' = "up"
    BY <1>2, <2>1 DEF Stage, Live
  <2>4. /\ {c \in Children : child[c].alive}' = {c \in Children : child[c].alive}
        /\ [i \in Inspections |-> Asked(inspection[i])]'
             = [i \in Inspections |-> Asked(inspection[i])]
    BY DEF Asked
  <2> QED
    BY <1>1, <2>1, <2>2, <2>3, <2>4 DEF Contract!Next, Contract!BecomesReady
<1>3. CASE ~(p.answered /\ p.probe = "ready" /\ p.state = "starting")
  <2>1. plane' = p
    BY <1>3 DEF Admitted
  <2> QED
    BY <1>1, <2>1, Unseen
<1> QED
  BY <1>2, <1>3

LEMMA MessageShows == ASSUME IInv, Message PROVE Contract!Next \/ UNCHANGED Contract!vars
<1> DEFINE m == Head(wire.out)
<1>1. wire.out \in Seq(FromWorker) /\ wire.out # <<>>
  BY DEF IInv, TypeOK, WireState, Message
<1>2. m \in FromWorker
  BY <1>1, HeadTailProperties
<1>3. HandleMessage(m) /\ run.launch = "launched" /\ UNCHANGED <<run, close, child>>
  BY DEF Message, Supervising
<1>4. plane \in PlaneState /\ inspection \in [Inspections -> Promise]
  BY DEF IInv, TypeOK
<1> HIDE DEF m
<1>5. CASE Listening /\ m.type = "inspect-result" /\ m.id = PROBE
  <2> DEFINE p == [plane EXCEPT !.answered = @ \/ m.ok]
  <2>1. m.ok \in BOOLEAN
    BY <1>2, <1>5 DEF FromWorker
  <2>2. p \in PlaneState /\ p.state = plane.state /\ p.ready = plane.ready
    BY <1>4, <2>1 DEF PlaneState
  <2>3. plane' = Admitted(p) /\ inspection' = inspection
    BY <1>3, <1>5 DEF HandleMessage
  <2> HIDE DEF p
  <2> QED
    BY <1>3, <2>2, <2>3, AdmissionShows
<1>6. CASE ~(Listening /\ m.type = "inspect-result" /\ m.id = PROBE)
  <2>1. plane' = plane \/ plane' = [plane EXCEPT !.report = m.outcome]
    BY <1>3, <1>6, Zenon DEF HandleMessage
  <2>2. plane'.state = plane.state /\ plane'.ready = plane.ready
    BY <1>4, <2>1 DEF PlaneState
  <2>3. Contract!MaySettle
    <3>1. Settlement(m.ok) \in {"resolved", "rejected"}
      BY DEF Settlement
    <3>2. \A i \in Inspections :
              \/ inspection'[i] = inspection[i]
              \/ inspection[i] = "sent" /\ inspection'[i] \in {"resolved", "rejected"}
      BY <1>3, <1>4, <3>1 DEF HandleMessage
    <3> QED
      BY <3>2, CallsSettle
  <2>4. Stage' = Stage /\ Complete' = Complete
    BY <1>3, <2>2 DEF Stage, Complete, Live
  <2> QED
    BY <1>3, <2>2, <2>3, <2>4, OnlySettles
<1> QED
  BY <1>5, <1>6

LEMMA MarkedDead == ASSUME IInv, MarkDead PROVE Contract!MaySettle
<1>1. \A i \in Inspections :
          \/ inspection'[i] = inspection[i]
          \/ inspection[i] = "sent" /\ inspection'[i] \in {"resolved", "rejected"}
  BY DEF IInv, TypeOK, MarkDead
<1> QED
  BY <1>1, CallsSettle

LEMMA NothingSettled == ASSUME IInv, inspection' = inspection PROVE Contract!MaySettle
BY CallsSettle

\* A crash is reported of a child that is gone.
LEMMA ChildGoneShows ==
    ASSUME IInv, NEW c \in Children, ChildGone(c) PROVE Contract!Next
<1>1. /\ run.launch = "launched" /\ run' = run /\ ~child[c].alive
      /\ Contract!MaySettle
  BY MarkedDead, NothingSettled DEF ChildGone, Supervising
<1> DEFINE seen == [child EXCEPT ![c].gone = TRUE]
<1>2. seen \in [Children -> ChildState] /\ \A d \in Children : seen[d].alive = child[d].alive
  BY DEF IInv, TypeOK, ChildState
<1>3. CASE Live
  <2>1. InitiateClose(CrashReason(c), plane, seen)
    BY <1>3 DEF ChildGone
  <2>2. CrashReason(c) \in StopReasons
    BY Names
  <2>3. Contract!Fits(CrashReason(c))
    BY <1>1, Names DEF Contract!Fits, CrashReason
  <2> HIDE DEF seen
  <2> QED
    BY <1>1, <1>2, <1>3, <2>1, <2>2, <2>3, InitiateEnds
<1>4. CASE ~Live
  <2>1. child' = seen /\ UNCHANGED <<plane, close>>
    BY <1>4 DEF ChildGone
  <2>2. {d \in Children : child[d].alive}' = {d \in Children : child[d].alive}
    BY <1>2, <2>1
  <2>3. Stage' = Stage /\ Complete' = Complete /\ Stage # "launching"
    BY <1>1, <2>1 DEF Stage, Complete, Live
  <2> QED
    BY <1>1, <2>1, <2>2, <2>3 DEF Contract!Next, Contract!Settle
<1> QED
  BY <1>3, <1>4

LEMMA StopShows == ASSUME IInv, Stop PROVE Contract!Next \/ UNCHANGED Contract!vars
<1>1. /\ run \in [launch : {"launching", "launched", "failed"}, stopped : BOOLEAN]
      /\ child \in [Children -> ChildState]
  BY DEF IInv, TypeOK
<1>2. run'.launch = run.launch /\ inspection' = inspection /\ Live
  BY <1>1 DEF Stop
<1>3. CASE run.launch = "launched"
  <2>1. InitiateClose(StopReason, plane, child)
    BY <1>3 DEF Stop
  <2>2. StopReason \in StopReasons /\ Contract!Fits(StopReason)
    BY <1>2, Names DEF StopReason, Contract!Fits, IInv, ReadyFollowsState, Live
  <2> QED
    BY <1>1, <1>2, <1>3, <2>1, <2>2, NothingSettled, InitiateEnds
<1>4. CASE run.launch # "launched"
  <2>1. UNCHANGED <<plane, close, child>>
    BY <1>4 DEF Stop
  <2>2. Stage' = Stage /\ Complete' = Complete
    BY <1>2, <2>1 DEF Stage, Complete, Live
  <2>3. /\ {c \in Children : child[c].alive}' = {c \in Children : child[c].alive}
        /\ [i \in Inspections |-> Asked(inspection[i])]'
             = [i \in Inspections |-> Asked(inspection[i])]
    BY <1>2, <2>1 DEF Asked
  <2> QED
    BY <2>1, <2>2, <2>3 DEF Contract!vars
<1> QED
  BY <1>3, <1>4

LEMMA DispatchShows ==
    ASSUME IInv, NEW i \in Inspections, Dispatch(i) PROVE Contract!Next
<1>1. run.launch \in {"launching", "launched", "failed"}
  BY DEF IInv, TypeOK
<1>2. UNCHANGED <<run, plane, close, child>> /\ inspection[i] = "idle"
  BY DEF Dispatch
<1>3. Stage' = Stage /\ Complete' = Complete
      /\ {c \in Children : child[c].alive}' = {c \in Children : child[c].alive}
  BY <1>2 DEF Stage, Complete, Live
<1> DEFINE promise == IF run.stopped THEN "rejected"
            ELSE CASE run.launch = "launching" -> "waiting"
                   [] run.launch = "failed" -> "rejected"
                   [] run.launch = "launched" -> IF Refuses THEN "rejected" ELSE "sent"
<1>4. inspection' = [inspection EXCEPT ![i] = promise]
  BY DEF Dispatch
<1>5. \/ promise = "rejected"
      \/ promise = "waiting" /\ run.launch = "launching"
      \/ promise = "sent" /\ run.launch = "launched" /\ Live
  <2>1. CASE run.stopped
    BY <2>1
  <2>2. CASE ~run.stopped /\ run.launch = "launching"
    BY <2>2
  <2>3. CASE ~run.stopped /\ run.launch = "failed"
    BY <2>3
  <2>4. CASE ~run.stopped /\ run.launch = "launched"
    BY <2>4 DEF Refuses
  <2> QED
    BY <1>1, <2>1, <2>2, <2>3, <2>4
<1> HIDE DEF promise
<1>6. \/ Asked(promise) = "rejected"
      \/ Asked(promise) = "asked" /\ Stage \in {"launching", "up"}
  BY <1>5 DEF Asked, Stage
<1>7. [j \in Inspections |-> Asked(inspection[j])]'
        = [[j \in Inspections |-> Asked(inspection[j])] EXCEPT ![i] = Asked(promise)]
  BY <1>4, CallUpdated
<1>8. Asked(inspection[i]) = "idle"
  BY <1>2 DEF Asked
<1>9. Contract!Ask(i)
  BY <1>2, <1>3, <1>6, <1>7, <1>8 DEF Contract!Ask
<1> QED
  BY <1>9 DEF Contract!Next

LEMMA LaunchShows == ASSUME IInv, Fresh, Launch PROVE Contract!Next
<1>1. /\ run \in [launch : {"launching", "launched", "failed"}, stopped : BOOLEAN]
      /\ plane \in PlaneState /\ child \in [Children -> ChildState]
      /\ inspection \in [Inspections -> Promise]
  BY DEF IInv, TypeOK
<1>2. run.launch = "launching" /\ run'.launch = "launched"
  BY <1>1 DEF Launch
<1>3. plane.state = "starting" /\ plane.ready = "pending" /\ close.stage = "none"
  BY <1>2 DEF Fresh, IInv, ReadyFollowsState, CloseFollowsState, Live
<1>4. [i \in Inspections |-> Asked(inspection[i])]'
        = [i \in Inspections |-> Asked(inspection[i])]
  BY <1>1 DEF Launch, Asked
<1> DEFINE spawned == [c \in Children |-> [child[c] EXCEPT !.alive = TRUE]]
<1>5. \A c \in Children : spawned[c].alive /\ spawned[c] \in ChildState
  BY <1>1 DEF ChildState
<1>6. \/ ~run.stopped /\ child' = spawned /\ UNCHANGED <<plane, close>>
      \/ run.stopped /\ InitiateClose(StopReason, plane, spawned)
  BY DEF Launch
<1> HIDE DEF spawned
<1>7. Stage = "launching"
  BY <1>2 DEF Stage
<1>8. Contract!Children = Children
  BY Names DEF Contract!Children
<1>9. CASE ~run.stopped /\ child' = spawned /\ UNCHANGED <<plane, close>>
  <2>1. {c \in Children : child[c].alive}' = Children
    BY <1>5, <1>9
  <2>2. Stage' = "up"
    BY <1>2, <1>3, <1>9 DEF Stage, Live
  <2>3. Complete' = Complete
    BY <1>9 DEF Complete
  <2>4. Contract!Launched
    BY <1>4, <1>7, <1>8, <1>9, <2>1, <2>2, <2>3 DEF Contract!Launched
  <2> QED
    BY <2>4 DEF Contract!Next
<1>10. CASE InitiateClose(StopReason, plane, spawned)
  <2>1. StopReason = "cancelled"
    BY <1>3 DEF StopReason
  <2>2. /\ plane'.state = "closing" /\ plane'.ready = "cancelled"
        /\ close'.reason = "cancelled" /\ close'.stage \in {"graceful", "probes"}
    BY <1>1, <1>3, <1>10, <2>1 DEF InitiateClose, CloseBegun, Rejection, PlaneState
  <2>3. \A c \in Children : child'[c].alive
    BY <1>5, <1>10 DEF InitiateClose, CrashKill, ChildState
  <2>4. {c \in Children : child[c].alive}' = Children
    BY <2>3
  <2>5. Stage' = "ending"
    BY <1>2, <2>2 DEF Stage, Live
  <2>6. Complete' = Complete
    BY <1>3, <2>2 DEF Complete
  <2>7. Contract!Launched
    BY <1>4, <1>7, <1>8, <2>2, <2>4, <2>5, <2>6 DEF Contract!Launched
  <2> QED
    BY <2>7 DEF Contract!Next
<1> QED
  BY <1>6, <1>9, <1>10

LEMMA LaunchFailsShows == ASSUME IInv, Fresh, LaunchFails PROVE Contract!Next
<1>1. /\ run \in [launch : {"launching", "launched", "failed"}, stopped : BOOLEAN]
      /\ plane \in PlaneState /\ close \in CloseState
      /\ inspection \in [Inspections -> Promise]
  BY DEF IInv, TypeOK
<1>2. run.launch = "launching" /\ run'.launch = "failed" /\ child' = child
  BY <1>1 DEF LaunchFails
<1>3. close.failures = {}
  BY <1>2 DEF Fresh, IInv, CloseFollowsState, Live
<1>4. /\ plane'.state = "closed" /\ plane'.ready = "launch-failed"
      /\ close'.reason = "cancelled" /\ close'.stage = "done" /\ close'.failures = {}
  BY <1>1, <1>3 DEF LaunchFails, PlaneState, CloseState
<1>5. Stage = "launching" /\ Stage' = "over" /\ Complete' = TRUE
  BY <1>2, <1>4 DEF Stage, Live, Complete
<1>6. \A i \in Inspections : inspection[i] # "sent"
  BY <1>2 DEF Fresh
<1>7. [i \in Inspections |-> Asked(inspection[i])]'
        = [i \in Inspections |-> IF [j \in Inspections |-> Asked(inspection[j])][i] = "asked"
                                 THEN "rejected"
                                 ELSE [j \in Inspections |-> Asked(inspection[j])][i]]
  BY <1>1, <1>6 DEF LaunchFails, Asked, Promise
<1>8. {c \in Children : child[c].alive}' = {c \in Children : child[c].alive}
  BY <1>2
<1>9. Contract!NeverLaunched
  BY <1>4, <1>5, <1>7, <1>8 DEF Contract!NeverLaunched
<1> QED
  BY <1>9 DEF Contract!Next

\* The close sequence is the supervisor's own, but for its report.
LEMMA ClosesShow ==
    ASSUME IInv, IInv', Closes PROVE Contract!Next \/ UNCHANGED Contract!vars
<1>1. /\ plane \in PlaneState /\ close \in CloseState
      /\ child \in [Children -> ChildState]
  BY DEF IInv, TypeOK
<1>2. CASE GracefulEnds \/ ProbesEnd
  <2>1. close.stage \in {"graceful", "probes"} /\ close'.stage \in {"probes", "reaping"}
        /\ close'.reason = close.reason
    BY <1>1, <1>2 DEF GracefulEnds, ProbesEnd, CloseState
  <2>2. Complete' = Complete
    BY <2>1 DEF Complete
  <2>3. \A c \in Children : child'[c].alive = child[c].alive
    <3>1. \A c \in Children : TermSent(c).alive = child[c].alive
      BY <1>1 DEF TermSent, ChildState
    <3> QED
      BY <1>2, <3>1 DEF GracefulEnds, ProbesEnd
  <2> QED
    BY <1>2, <2>1, <2>2, <2>3, Unseen DEF GracefulEnds, ProbesEnd
<1>3. ASSUME NEW c \in Children, Reaped(c) \/ TermExpires(c) \/ KillExpires(c)
      PROVE  UNCHANGED Contract!vars
  <2>1. UNCHANGED <<run, plane, close, inspection>>
    BY <1>3 DEF Reaped, TermExpires, KillExpires
  <2>2. \A d \in Children : child'[d].alive = child[d].alive
    BY <1>1, <1>3 DEF Reaped, TermExpires, KillExpires, ChildState
  <2>3. Complete' = Complete
    BY <2>1 DEF Complete
  <2> QED
    BY <2>1, <2>2, <2>3, Unseen
<1>4. CASE Closed
  <2>1. /\ plane'.state = "closed" /\ plane'.ready = plane.ready
        /\ close'.stage = "done" /\ close'.reason = close.reason
        /\ UNCHANGED <<run, child, inspection>> /\ run.launch = "launched"
    BY <1>1, <1>4 DEF Closed, Supervising, PlaneState, CloseState
  <2>2. plane.state = "closing"
    BY <1>1, <1>4 DEF Closed, IInv, CloseFollowsState, Live, PlaneState
  <2>3. Stage = "ending" /\ Stage' = "over"
    BY <2>1, <2>2 DEF Stage, Live
  <2>4. Complete' \in BOOLEAN
    BY DEF Complete
  <2>5. Complete' => {c \in Children : child[c].alive}' = {}
    BY DEF IInv, HonestReport
  <2>6. {c \in Children : child[c].alive}' = {c \in Children : child[c].alive}
    BY <2>1
  <2>7. [i \in Inspections |-> Asked(inspection[i])]'
          = [i \in Inspections |-> Asked(inspection[i])]
    BY <2>1 DEF Asked
  <2>8. Complete' => {c \in Children : child[c].alive} = {}
    BY <2>5, <2>6
  <2>9. Contract!Reports
    BY <2>1, <2>3, <2>4, <2>6, <2>7, <2>8 DEF Contract!Reports
  <2> QED
    BY <2>9 DEF Contract!Next
<1> QED
  BY <1>2, <1>3, <1>4 DEF Closes

LEMMA PlaneStepShows ==
    IInv /\ Fresh /\ IInv' /\ [Next]_vars => [Contract!Next]_(Contract!vars)
<1> SUFFICES ASSUME IInv, Fresh, IInv', [Next]_vars
             PROVE  Contract!Next \/ UNCHANGED Contract!vars
  OBVIOUS
<1>1. ASSUME UNCHANGED <<run, plane, close, child, inspection>>
      PROVE  UNCHANGED Contract!vars
  BY <1>1, Unseen DEF Complete
<1>2. CASE CallerStep
  BY <1>2, StopShows, DispatchShows DEF CallerStep
<1>3. CASE LaunchStep
  BY <1>3, LaunchShows, LaunchFailsShows DEF LaunchStep
<1>4. CASE Disconnect
  <2>1. UNCHANGED <<run, plane, close, child>> /\ run.launch = "launched"
    BY <1>4 DEF Disconnect, Supervising
  <2>2. Stage' = Stage /\ Complete' = Complete
    BY <2>1 DEF Stage, Complete, Live
  <2>3. Contract!MaySettle
    BY <1>4, MarkedDead DEF Disconnect
  <2> QED
    BY <2>1, <2>2, <2>3, OnlySettles
<1>5. CASE ProbeAborted
  <2>1. plane'.state = plane.state /\ plane'.ready = plane.ready
        /\ UNCHANGED <<run, close, child, inspection>>
    BY <1>5 DEF ProbeAborted, IInv, TypeOK, PlaneState
  <2> QED
    BY <2>1, Unseen DEF Complete
<1>6. CASE Observes
  BY <1>4, <1>5, <1>6, MessageShows, ChildGoneShows DEF Observes
<1>7. CASE StartupTimeout
  <2>1. /\ run.launch = "launched" /\ run' = run /\ inspection' = inspection
        /\ plane.state = "starting" /\ child \in [Children -> ChildState]
        /\ InitiateClose("startup-timeout", plane, child)
    BY <1>7 DEF StartupTimeout, Supervising, IInv, TypeOK
  <2>2. "startup-timeout" \in StopReasons /\ Contract!Fits("startup-timeout") /\ Live
    BY <2>1, Names DEF Contract!Fits, IInv, ReadyFollowsState, Live
  <2> QED
    BY <2>1, <2>2, NothingSettled, InitiateEnds
<1>8. CASE Closes
  BY <1>8, ClosesShow
<1>9. CASE WorkerStep
  <2>1. CASE \E outcome \in {"complete", "incomplete"} : WorkerCloses(outcome)
    <3>1. child["worker"].alive /\ Dies("worker") /\ "worker" \in Children
          /\ UNCHANGED <<run, plane, close, inspection>>
      BY <2>1, Names DEF WorkerCloses
    <3> QED
      BY <3>1, DeathIsSeen
  <2>2. CASE \/ WorkerBoots \/ WorkerReads \/ WorkerOrphaned
             \/ \E i \in Inspections \cup {PROBE}, ok \in BOOLEAN : WorkerAnswers(i, ok)
    BY <1>1, <2>2 DEF WorkerBoots, WorkerReads, WorkerOrphaned, WorkerAnswers
  <2> QED
    BY <1>9, <2>1, <2>2 DEF WorkerStep
<1>10. CASE ProbeServed
  <2> DEFINE p == [plane EXCEPT !.probe = "ready"]
  <2>1. p \in PlaneState /\ p.state = plane.state /\ p.ready = plane.ready
    BY DEF IInv, TypeOK, PlaneState
  <2>2. run.launch = "launched" /\ plane' = Admitted(p)
        /\ UNCHANGED <<run, close, child, inspection>>
    BY <1>10 DEF ProbeServed, Supervising
  <2> HIDE DEF p
  <2> QED
    BY <2>1, <2>2, AdmissionShows
<1>11. CASE ControlPlaneDies \/ UNCHANGED vars
  BY <1>1, <1>11 DEF ControlPlaneDies, vars
<1>12. CASE \E c \in Children : ChildExits(c)
  BY <1>12, DeathIsSeen DEF ChildExits
<1> QED
  BY <1>2, <1>3, <1>6, <1>7, <1>8, <1>9, <1>10, <1>11, <1>12 DEF Next, Environment

\* The run implements the contract its owner relies on, for every set of inspections:
\* every step of its wire, its children and its close sequence is a step of the contract
\* or not seen by the owner (project-runtime.ts, plane-supervisor.ts).
THEOREM PlaneKeepsContract == Spec => KeepsContract
<1>1. Init => Contract!Init
  <2> SUFFICES ASSUME Init PROVE Contract!Init
    OBVIOUS
  <2>1. {c \in Children : child[c].alive} = {}
    BY DEF Init
  <2>2. [i \in Inspections |-> Asked(inspection[i])] = [i \in Inspections |-> "idle"]
    BY DEF Init, Asked
  <2> QED
    BY <2>1, <2>2 DEF Init, Contract!Init, Stage, Complete
<1>2. Init => Fresh
  BY DEF Init, Fresh
<1>3. IInv /\ Fresh /\ [Next]_vars => Fresh'
  BY FreshHolds
<1>4. IInv /\ Fresh /\ IInv' /\ [Next]_vars => [Contract!Next]_(Contract!vars)
  BY PlaneStepShows
<1> QED
  BY <1>1, <1>2, <1>3, <1>4, PlaneInvariant, PTL DEF Spec, KeepsContract, Contract!Spec

=============================================================================
