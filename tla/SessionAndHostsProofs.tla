----------------------- MODULE SessionAndHostsProofs ------------------------
(***************************************************************************)
(* Proofs that the supervisor's slot, active session and minted authority  *)
(* never drift apart, for any set of projects and any number of            *)
(* activations; and that the hosts' functions answer as they should, for   *)
(* every target, host, request and bundle.                                 *)
(***************************************************************************)
EXTENDS SessionSupervisor, HostFunctions, SequenceTheorems, WellFoundedInduction, TLAPS

-----------------------------------------------------------------------------
(* The supervisor.                                                         *)


\* A generation that was never begun is untouched; a begun one has a project.
Reserved ==
    \A g \in Generations :
        /\ g >= nextGeneration => att[g] = UnusedAttempt
        /\ g < nextGeneration => att[g].key \in Projects /\ att[g].phase # "unused"

Live(a) == a.phase \in {"starting", "staged"}

\* A staged or ended attempt has seen run.ready settle, and a live attempt has
\* not reported: run.ready's rejection can only end the attempt in the slot.
Phases ==
    \A g \in Generations :
        /\ att[g].phase \in {"staged", "ended"} => att[g].reacted = TRUE
        /\ Live(att[g]) => att[g].outcome = "pending" /\ att[g].ending = "none"

\* The attempt in flight is the newest generation; the active session is older
\* and was committed.
Newest ==
    /\ active < nextGeneration
    /\ attemptCtx # 0 => attemptCtx = nextGeneration - 1 /\ active < attemptCtx
    /\ active # 0 => att[active].outcome = "committed"

IInv ==
    /\ TypeOK
    /\ Reserved
    /\ Phases
    /\ Newest
    /\ SlotHoldsLiveAttempt
    /\ AuthorityFollowsActive
    /\ SubscribersCurrent
    /\ NoAbandonedCandidate

-----------------------------------------------------------------------------

LEMMA GenerationsAreNaturals ==
    /\ MaxGeneration \in Nat \ {0}
    /\ Generations \subseteq Nat \ {0}
    /\ \A g : g \in Generations <=> g \in Nat /\ 1 <= g /\ g <= MaxGeneration
BY SupervisorAssumption DEF Generations

LEMMA InitEstablishes == Init => IInv
<1> SUFFICES ASSUME Init PROVE IInv
  OBVIOUS
<1>1. UnusedAttempt \in Attempt
  BY DEF UnusedAttempt, Attempt, AttemptPhase, Ends
<1>2. TypeOK
  BY <1>1, GenerationsAreNaturals DEF Init, TypeOK, Failures
<1>3. Reserved /\ Phases /\ Newest
  BY GenerationsAreNaturals
     DEF Init, Reserved, Phases, Live, Newest, UnusedAttempt
<1>4. SlotHoldsLiveAttempt /\ NoAbandonedCandidate
  BY GenerationsAreNaturals
     DEF Init, SlotHoldsLiveAttempt, NoAbandonedCandidate, UnusedAttempt
<1>5. AuthorityFollowsActive /\ SubscribersCurrent
  BY DEF Init, AuthorityFollowsActive, SubscribersCurrent, Snapshot
<1> QED
  BY <1>2, <1>3, <1>4, <1>5 DEF IInv

LEMMA BeginPreserves ==
    ASSUME IInv, NEW p \in Projects, NEW launched \in BOOLEAN, Begin(p, launched)
    PROVE  IInv'
<1> DEFINE g == nextGeneration
<1> DEFINE fresh == [UnusedAttempt EXCEPT
                       !.key = p, !.phase = "starting", !.up = launched,
                       !.ready = IF launched THEN "pending" ELSE "rejected"]
<1>1. /\ g \in Generations /\ attemptCtx = 0
      /\ nextGeneration' = g + 1 /\ attemptCtx' = g
      /\ att' = [att EXCEPT ![g] = fresh]
      /\ active' = active /\ lastFailure' = lastFailure
      /\ bindings' = bindings /\ hostCaps' = hostCaps
      /\ frame' = Snapshot'
  BY DEF Begin, ReserveGeneration, Notify
<1>2. /\ fresh \in Attempt
      /\ fresh.key = p /\ fresh.phase = "starting"
      /\ fresh.outcome = "pending" /\ fresh.ending = "none"
  BY DEF UnusedAttempt, Attempt, AttemptPhase, Ends
<1>3. /\ att \in [Generations -> Attempt] /\ active \in 0 .. MaxGeneration
      /\ bindings \subseteq Generations /\ hostCaps \subseteq Projects
      /\ lastFailure \in Failures
  BY DEF IInv, TypeOK
<1> HIDE DEF fresh
<1>4. \A h \in Generations : att'[h] = IF h = g THEN fresh ELSE att[h]
  BY <1>1, <1>3
<1>5. TypeOK'
  BY <1>1, <1>2, <1>3, GenerationsAreNaturals DEF TypeOK, Snapshot
<1>6. Reserved'
  BY <1>1, <1>2, <1>4, GenerationsAreNaturals DEF IInv, Reserved
<1>7. Phases'
  BY <1>2, <1>4 DEF IInv, Phases, Live
<1>8. Newest'
  BY <1>1, <1>3, <1>4, GenerationsAreNaturals DEF IInv, Newest
<1>9. SlotHoldsLiveAttempt'
  BY <1>1, <1>2, <1>4, GenerationsAreNaturals DEF IInv, SlotHoldsLiveAttempt
<1>10. AuthorityFollowsActive'
  <2>1. /\ bindings \subseteq {active, 0} \ {0}
        /\ hostCaps = IF active = 0 THEN {} ELSE {att[active].key}
    BY <1>1 DEF IInv, AuthorityFollowsActive
  <2>2. active # 0 => att'[active] = att[active]
    BY <1>1, <1>3, <1>4, GenerationsAreNaturals DEF IInv, Newest
  <2>3. hostCaps' = IF active' = 0 THEN {} ELSE {att'[active'].key}
    <3>1. CASE active = 0
      BY <3>1, <2>1, <1>1
    <3>2. CASE active # 0
      BY <3>2, <2>1, <2>2, <1>1
    <3> QED
      BY <3>1, <3>2
  <2>4. bindings' \subseteq {active', attemptCtx'} \ {0}
    BY <2>1, <1>1
  <2> QED
    BY <2>3, <2>4 DEF AuthorityFollowsActive
<1>11. NoAbandonedCandidate'
  BY <1>1, <1>4, GenerationsAreNaturals DEF IInv, NoAbandonedCandidate
<1> QED
  BY <1>1, <1>5, <1>6, <1>7, <1>8, <1>9, <1>10, <1>11 DEF IInv, SubscribersCurrent

-----------------------------------------------------------------------------
(* The steps fall in three kinds: those that only advance one attempt's run  *)
(* and reports, those that end the attempt in the slot, and those that clear *)
(* the active session.  Each kind has one lemma.                             *)

\* a becomes r by a step of its own run or reports.
Advances(a, r) ==
    /\ r.key = a.key /\ r.outcome \in {a.outcome, a.ending}
    /\ a.outcome # "pending" => r.outcome = a.outcome
    /\ r.phase # "unused" /\ (Live(r) <=> Live(a))
    /\ r.phase \in {"staged", "ended"} => r.reacted = TRUE
    /\ Live(r) => r.outcome = "pending" /\ r.ending = "none"

LEMMA AdvancePreservesAttempts ==
    ASSUME IInv, NEW g \in Generations, g < nextGeneration, NEW r \in Attempt,
           Advances(att[g], r), att' = [att EXCEPT ![g] = r],
           nextGeneration' = nextGeneration
    PROVE  /\ att' \in [Generations -> Attempt]
           /\ \A h \in Generations : att'[h] = IF h = g THEN r ELSE att[h]
           /\ Reserved' /\ Phases'
<1>1. att \in [Generations -> Attempt] /\ nextGeneration \in Nat
  BY GenerationsAreNaturals DEF IInv, TypeOK
<1>2. /\ att' \in [Generations -> Attempt]
      /\ \A h \in Generations : att'[h] = IF h = g THEN r ELSE att[h]
  BY <1>1
<1>3. Reserved'
  BY <1>1, <1>2, GenerationsAreNaturals DEF IInv, Reserved, Advances
<1>4. Phases'
  BY <1>2 DEF IInv, Phases, Advances
<1> QED
  BY <1>2, <1>3, <1>4

LEMMA AdvancePreserves ==
    ASSUME IInv, NEW g \in Generations, g < nextGeneration, NEW r \in Attempt,
           Advances(att[g], r), att' = [att EXCEPT ![g] = r],
           r.up /\ r.outcome # "committed" => r.stopping \/ attemptCtx = g,
           UNCHANGED <<nextGeneration, active, attemptCtx, lastFailure, bindings,
                       hostCaps, frame>>
    PROVE  IInv'
<1>1. /\ att' \in [Generations -> Attempt]
      /\ \A h \in Generations : att'[h] = IF h = g THEN r ELSE att[h]
      /\ Reserved' /\ Phases'
  BY AdvancePreservesAttempts
<1>2. /\ nextGeneration' = nextGeneration /\ active' = active
      /\ attemptCtx' = attemptCtx /\ lastFailure' = lastFailure
      /\ bindings' = bindings /\ hostCaps' = hostCaps /\ frame' = frame
  OBVIOUS
<1>3. TypeOK'
  BY <1>1, <1>2 DEF IInv, TypeOK
<1>4. r.key = att[g].key /\ (Live(r) <=> Live(att[g]))
      /\ (att[g].outcome = "committed" => r.outcome = "committed")
  BY DEF Advances
<1>5. active # 0 => active \in Generations
  BY GenerationsAreNaturals DEF IInv, TypeOK
<1>6. Newest'
  BY <1>1, <1>2, <1>4, <1>5 DEF IInv, Newest
<1>7. SlotHoldsLiveAttempt'
  BY <1>1, <1>2, <1>4 DEF IInv, SlotHoldsLiveAttempt, Live
<1>8. active # 0 => att'[active].key = att[active].key
  BY <1>1, <1>4, <1>5
<1>9. AuthorityFollowsActive'
  BY <1>2, <1>8 DEF IInv, AuthorityFollowsActive
<1>10. SubscribersCurrent'
  BY <1>2 DEF IInv, SubscribersCurrent, Snapshot
<1>11. NoAbandonedCandidate'
  BY <1>1, <1>2 DEF IInv, NoAbandonedCandidate
<1> QED
  BY <1>1, <1>3, <1>6, <1>7, <1>9, <1>10, <1>11 DEF IInv

\* The attempt in the slot ends: its run is stopped and the slot empties.
LEMMA EndPreserves ==
    ASSUME IInv, NEW g \in Generations, attemptCtx = g, NEW r \in Attempt,
           r.key = att[g].key, r.phase \in {"ended", "cancelling"},
           r.phase = "ended" => r.reacted = TRUE, r.stopping,
           r.outcome = att[g].outcome,
           att' = [att EXCEPT ![g] = r],
           NEW failure \in Failures, AttemptEnded(failure),
           UNCHANGED <<nextGeneration, hostCaps>>
    PROVE  IInv'
<1>1. /\ attemptCtx' = 0 /\ active' = active /\ frame' = Snapshot'
      /\ bindings' = bindings \ {g} /\ lastFailure' \in Failures
      /\ nextGeneration' = nextGeneration /\ hostCaps' = hostCaps
  BY GenerationsAreNaturals DEF IInv, TypeOK, AttemptEnded, Notify
<1>2. /\ att \in [Generations -> Attempt] /\ active \in 0 .. MaxGeneration
      /\ nextGeneration \in Nat /\ attemptCtx # 0
      /\ g = nextGeneration - 1 /\ active < g /\ g < nextGeneration
  BY GenerationsAreNaturals DEF IInv, TypeOK, Newest
<1>3. \A h \in Generations : att'[h] = IF h = g THEN r ELSE att[h]
  BY <1>2
<1>4. active # 0 => active \in Generations /\ active # g /\ att'[active] = att[active]
  BY <1>2, <1>3, GenerationsAreNaturals
<1>5. TypeOK'
  <2>1. att' \in [Generations -> Attempt] /\ bindings' \subseteq Generations
    BY <1>1, <1>2 DEF IInv, TypeOK
  <2>2. Snapshot' = [active |-> active, attempt |-> 0, failure |-> lastFailure']
    BY <1>1 DEF Snapshot
  <2> QED
    BY <1>1, <1>2, <2>1, <2>2, GenerationsAreNaturals DEF IInv, TypeOK
<1>6. Reserved'
  BY <1>1, <1>2, <1>3, GenerationsAreNaturals DEF IInv, Reserved
<1>7. Phases'
  BY <1>3 DEF IInv, Phases, Live
<1>8. Newest'
  BY <1>1, <1>2, <1>4 DEF IInv, Newest
<1>9. SlotHoldsLiveAttempt'
  BY <1>1, <1>2, <1>3, GenerationsAreNaturals DEF IInv, SlotHoldsLiveAttempt
<1>10. AuthorityFollowsActive'
  <2>1. hostCaps' = IF active' = 0 THEN {} ELSE {att'[active'].key}
    BY <1>1, <1>4 DEF IInv, AuthorityFollowsActive
  <2>2. bindings' \subseteq {active', attemptCtx'} \ {0}
    BY <1>1 DEF IInv, AuthorityFollowsActive
  <2> QED
    BY <2>1, <2>2 DEF AuthorityFollowsActive
<1>11. NoAbandonedCandidate'
  BY <1>1, <1>3 DEF IInv, NoAbandonedCandidate
<1> QED
  BY <1>1, <1>5, <1>6, <1>7, <1>8, <1>9, <1>10, <1>11 DEF IInv, SubscribersCurrent

\* The active session is cleared: its bindings and its capability go with it.
LEMMA ClearPreserves ==
    ASSUME IInv, active # 0, active' = 0, RetireActive(active),
           nextGeneration' = nextGeneration, attemptCtx' = attemptCtx,
           lastFailure' \in Failures, Notify, Reserved', Phases',
           att' \in [Generations -> Attempt],
           \A h \in Generations :
               /\ att'[h].phase = att[h].phase /\ att'[h].up = att[h].up
               /\ att'[h].outcome = att[h].outcome
               /\ att'[h].stopping = att[h].stopping
    PROVE  IInv'
<1>1. /\ bindings' = bindings \ {active} /\ hostCaps' = hostCaps \ {att[active].key}
      /\ frame' = Snapshot'
  BY DEF RetireActive, Notify
<1>2. TypeOK'
  <2>1. Snapshot' = [active |-> 0, attempt |-> attemptCtx, failure |-> lastFailure']
    BY DEF Snapshot
  <2> QED
    BY <1>1, <2>1, GenerationsAreNaturals DEF IInv, TypeOK
<1>3. Newest'
  BY GenerationsAreNaturals DEF IInv, TypeOK, Newest
<1>4. SlotHoldsLiveAttempt'
  BY DEF IInv, SlotHoldsLiveAttempt
<1>5. AuthorityFollowsActive'
  BY <1>1 DEF IInv, AuthorityFollowsActive
<1>6. NoAbandonedCandidate'
  BY DEF IInv, NoAbandonedCandidate
<1> QED
  BY <1>1, <1>2, <1>3, <1>4, <1>5, <1>6 DEF IInv, SubscribersCurrent

-----------------------------------------------------------------------------
(* One lemma per remaining action.                                          *)

\* Only begun attempts take steps.
LEMMA TakesStep ==
    ASSUME IInv, NEW g \in Generations, att[g] # UnusedAttempt
    PROVE  /\ g < nextGeneration /\ att[g].phase # "unused"
           /\ att[g] \in Attempt
  BY GenerationsAreNaturals DEF IInv, TypeOK, Reserved

LEMMA OnReadyPreserves ==
    ASSUME IInv, NEW g \in Generations, OnReady(g)
    PROVE  IInv'
<1> DEFINE r == [att[g] EXCEPT !.reacted = TRUE,
                    !.phase = IF @ = "starting" THEN "staged" ELSE @]
<1>1. att[g].ready = "resolved" /\ att' = [att EXCEPT ![g] = r]
  BY DEF OnReady
<1>2. g < nextGeneration /\ att[g].phase # "unused" /\ att[g] \in Attempt
  BY <1>1, TakesStep DEF UnusedAttempt
<1>3. /\ r \in Attempt
      /\ r.key = att[g].key /\ r.outcome = att[g].outcome /\ r.reacted = TRUE
      /\ r.ending = att[g].ending /\ r.up = att[g].up /\ r.stopping = att[g].stopping
      /\ r.phase = IF att[g].phase = "starting" THEN "staged" ELSE att[g].phase
  BY <1>2 DEF Attempt, AttemptPhase
<1> HIDE DEF r
<1>4. Advances(att[g], r)
  BY <1>2, <1>3 DEF Advances, IInv, Phases, Live
<1>5. r.up /\ r.outcome # "committed" => r.stopping \/ attemptCtx = g
  BY <1>3 DEF IInv, NoAbandonedCandidate
<1> QED
  BY <1>1, <1>2, <1>3, <1>4, <1>5, AdvancePreserves DEF OnReady

LEMMA StopReportsPreserves ==
    ASSUME IInv, NEW g \in Generations, StopReports(g)
    PROVE  IInv'
<1> DEFINE r == [att[g] EXCEPT !.ending = "none",
                    !.outcome = IF @ = "pending" THEN att[g].ending ELSE @]
<1>1. /\ att[g].stopping /\ ~att[g].up /\ att[g].ending # "none"
      /\ att' = [att EXCEPT ![g] = r]
  BY DEF StopReports, SettlesOnReport
<1>2. g < nextGeneration /\ att[g].phase # "unused" /\ att[g] \in Attempt
  BY <1>1, TakesStep DEF UnusedAttempt
<1>3. /\ r \in Attempt
      /\ r.key = att[g].key /\ r.phase = att[g].phase /\ r.reacted = att[g].reacted
      /\ r.ending = "none" /\ r.up = att[g].up
      /\ r.outcome = IF att[g].outcome = "pending" THEN att[g].ending ELSE att[g].outcome
  BY <1>1, <1>2 DEF Attempt, Ends
<1> HIDE DEF r
<1>4. Advances(att[g], r)
  BY <1>1, <1>2, <1>3 DEF Advances, IInv, Phases, Live
<1>5. r.up /\ r.outcome # "committed" => r.stopping \/ attemptCtx = g
  BY <1>1, <1>3
<1> QED
  BY <1>1, <1>2, <1>3, <1>4, <1>5, AdvancePreserves DEF StopReports

\* The run's own steps: readiness decided, run closed.
LEMMA RunPreserves ==
    ASSUME IInv, NEW g \in Generations, RunReadies(g) \/ RunFailsToReady(g) \/ RunCloses(g)
    PROVE  IInv'
<1>1. /\ att[g].up
      /\ UNCHANGED <<nextGeneration, active, attemptCtx, lastFailure, bindings,
                     hostCaps, frame>>
  BY DEF RunReadies, RunFailsToReady, RunCloses
<1>2. g < nextGeneration /\ att[g].phase # "unused" /\ att[g] \in Attempt
  BY <1>1, TakesStep DEF UnusedAttempt
<1>3. PICK r \in Attempt :
         /\ att' = [att EXCEPT ![g] = r]
         /\ r.key = att[g].key /\ r.phase = att[g].phase
         /\ r.reacted = att[g].reacted /\ r.ending = att[g].ending
         /\ r.outcome = att[g].outcome /\ r.stopping = att[g].stopping
  <2>1. CASE RunReadies(g)
    <3> DEFINE r == [att[g] EXCEPT !.ready = "resolved"]
    <3>1. att' = [att EXCEPT ![g] = r]
      BY <2>1 DEF RunReadies
    <3>2. /\ r \in Attempt /\ r.key = att[g].key /\ r.phase = att[g].phase
          /\ r.reacted = att[g].reacted /\ r.ending = att[g].ending
          /\ r.outcome = att[g].outcome /\ r.stopping = att[g].stopping
      BY <1>2 DEF Attempt
    <3> QED
      BY <3>1, <3>2
  <2>2. CASE RunFailsToReady(g)
    <3> DEFINE r == [att[g] EXCEPT !.ready = "rejected"]
    <3>1. att' = [att EXCEPT ![g] = r]
      BY <2>2 DEF RunFailsToReady
    <3>2. /\ r \in Attempt /\ r.key = att[g].key /\ r.phase = att[g].phase
          /\ r.reacted = att[g].reacted /\ r.ending = att[g].ending
          /\ r.outcome = att[g].outcome /\ r.stopping = att[g].stopping
      BY <1>2 DEF Attempt
    <3> QED
      BY <3>1, <3>2
  <2>3. CASE RunCloses(g)
    <3> DEFINE r == [att[g] EXCEPT !.up = FALSE,
                        !.ready = IF @ = "pending" THEN "rejected" ELSE @]
    <3>1. att' = [att EXCEPT ![g] = r]
      BY <2>3 DEF RunCloses
    <3>2. /\ r \in Attempt /\ r.key = att[g].key /\ r.phase = att[g].phase
          /\ r.reacted = att[g].reacted /\ r.ending = att[g].ending
          /\ r.outcome = att[g].outcome /\ r.stopping = att[g].stopping
      BY <1>2 DEF Attempt
    <3> QED
      BY <3>1, <3>2
  <2> QED
    BY <2>1, <2>2, <2>3
<1>4. Advances(att[g], r)
  BY <1>2, <1>3 DEF Advances, IInv, Phases, Live
<1>5. r.up /\ r.outcome # "committed" => r.stopping \/ attemptCtx = g
  BY <1>1, <1>3 DEF IInv, NoAbandonedCandidate
<1> QED
  BY <1>1, <1>2, <1>3, <1>4, <1>5, AdvancePreserves

LEMMA CancelPreserves ==
    ASSUME IInv, NEW g \in Generations, Cancel(g)
    PROVE  IInv'
<1> DEFINE r == [att[g] EXCEPT !.phase = "cancelling", !.stopping = TRUE,
                               !.ending = "cancelled"]
<1>1. att[g].phase = "starting" /\ attemptCtx = g /\ att' = [att EXCEPT ![g] = r]
  BY DEF Cancel, IInv, SlotHoldsLiveAttempt
<1>2. att[g] \in Attempt
  BY DEF IInv, TypeOK
<1>3. /\ r \in Attempt /\ r.key = att[g].key /\ r.phase = "cancelling"
      /\ r.stopping /\ r.outcome = att[g].outcome
  BY <1>2 DEF Attempt, AttemptPhase, Ends
<1>4. AttemptEnded("none") /\ UNCHANGED <<nextGeneration, hostCaps>>
  BY DEF Cancel
<1>5. "none" \in Failures
  BY DEF Failures
<1> HIDE DEF r
<1> QED
  BY <1>1, <1>3, <1>4, <1>5, EndPreserves

LEMMA RollbackPreserves ==
    ASSUME IInv, NEW g \in Generations, NEW reason \in RollbackReasons,
           Rollback(g, reason)
    PROVE  IInv'
<1> DEFINE r == [att[g] EXCEPT !.phase = "ended", !.stopping = TRUE,
                               !.ending = "rolled-back"]
<1> DEFINE failure == RollbackFailureCategory(reason)
<1>1. att[g].phase = "staged" /\ attemptCtx = g /\ att' = [att EXCEPT ![g] = r]
  BY DEF Rollback, IInv, SlotHoldsLiveAttempt
<1>2. att[g] \in Attempt /\ att[g].reacted = TRUE
  BY <1>1 DEF IInv, TypeOK, Phases
<1>3. /\ r \in Attempt /\ r.key = att[g].key /\ r.phase = "ended"
      /\ r.reacted = TRUE /\ r.stopping /\ r.outcome = att[g].outcome
  BY <1>2 DEF Attempt, AttemptPhase, Ends
<1>4. AttemptEnded(failure) /\ UNCHANGED <<nextGeneration, hostCaps>>
  BY DEF Rollback
<1>5. failure \in Failures
  BY DEF Failures, RollbackReasons, RollbackFailureCategory
<1> HIDE DEF r, failure
<1> QED
  BY <1>1, <1>3, <1>4, <1>5, EndPreserves

LEMMA OnReadyRejectedPreserves ==
    ASSUME IInv, NEW g \in Generations, OnReadyRejected(g)
    PROVE  IInv'
<1>1. /\ att[g].ready = "rejected" /\ att[g].reacted # TRUE
      /\ UNCHANGED <<nextGeneration, hostCaps>>
  BY DEF OnReadyRejected
<1>2. g < nextGeneration /\ att[g].phase # "unused" /\ att[g] \in Attempt
  BY <1>1, TakesStep DEF UnusedAttempt
<1>3. att[g].phase \in {"starting", "cancelling"}
  BY <1>1, <1>2 DEF IInv, Phases, Attempt, AttemptPhase
<1>4. CASE att[g].phase = "cancelling"
  <2> DEFINE r == [att[g] EXCEPT !.reacted = TRUE]
  <2>1. /\ att' = [att EXCEPT ![g] = r]
        /\ UNCHANGED <<active, attemptCtx, bindings, lastFailure, frame>>
    BY <1>4 DEF OnReadyRejected
  <2>2. /\ r \in Attempt /\ r.key = att[g].key /\ r.phase = att[g].phase
        /\ r.reacted = TRUE /\ r.ending = att[g].ending
        /\ r.outcome = att[g].outcome /\ r.up = att[g].up
        /\ r.stopping = att[g].stopping
    BY <1>2 DEF Attempt
  <2> HIDE DEF r
  <2>3. Advances(att[g], r)
    BY <1>2, <2>2 DEF Advances, IInv, Phases, Live
  <2>4. r.up /\ r.outcome # "committed" => r.stopping \/ attemptCtx = g
    BY <2>2 DEF IInv, NoAbandonedCandidate
  <2> QED
    BY <1>1, <1>2, <2>1, <2>2, <2>3, <2>4, AdvancePreserves
<1>5. CASE att[g].phase = "starting"
  <2> DEFINE r == [att[g] EXCEPT !.reacted = TRUE, !.phase = "ended",
                                 !.stopping = TRUE, !.ending = "failed"]
  <2>1. /\ att' = [att EXCEPT ![g] = r] /\ AttemptEnded("readiness")
        /\ attemptCtx = g
    BY <1>5 DEF OnReadyRejected, IInv, SlotHoldsLiveAttempt
  <2>2. /\ r \in Attempt /\ r.key = att[g].key /\ r.phase = "ended"
        /\ r.reacted = TRUE /\ r.stopping /\ r.outcome = att[g].outcome
    BY <1>2 DEF Attempt, AttemptPhase, Ends
  <2>3. "readiness" \in Failures
    BY DEF Failures
  <2> HIDE DEF r
  <2> QED
    BY <1>1, <2>1, <2>2, <2>3, EndPreserves
<1> QED
  BY <1>3, <1>4, <1>5

LEMMA RevokePreserves == ASSUME IInv, Revoke PROVE IInv'
<1>1. /\ active # 0 /\ active' = 0 /\ RetireActive(active) /\ Notify
      /\ UNCHANGED <<nextGeneration, attemptCtx, lastFailure, att>>
  BY DEF Revoke
<1>2. /\ Reserved' /\ Phases' /\ lastFailure' \in Failures
      /\ att' \in [Generations -> Attempt]
  BY <1>1 DEF IInv, TypeOK, Reserved, Phases
<1> QED
  BY <1>1, <1>2, ClearPreserves

LEMMA ObserveActiveClosePreserves ==
    ASSUME IInv, NEW g \in Generations, ObserveActiveClose(g)
    PROVE  IInv'
<1> DEFINE r == [att[g] EXCEPT !.observed = FALSE]
<1>1. /\ att[g].observed /\ att' = [att EXCEPT ![g] = r]
      /\ UNCHANGED <<nextGeneration, attemptCtx>>
  BY DEF ObserveActiveClose
<1>2. g < nextGeneration /\ att[g].phase # "unused" /\ att[g] \in Attempt
  BY <1>1, TakesStep DEF UnusedAttempt
<1>3. /\ r \in Attempt /\ r.key = att[g].key /\ r.phase = att[g].phase
      /\ r.reacted = att[g].reacted /\ r.ending = att[g].ending
      /\ r.outcome = att[g].outcome /\ r.up = att[g].up
      /\ r.stopping = att[g].stopping
  BY <1>2 DEF Attempt
<1> HIDE DEF r
<1>4. Advances(att[g], r)
  BY <1>2, <1>3 DEF Advances, IInv, Phases, Live
<1>5. CASE active = g
  <2>1. /\ active' = 0 /\ RetireActive(active) /\ lastFailure' = "crash" /\ Notify
    BY <1>5 DEF ObserveActiveClose, ClosesActive
  <2>2. /\ att' \in [Generations -> Attempt] /\ Reserved' /\ Phases'
        /\ \A h \in Generations : att'[h] = IF h = g THEN r ELSE att[h]
    BY <1>1, <1>2, <1>3, <1>4, AdvancePreservesAttempts
  <2>3. \A h \in Generations :
            /\ att'[h].phase = att[h].phase /\ att'[h].up = att[h].up
            /\ att'[h].outcome = att[h].outcome
            /\ att'[h].stopping = att[h].stopping
    BY <2>2, <1>3
  <2>4. lastFailure' \in Failures /\ active # 0
    BY <2>1, <1>5, GenerationsAreNaturals DEF Failures
  <2> QED
    BY <1>1, <2>1, <2>2, <2>3, <2>4, ClearPreserves
<1>6. CASE active # g
  <2>1. UNCHANGED <<active, bindings, hostCaps, lastFailure, frame>>
    BY <1>6 DEF ObserveActiveClose, ClosesActive
  <2>2. r.up /\ r.outcome # "committed" => r.stopping \/ attemptCtx = g
    BY <1>3 DEF IInv, NoAbandonedCandidate
  <2> QED
    BY <1>1, <1>2, <1>3, <1>4, <2>1, <2>2, AdvancePreserves
<1> QED
  BY <1>5, <1>6

LEMMA BindPreserves ==
    ASSUME IInv, NEW g \in Generations, Bind(g)
    PROVE  IInv'
<1>1. /\ g \in {active, attemptCtx} \ {0} /\ bindings' = bindings \cup {g}
      /\ nextGeneration' = nextGeneration /\ active' = active
      /\ attemptCtx' = attemptCtx /\ lastFailure' = lastFailure /\ att' = att
      /\ hostCaps' = hostCaps /\ frame' = frame
  BY DEF Bind
<1>2. TypeOK' /\ Reserved' /\ Phases' /\ Newest'
  BY <1>1 DEF IInv, TypeOK, Reserved, Phases, Newest
<1>3. SlotHoldsLiveAttempt' /\ NoAbandonedCandidate'
  BY <1>1 DEF IInv, SlotHoldsLiveAttempt, NoAbandonedCandidate
<1>4. AuthorityFollowsActive' /\ SubscribersCurrent'
  BY <1>1 DEF IInv, AuthorityFollowsActive, SubscribersCurrent, Snapshot
<1> QED
  BY <1>2, <1>3, <1>4 DEF IInv

LEMMA CommitPreserves ==
    ASSUME IInv, NEW g \in Generations, Commit(g)
    PROVE  /\ IInv'
           /\ active' = g /\ attemptCtx = g /\ active < g
           /\ att[g].outcome = "pending"
           /\ \A h \in Generations :
                h # g => att'[h].outcome = att[h].outcome
<1> DEFINE r == [att[g] EXCEPT !.phase = "ended", !.outcome = "committed",
                               !.observed = TRUE]
<1> DEFINE old == [att[active] EXCEPT !.stopping = TRUE]
<1>1. att[g].phase = "staged" /\ attemptCtx = g /\ CommitCandidate(g)
  BY DEF Commit, IInv, SlotHoldsLiveAttempt
<1>2. /\ att \in [Generations -> Attempt] /\ active \in 0 .. MaxGeneration
      /\ nextGeneration \in 1 .. (MaxGeneration + 1) /\ lastFailure \in Failures
      /\ bindings \subseteq Generations /\ hostCaps \subseteq Projects
      /\ g # 0 /\ g = nextGeneration - 1 /\ active < g /\ g < nextGeneration
      /\ att[g].reacted = TRUE /\ att[g].outcome = "pending"
      /\ att[g].key \in Projects /\ att[g] \in Attempt
  BY <1>1, GenerationsAreNaturals DEF IInv, TypeOK, Newest, Phases, Live, Reserved
<1>3. /\ r \in Attempt /\ r.key = att[g].key /\ r.phase = "ended"
      /\ r.reacted = TRUE /\ r.outcome = "committed"
  BY <1>2 DEF Attempt, AttemptPhase
<1>4. active # 0 =>
        /\ active \in Generations /\ active # g
        /\ old \in Attempt /\ old.key = att[active].key
        /\ old.phase = att[active].phase /\ old.reacted = att[active].reacted
        /\ old.outcome = att[active].outcome /\ old.ending = att[active].ending
        /\ old.outcome = "committed"
  <2> SUFFICES ASSUME active # 0
               PROVE  /\ active \in Generations /\ active # g
                      /\ old \in Attempt /\ old.key = att[active].key
                      /\ old.phase = att[active].phase
                      /\ old.reacted = att[active].reacted
                      /\ old.outcome = att[active].outcome
                      /\ old.ending = att[active].ending
                      /\ old.outcome = "committed"
    OBVIOUS
  <2>1. active \in Generations /\ active # g
    BY <1>2, GenerationsAreNaturals
  <2>2. att[active] \in Attempt /\ att[active].outcome = "committed"
    BY <2>1, <1>2 DEF IInv, Newest
  <2> QED
    BY <2>1, <2>2 DEF Attempt
<1>5. /\ active' = g /\ attemptCtx' = 0 /\ nextGeneration' = nextGeneration
      /\ lastFailure' = lastFailure /\ frame' = Snapshot'
  BY <1>1 DEF CommitCandidate, Notify
<1>6. /\ att' \in [Generations -> Attempt]
      /\ \A h \in Generations :
            att'[h] = IF h = g THEN r ELSE IF h = active THEN old ELSE att[h]
  <2>1. CASE active = 0
    <3>1. att' = [att EXCEPT ![g] = r]
      BY <1>1, <2>1 DEF CommitCandidate
    <3>2. \A h \in Generations : h # active
      BY <2>1, GenerationsAreNaturals
    <3> HIDE DEF r, old
    <3> QED
      BY <3>1, <3>2, <1>2, <1>3
  <2>2. CASE active # 0
    <3>1. att' = [[att EXCEPT ![g] = r] EXCEPT ![active].stopping = TRUE]
      BY <1>1, <2>2 DEF CommitCandidate
    <3> HIDE DEF r
    <3>2. [att EXCEPT ![g] = r][active] = att[active]
      BY <2>2, <1>2, <1>4
    <3>3. att' = [[att EXCEPT ![g] = r] EXCEPT ![active] = old]
      BY <3>1, <3>2
    <3> HIDE DEF old
    <3> QED
      BY <3>3, <2>2, <1>2, <1>3, <1>4
  <2> QED
    BY <2>1, <2>2
<1> HIDE DEF r, old
<1>7. hostCaps' = {att[g].key} /\ bindings' \subseteq {g}
  <2>1. CASE active = 0
    BY <1>1, <2>1 DEF CommitCandidate, IInv, AuthorityFollowsActive
  <2>2. CASE active # 0
    BY <1>1, <2>2 DEF CommitCandidate, IInv, AuthorityFollowsActive
  <2> QED
    BY <2>1, <2>2
<1>8. TypeOK'
  <2>1. Snapshot' = [active |-> g, attempt |-> 0, failure |-> lastFailure]
    BY <1>5 DEF Snapshot
  <2> QED
    BY <1>2, <1>5, <1>6, <1>7, <2>1, GenerationsAreNaturals DEF TypeOK
<1>9. Reserved'
  <2> SUFFICES ASSUME NEW h \in Generations
               PROVE  /\ h >= nextGeneration => att'[h] = UnusedAttempt
                      /\ h < nextGeneration => /\ att'[h].key \in Projects
                                               /\ att'[h].phase # "unused"
    BY <1>5 DEF Reserved
  <2>1. CASE h = g
    BY <2>1, <1>2, <1>3, <1>6, GenerationsAreNaturals
  <2>2. CASE h # g /\ h = active
    BY <2>2, <1>2, <1>4, <1>6, GenerationsAreNaturals DEF IInv, Reserved
  <2>3. CASE h # g /\ h # active
    BY <2>3, <1>2, <1>6, GenerationsAreNaturals DEF IInv, Reserved
  <2> QED
    BY <2>1, <2>2, <2>3
<1>10. Phases'
  <2> SUFFICES ASSUME NEW h \in Generations
               PROVE  /\ att'[h].phase \in {"staged", "ended"} => att'[h].reacted = TRUE
                      /\ Live(att'[h]) => /\ att'[h].outcome = "pending"
                                          /\ att'[h].ending = "none"
    BY DEF Phases, Live
  <2>1. CASE h = g
    BY <2>1, <1>3, <1>6 DEF Live
  <2>2. CASE h # g /\ h = active
    BY <2>2, <1>4, <1>6, GenerationsAreNaturals DEF IInv, Phases, Live
  <2>3. CASE h # g /\ h # active
    BY <2>3, <1>6 DEF IInv, Phases
  <2> QED
    BY <2>1, <2>2, <2>3
<1>11. Newest'
  BY <1>2, <1>3, <1>5, <1>6 DEF Newest
<1>12. SlotHoldsLiveAttempt'
  <2> SUFFICES ASSUME NEW h \in Generations
               PROVE  att'[h].phase \notin {"starting", "staged"} /\ h # 0
    BY <1>5, GenerationsAreNaturals DEF SlotHoldsLiveAttempt
  <2>1. h # g => att[h].phase \notin {"starting", "staged"}
    BY <1>1 DEF IInv, SlotHoldsLiveAttempt
  <2> QED
    BY <2>1, <1>3, <1>4, <1>6, GenerationsAreNaturals
<1>13. AuthorityFollowsActive'
  BY <1>2, <1>3, <1>5, <1>6, <1>7 DEF AuthorityFollowsActive
<1>14. NoAbandonedCandidate'
  <2> SUFFICES ASSUME NEW h \in Generations, att'[h].up, att'[h].outcome # "committed"
               PROVE  att'[h].stopping \/ attemptCtx' = h
    BY DEF NoAbandonedCandidate
  <2>1. h # g /\ h # active
    BY <1>3, <1>4, <1>6, GenerationsAreNaturals
  <2> QED
    BY <2>1, <1>1, <1>6 DEF IInv, NoAbandonedCandidate
<1>15. \A h \in Generations : h # g => att'[h].outcome = att[h].outcome
  BY <1>4, <1>6, GenerationsAreNaturals
<1> QED
  BY <1>1, <1>2, <1>5, <1>8, <1>9, <1>10, <1>11, <1>12, <1>13, <1>14, <1>15
     DEF IInv, SubscribersCurrent

-----------------------------------------------------------------------------
(* What a step may never do: the theorem ForwardOnly needs.                 *)

\* The actions that activate nobody and leave every settled outcome alone.
LEMMA StepForward ==
    ASSUME IInv, [Next]_vars
    PROVE  /\ active' \notin {0, active} => active' = attemptCtx /\ active' > active
           /\ \A g \in Generations :
                att[g].outcome # "pending" => att'[g].outcome = att[g].outcome
<1> DEFINE Forward ==
       /\ active' \notin {0, active} => active' = attemptCtx /\ active' > active
       /\ \A g \in Generations :
            att[g].outcome # "pending" => att'[g].outcome = att[g].outcome
<1>1. att \in [Generations -> Attempt] /\ active \in Nat
  BY GenerationsAreNaturals DEF IInv, TypeOK
<1>2. ASSUME NEW g \in Generations, Commit(g) PROVE Forward
  <2>1. /\ active' = g /\ attemptCtx = g /\ active < g
        /\ att[g].outcome = "pending"
        /\ \A h \in Generations : h # g => att'[h].outcome = att[h].outcome
    BY <1>2, CommitPreserves
  <2> QED
    BY <2>1, <1>1, GenerationsAreNaturals
<1>3. ASSUME NEW p \in Projects, NEW launched \in BOOLEAN, Begin(p, launched)
      PROVE  Forward
  <2> DEFINE n == nextGeneration
  <2>1. active' = active /\ \A h \in Generations : h # n => att'[h] = att[h]
    BY <1>3, <1>1 DEF Begin
  <2>2. n \in Generations /\ att[n] = UnusedAttempt
    BY <1>3, GenerationsAreNaturals DEF Begin, IInv, Reserved
  <2>3. att[n].outcome = "pending"
    BY <2>2 DEF UnusedAttempt
  <2> QED
    BY <2>1, <2>2, <2>3
<1>4. CASE Revoke \/ UNCHANGED vars
  BY <1>4 DEF Revoke, vars
<1>5. ASSUME NEW g \in Generations,
             \/ Bind(g) \/ Cancel(g) \/ OnReady(g) \/ OnReadyRejected(g)
             \/ ObserveActiveClose(g) \/ RunReadies(g) \/ RunFailsToReady(g)
             \/ RunCloses(g)
             \/ \E reason \in RollbackReasons : Rollback(g, reason)
      PROVE  Forward
  <2>1. active' \in {0, active}
    BY <1>5 DEF Bind, Cancel, OnReady, OnReadyRejected, ObserveActiveClose,
                RunReadies, RunFailsToReady, RunCloses, Rollback, AttemptEnded
  <2>2. \A h \in Generations : att'[h].outcome = att[h].outcome
    <3>1. CASE Bind(g)
      BY <3>1 DEF Bind
    <3>2. CASE Cancel(g)
      BY <3>2, <1>1 DEF Cancel, Attempt
    <3>3. CASE OnReady(g)
      BY <3>3, <1>1 DEF OnReady, Attempt
    <3>4. CASE OnReadyRejected(g)
      BY <3>4, <1>1 DEF OnReadyRejected, Attempt
    <3>5. CASE ObserveActiveClose(g)
      BY <3>5, <1>1 DEF ObserveActiveClose, Attempt
    <3>6. CASE RunReadies(g)
      BY <3>6, <1>1 DEF RunReadies, Attempt
    <3>7. CASE RunFailsToReady(g)
      BY <3>7, <1>1 DEF RunFailsToReady, Attempt
    <3>8. CASE RunCloses(g)
      BY <3>8, <1>1 DEF RunCloses, Attempt
    <3>9. CASE \E reason \in RollbackReasons : Rollback(g, reason)
      BY <3>9, <1>1 DEF Rollback, Attempt
    <3> QED
      BY <1>5, <3>1, <3>2, <3>3, <3>4, <3>5, <3>6, <3>7, <3>8, <3>9
  <2> QED
    BY <2>1, <2>2
<1>6. ASSUME NEW g \in Generations, StopReports(g) PROVE Forward
  <2>1. active' = active
    BY <1>6 DEF StopReports
  <2>2. \A h \in Generations :
            att[h].outcome # "pending" => att'[h].outcome = att[h].outcome
    BY <1>6, <1>1 DEF StopReports, Attempt
  <2> QED
    BY <2>1, <2>2
<1> QED
  BY <1>2, <1>3, <1>4, <1>5, <1>6 DEF Next

-----------------------------------------------------------------------------
(* The invariant is inductive.                                             *)

LEMMA StepPreserves == IInv /\ [Next]_vars => IInv'
<1> SUFFICES ASSUME IInv, [Next]_vars PROVE IInv'
  OBVIOUS
<1>1. CASE UNCHANGED vars
  <2>1. TypeOK' /\ Reserved' /\ Phases' /\ Newest'
    BY <1>1 DEF vars, IInv, TypeOK, Reserved, Phases, Newest
  <2>2. SlotHoldsLiveAttempt' /\ NoAbandonedCandidate'
    BY <1>1 DEF vars, IInv, SlotHoldsLiveAttempt, NoAbandonedCandidate
  <2>3. AuthorityFollowsActive' /\ SubscribersCurrent'
    BY <1>1 DEF vars, IInv, AuthorityFollowsActive, SubscribersCurrent, Snapshot
  <2> QED
    BY <2>1, <2>2, <2>3 DEF IInv
<1>2. ASSUME NEW p \in Projects, NEW launched \in BOOLEAN, Begin(p, launched)
      PROVE  IInv'
  BY <1>2, BeginPreserves
<1>3. CASE Revoke
  BY <1>3, RevokePreserves
<1>4. ASSUME NEW g \in Generations, Bind(g) PROVE IInv'
  BY <1>4, BindPreserves
<1>5. ASSUME NEW g \in Generations, Commit(g) PROVE IInv'
  BY <1>5, CommitPreserves
<1>6. ASSUME NEW g \in Generations, NEW reason \in RollbackReasons, Rollback(g, reason)
      PROVE  IInv'
  BY <1>6, RollbackPreserves
<1>7. ASSUME NEW g \in Generations, Cancel(g) PROVE IInv'
  BY <1>7, CancelPreserves
<1>8. ASSUME NEW g \in Generations, OnReady(g) PROVE IInv'
  BY <1>8, OnReadyPreserves
<1>9. ASSUME NEW g \in Generations, OnReadyRejected(g) PROVE IInv'
  BY <1>9, OnReadyRejectedPreserves
<1>10. ASSUME NEW g \in Generations, StopReports(g) PROVE IInv'
  BY <1>10, StopReportsPreserves
<1>11. ASSUME NEW g \in Generations, ObserveActiveClose(g) PROVE IInv'
  BY <1>11, ObserveActiveClosePreserves
<1>12. ASSUME NEW g \in Generations, RunReadies(g) \/ RunFailsToReady(g) \/ RunCloses(g)
       PROVE  IInv'
  BY <1>12, RunPreserves
<1> QED
  BY <1>1, <1>2, <1>3, <1>4, <1>5, <1>6, <1>7, <1>8, <1>9, <1>10, <1>11, <1>12 DEF Next

\* The inductive invariant holds of every behaviour of the supervisor.
THEOREM SupervisorInvariant == Spec => []IInv
<1> QED
  BY InitEstablishes, StepPreserves, PTL DEF Spec

\* Every variable keeps its type, for any set of projects.
THEOREM SupervisorTypeOK == Spec => []TypeOK
<1>1. IInv => TypeOK
  BY DEF IInv
<1> QED
  BY <1>1, SupervisorInvariant, PTL

\* The slot and the attempts never drift apart: exactly the attempt in the slot
\* can still be staged or committed (activation-attempt.ts, session-supervisor.ts).
THEOREM SupervisorSlot == Spec => []SlotHoldsLiveAttempt
<1>1. IInv => SlotHoldsLiveAttempt
  BY DEF IInv
<1> QED
  BY <1>1, SupervisorInvariant, PTL

\* Host capability and client bindings never outlive the session or candidate
\* they were minted for (commitCandidate, retireActive, attemptEnded).
THEOREM SupervisorAuthority == Spec => []AuthorityFollowsActive
<1>1. IInv => AuthorityFollowsActive
  BY DEF IInv
<1> QED
  BY <1>1, SupervisorInvariant, PTL

\* Both together: what the run of the supervisor checks.
THEOREM SupervisorSeats == Spec => []SeatsAgree
<1>1. IInv => SeatsAgree
  BY DEF IInv, SeatsAgree
<1> QED
  BY <1>1, SupervisorInvariant, PTL

\* Subscribers have the snapshot of the state just reached (notify).
THEOREM SupervisorSubscribers == Spec => []SubscribersCurrent
<1>1. IInv => SubscribersCurrent
  BY DEF IInv
<1> QED
  BY <1>1, SupervisorInvariant, PTL

\* No candidate's run is left running by an attempt that ended.
THEOREM SupervisorNoAbandoned == Spec => []NoAbandonedCandidate
<1>1. IInv => NoAbandonedCandidate
  BY DEF IInv
<1> QED
  BY <1>1, SupervisorInvariant, PTL

\* Only the commit of the staged candidate activates a session, generations only
\* grow, and a settled activation outcome is final.
THEOREM SupervisorForwardOnly == Spec => ForwardOnly
<1>1. IInv /\ [Next]_vars =>
        [/\ active' \notin {0, active} => active' = attemptCtx /\ active' > active
         /\ \A g \in Generations :
              att[g].outcome # "pending" => att'[g].outcome = att[g].outcome]_vars
  BY StepForward
<1> QED
  BY <1>1, SupervisorInvariant, PTL DEF Spec, ForwardOnly

-----------------------------------------------------------------------------
(* The hosts' functions.                                                   *)

\* A set of numbers has a least one, and a greatest one if it is bounded.
LEMMA LeastNumber ==
    ASSUME NEW T, T \subseteq Nat, T # {}
    PROVE  \E x \in T : \A y \in T : x <= y
<1>1. PICK x \in T : \A y \in T : ~(<<y, x>> \in OpToRel(<, Nat))
  BY NatLessThanWellFounded, WFMin
<1>2. \A y \in T : x <= y
  <2> TAKE y \in T
  <2>1. x \in Nat /\ y \in Nat
    OBVIOUS
  <2>2. ~(y < x)
    BY <1>1, <2>1 DEF OpToRel
  <2> QED BY <2>1, <2>2
<1> QED
  BY <1>2

\* The greatest of a bounded set of numbers.
LEMMA GreatestNumber ==
    ASSUME NEW n \in Nat, NEW T, T \subseteq 0 .. n, T # {}
    PROVE  Max(T) \in T /\ \A y \in T : y <= Max(T)
<1> DEFINE U == {m \in Nat : n - m \in T}
<1>1. U \subseteq Nat /\ U # {}
  <2>1. PICK y \in T : TRUE
    OBVIOUS
  <2>2. n - y \in Nat /\ n - (n - y) = y
    BY <2>1
  <2> QED BY <2>1, <2>2
<1>2. PICK m \in U : \A k \in U : m <= k
  BY <1>1, LeastNumber
<1>3. n - m \in T
  OBVIOUS
<1>4. \A y \in T : n - m >= y
  <2> TAKE y \in T
  <2>1. y \in 0 .. n /\ n - y \in Nat /\ n - (n - y) = y
    OBVIOUS
  <2>2. n - y \in U
    BY <2>1
  <2>3. m <= n - y
    BY <1>2, <2>2
  <2> QED BY <2>1, <2>3
<1> HIDE DEF U
<1> DEFINE g == CHOOSE x \in T : \A y \in T : x >= y
<1>5. g \in T /\ \A y \in T : g >= y
  BY <1>3, <1>4
<1>6. Max(T) = g
  BY DEF Max
<1>7. \A y \in T : y \in Nat
  OBVIOUS
<1> QED
  BY <1>5, <1>6, <1>7

\* The strings, the model's own tokens among them.
Tokens == STRING \cup {"/", "\\", "?", "ns", "0", ":", Port}

\* The first place of a token, and what comes before it.
LEMMA FirstPlace ==
    ASSUME NEW seq \in Seq(Tokens), NEW x, Contains(seq, x)
    PROVE  \E i \in DOMAIN seq :
              /\ seq[i] = x /\ \A j \in 1 .. i - 1 : seq[j] # x
              /\ Before(seq, x) = SubSeq(seq, 1, i - 1)
<1> DEFINE T == {i \in 1 .. Len(seq) : seq[i] = x}
           P(i) == seq[i] = x /\ \A j \in 1 .. i - 1 : seq[j] # x
<1>1. T \subseteq Nat /\ T # {}
  BY DEF Contains
<1>2. PICK i \in T : \A y \in T : i <= y
  BY <1>1, LeastNumber
<1>3. i \in DOMAIN seq /\ P(i)
  BY <1>2
<1>4. (CHOOSE k \in DOMAIN seq : P(k)) \in DOMAIN seq /\ P(CHOOSE k \in DOMAIN seq : P(k))
  BY <1>3
<1>5. Before(seq, x) = SubSeq(seq, 1, (CHOOSE k \in DOMAIN seq : P(k)) - 1)
  BY DEF Before
<1> QED
  BY <1>4, <1>5

LEMMA BeforeIsSequence ==
    ASSUME NEW seq \in Seq(Tokens), NEW x
    PROVE  Before(seq, x) \in Seq(Tokens)
<1>1. CASE ~Contains(seq, x)
  BY <1>1 DEF Before
<1>2. CASE Contains(seq, x)
  <2>1. PICK i \in DOMAIN seq : Before(seq, x) = SubSeq(seq, 1, i - 1)
    BY <1>2, FirstPlace
  <2>2. i \in 1 .. Len(seq)
    OBVIOUS
  <2> QED BY <2>1, <2>2
<1> QED BY <1>1, <1>2

-----------------------------------------------------------------------------
(* Targets.                                                                *)

\* A path is in the reserved namespace by its first three tokens.
LEMMA ReservedByTokens ==
    ASSUME NEW path \in Seq(Tokens)
    PROVE  isReservedPath(path) <=>
              /\ Len(path) >= 2 /\ path[1] = "/" /\ path[2] = "ns"
              /\ Len(path) > 2 => path[3] = "/"
<1> DEFINE ns == <<"/", "ns", "/">>
<1>0. ns \in Seq(Tokens) /\ Len(ns) = 3 /\ ns[1] = "/" /\ ns[2] = "ns" /\ ns[3] = "/"
  BY DEF Tokens
<1>1. path = <<"/", "ns">> <=> Len(path) = 2 /\ path[1] = "/" /\ path[2] = "ns"
  <2>1. ASSUME Len(path) = 2, path[1] = "/", path[2] = "ns" PROVE path = <<"/", "ns">>
    <3>1. <<"/", "ns">> \in Seq(Tokens) /\ Len(<<"/", "ns">>) = 2
      BY DEF Tokens
    <3>2. \A i \in 1 .. 2 : path[i] = <<"/", "ns">>[i]
      BY <2>1
    <3> QED BY <2>1, <3>1, <3>2, SeqEqual
  <2> QED BY <2>1
<1>2. IsPrefix(ns, path) <=>
        Len(path) >= 3 /\ path[1] = "/" /\ path[2] = "ns" /\ path[3] = "/"
  <2>1. SubSeq(ns, 1, 3) = ns
    BY <1>0, SubSeqFull
  <2>2. ASSUME Len(path) >= 3
        PROVE  ns = SubSeq(path, 1, 3) <=> path[1] = "/" /\ path[2] = "ns" /\ path[3] = "/"
    <3>1. SubSeq(path, 1, 3) \in Seq(Tokens) /\ Len(SubSeq(path, 1, 3)) = 3
          /\ SubSeq(path, 1, 3)[1] = path[1] /\ SubSeq(path, 1, 3)[2] = path[2]
          /\ SubSeq(path, 1, 3)[3] = path[3]
      BY <2>2
    <3> HIDE DEF ns
    <3>2. ASSUME path[1] = "/", path[2] = "ns", path[3] = "/"
          PROVE  ns = SubSeq(path, 1, 3)
      <4>1. \A i \in 1 .. 3 : ns[i] = SubSeq(path, 1, 3)[i]
        BY <1>0, <3>1, <3>2
      <4> QED BY <1>0, <3>1, <4>1, SeqEqual
    <3> QED BY <1>0, <3>1, <3>2
  <2> HIDE DEF ns
  <2> QED BY <1>0, <2>1, <2>2 DEF IsPrefix
<1> HIDE DEF ns
<1>3. isReservedPath(path) <=> path = <<"/", "ns">> \/ IsPrefix(ns, path)
  BY DEF isReservedPath, ns
<1>4. Len(path) \in Nat
  OBVIOUS
<1>5. CASE Len(path) = 2
  BY <1>1, <1>2, <1>3, <1>5
<1>6. CASE Len(path) # 2
  <2>1. path # <<"/", "ns">>
    BY <1>1, <1>6
  <2>2. isReservedPath(path) <=> IsPrefix(ns, path)
    BY <1>3, <2>1
  <2>3. (Len(path) >= 3 <=> Len(path) >= 2) /\ (Len(path) >= 3 <=> Len(path) > 2)
    <3>1. \A n \in Nat : n # 2 => (n >= 3 <=> n >= 2) /\ (n >= 3 <=> n > 2)
      OBVIOUS
    <3> QED BY <1>4, <1>6, <3>1, Zenon
  <2> QED BY <1>2, <2>2, <2>3, Zenon
<1> QED
  BY <1>5, <1>6

\* A reading has the path's length, keeps "/" and "ns", and shows neither where the
\* router's view does not.
LEMMA ReadingFacts ==
    ASSUME NEW path \in Seq(Tokens), NEW reading \in Readings(path)
    PROVE  /\ reading \in Seq(Tokens) /\ Len(reading) = Len(path)
           /\ RouterView(path) \in Seq(Tokens) /\ Len(RouterView(path)) = Len(path)
           /\ \A i \in 1 .. Len(path) : \A t \in {"/", "ns"} :
                 /\ path[i] = t => reading[i] = t
                 /\ reading[i] = t => RouterView(path)[i] = t
<1> DEFINE K == {"%ns", "%2F", "%5C", "%3F"}
<1>2. PICK kinds \in SUBSET K, slash \in BOOLEAN : reading = Undone(path, kinds, slash)
  BY DEF Readings
<1>d. /\ Decoded("%ns") = "ns" /\ Decoded("%2F") = "/" /\ Decoded("%5C") = "\\"
      /\ Decoded("%3F") = "?" /\ \A t : t \notin K => Decoded(t) = t
  BY Zenon DEF Decoded
<1>3. \A t \in Tokens : Decoded(t) \in Tokens
  BY <1>d DEF Tokens
<1>4. DOMAIN path = 1 .. Len(path) /\ Len(path) \in Nat /\ \A i \in DOMAIN path : path[i] \in Tokens
  OBVIOUS
<1>5. reading \in [1 .. Len(path) -> Tokens]
  <2>1. "/" \in Tokens
    BY DEF Tokens
  <2> QED BY <1>2, <1>3, <1>4, <2>1 DEF Undone
<1>6. RouterView(path) \in [1 .. Len(path) -> Tokens]
  <2>1. "/" \in Tokens
    BY DEF Tokens
  <2> QED BY <1>3, <1>4, <2>1 DEF RouterView
<1>7. /\ reading \in Seq(Tokens) /\ Len(reading) = Len(path)
      /\ RouterView(path) \in Seq(Tokens) /\ Len(RouterView(path)) = Len(path)
  BY <1>4, <1>5, <1>6
<1>8. ASSUME NEW i \in 1 .. Len(path), NEW t \in {"/", "ns"}
      PROVE  /\ path[i] = t => reading[i] = t
             /\ reading[i] = t => RouterView(path)[i] = t
  <2> DEFINE token == IF path[i] \in kinds THEN Decoded(path[i]) ELSE path[i]
  <2>1. reading[i] = IF slash /\ token = "\\" THEN "/" ELSE token
    BY <1>2, <1>4 DEF Undone
  <2>2. RouterView(path)[i] = IF Decoded(path[i]) = "\\" THEN "/" ELSE Decoded(path[i])
    BY <1>4 DEF RouterView
  <2>3. path[i] \notin kinds \/ path[i] \in K
    OBVIOUS
  <2> QED BY <1>d, <2>1, <2>2, <2>3
<1> QED
  BY <1>7, <1>8

\* Every reading of a path that is in the reserved namespace is there too, and only
\* then if the router's view is.
LEMMA ReadingsAgree ==
    ASSUME NEW path \in Seq(Tokens), NEW reading \in Readings(path)
    PROVE  /\ isReservedPath(path) => isReservedPath(reading)
           /\ isReservedPath(reading) => isReservedPath(RouterView(path))
<1>1. Len(path) \in Nat
  OBVIOUS
<1> QED
  BY <1>1, ReadingFacts, ReservedByTokens

\* The class of a target says what its path and the router's view of it are.
LEMMA ClassFacts ==
    ASSUME NEW target
    PROVE  /\ classifyRequestTarget(target) = "natural" =>
                 ~isReservedPath(RouterView(RawPath(target)))
           /\ classifyRequestTarget(target) = "reserved" => isReservedPath(RawPath(target))
           /\ classifyApiRoute(target) = "command-endpoint" =>
                 classifyRequestTarget(target) = "reserved"
<1> DEFINE reserved == isReservedPath(RawPath(target))
           ambiguous == reserved # isReservedPath(RouterView(RawPath(target)))
<1>b. reserved \in BOOLEAN /\ isReservedPath(RouterView(RawPath(target))) \in BOOLEAN
  BY DEF isReservedPath, IsPrefix
<1>1. classifyRequestTarget(target) = "natural" => ~ambiguous /\ ~reserved
  BY Zenon DEF classifyRequestTarget
<1>2. classifyRequestTarget(target) = "reserved" => reserved
  BY Zenon DEF classifyRequestTarget
<1>3. classifyApiRoute(target) = "command-endpoint" =>
        classifyRequestTarget(target) = "reserved"
  <2>1. claimReservedPath(target).kind = classifyRequestTarget(target)
    BY DEF claimReservedPath
  <2>2. "command-endpoint" \notin Rejections
    BY DEF Rejections
  <2> QED BY <2>1, <2>2, Zenon DEF classifyApiRoute
<1> QED
  BY <1>b, <1>1, <1>2, <1>3

\* A call of the listener's classifier.
LEMMA TargetIsRead ==
    ASSUME ClassifyTarget PROVE TargetsRead'
<1>1. PICK target \in Targets :
        /\ call' = [to |-> "target", target |-> target]
        /\ answer' = [of |-> "target", class |-> classifyRequestTarget(target),
                      route |-> classifyApiRoute(target)]
  BY DEF ClassifyTarget
<1>2. RawPath(target) \in Seq(Tokens)
  <2>1. target \in Seq(STRING) /\ STRING \subseteq Tokens
    BY RequestsAssumption DEF Tokens
  <2> QED BY <2>1, SeqMonotonic, BeforeIsSequence DEF RawPath
<1>3. /\ call'.target = target /\ answer'.class = classifyRequestTarget(target)
      /\ answer'.route = classifyApiRoute(target)
  BY <1>1
<1>4. classifyRequestTarget(target) = "natural" =>
        \A path \in Readings(RawPath(target)) : ~isReservedPath(path)
  BY <1>2, ClassFacts, ReadingsAgree
<1>5. classifyRequestTarget(target) = "reserved" =>
        \A path \in Readings(RawPath(target)) : isReservedPath(path)
  BY <1>2, ClassFacts, ReadingsAgree
<1>6. classifyApiRoute(target) = "command-endpoint" => classifyRequestTarget(target) = "reserved"
  BY ClassFacts
<1> QED
  BY <1>3, <1>4, <1>5, <1>6 DEF TargetsRead

-----------------------------------------------------------------------------
(* Hosts.                                                                  *)

\* The digits that read as the port are zeros and the port.
LEMMA SignificantDigits ==
    ASSUME NEW digits \in Seq(Tokens), Significant(digits) = <<Port>>
    PROVE  /\ Len(digits) > 0 /\ digits[Len(digits)] = Port
           /\ \A i \in 1 .. Len(digits) - 1 : digits[i] = "0"
<1> DEFINE zeros == {n \in 0 .. Len(digits) : \A i \in 1 .. n : digits[i] = "0"}
           z == Max(zeros)
<1>1. Len(digits) \in Nat /\ zeros \subseteq 0 .. Len(digits) /\ 0 \in zeros
  OBVIOUS
<1>2. z \in zeros
  BY <1>1, GreatestNumber
<1>3. Significant(digits) = SubSeq(digits, z + 1, Len(digits))
  BY DEF Significant
<1>4. z \in 0 .. Len(digits) /\ \A i \in 1 .. z : digits[i] = "0"
  BY <1>2
<1> HIDE DEF z, zeros
<1>5. /\ Len(SubSeq(digits, z + 1, Len(digits))) = Len(digits) - z
      /\ Len(digits) - z > 0 => SubSeq(digits, z + 1, Len(digits))[1] = digits[z + 1]
  <2>1. \A i \in z + 1 .. Len(digits) : digits[i] \in Tokens
    BY <1>1, <1>4
  <2>2. /\ Len(SubSeq(digits, z + 1, Len(digits)))
             = IF z + 1 <= Len(digits) THEN Len(digits) - (z + 1) + 1 ELSE 0
        /\ \A i \in 1 .. Len(digits) - (z + 1) + 1 :
              SubSeq(digits, z + 1, Len(digits))[i] = digits[z + 1 + i - 1]
    BY <1>1, <1>4, <2>1, SubSeqProperties
  <2> QED BY <1>1, <1>4, <2>2
<1>6. Len(<<Port>>) = 1 /\ <<Port>>[1] = Port
  OBVIOUS
<1>7. Len(digits) - z = 1 /\ digits[z + 1] = Port
  <2>1. /\ Len(SubSeq(digits, z + 1, Len(digits))) = 1
        /\ SubSeq(digits, z + 1, Len(digits))[1] = Port
    BY <1>3, <1>6
  <2> QED BY <1>1, <1>4, <1>5, <2>1
<1> QED
  BY <1>1, <1>4, <1>7

\* Zeros and the port read as the port.
LEMMA ZerosAndPort ==
    ASSUME NEW n \in Nat, NEW digits \in Seq(Tokens), Len(digits) = n + 1,
           digits[n + 1] = Port, \A i \in 1 .. n : digits[i] = "0"
    PROVE  Significant(digits) = <<Port>>
<1> DEFINE zeros == {m \in 0 .. Len(digits) : \A i \in 1 .. m : digits[i] = "0"}
           z == Max(zeros)
<1>1. Port # "0"
  BY NamesAssumption
<1>2. zeros \subseteq 0 .. n + 1 /\ n \in zeros /\ n + 1 \notin zeros
  <2>1. n + 1 \in 1 .. n + 1 /\ Len(digits) = n + 1
    OBVIOUS
  <2> QED BY <1>1, <2>1
<1> HIDE DEF zeros
<1>3. z \in zeros /\ \A y \in zeros : y <= z
  <2>1. n + 1 \in Nat /\ zeros # {}
    BY <1>2
  <2> HIDE DEF z
  <2>2. Max(zeros) \in zeros /\ \A y \in zeros : y <= Max(zeros)
    BY <1>2, <2>1, GreatestNumber
  <2> QED BY <2>2 DEF z
<1>5. Significant(digits) = SubSeq(digits, z + 1, Len(digits))
  BY DEF Significant, zeros
<1> HIDE DEF z
<1>4. z = n
  <2>1. z \in 0 .. n + 1 /\ z # n + 1 /\ n <= z
    BY <1>2, <1>3
  <2> QED BY <2>1
<1>6. SubSeq(digits, n + 1, n + 1) \in Seq(Tokens) /\ Len(SubSeq(digits, n + 1, n + 1)) = 1
      /\ SubSeq(digits, n + 1, n + 1)[1] = Port
  OBVIOUS
<1>7. SubSeq(digits, n + 1, n + 1) = <<Port>>
  <2>1. <<Port>> \in Seq(Tokens) /\ Len(<<Port>>) = 1 /\ <<Port>>[1] = Port
    BY DEF Tokens
  <2>2. \A i \in 1 .. 1 : SubSeq(digits, n + 1, n + 1)[i] = <<Port>>[i]
    BY <1>6, <2>1
  <2> QED BY <1>6, <2>1, <2>2, SeqEqual
<1> QED
  BY <1>4, <1>5, <1>7

\* The spelling with a port, by its tokens.
LEMMA SpelledWithPort ==
    ASSUME NEW value \in Seq(Tokens), NEW name \in Tokens, NEW n \in Nat
    PROVE  value = <<name, ":">> \o [i \in 1 .. n |-> "0"] \o <<Port>> <=>
              /\ Len(value) = n + 3 /\ value[1] = name /\ value[2] = ":"
              /\ \A i \in 1 .. n : value[i + 2] = "0"
              /\ value[n + 3] = Port
<1> DEFINE zeros == [i \in 1 .. n |-> "0"]
           full == <<name, ":">> \o zeros \o <<Port>>
<1>1. zeros \in Seq(Tokens) /\ Len(zeros) = n /\ \A i \in 1 .. n : zeros[i] = "0"
  BY DEF Tokens
<1>2. /\ <<name, ":">> \in Seq(Tokens) /\ Len(<<name, ":">>) = 2
      /\ <<name, ":">>[1] = name /\ <<name, ":">>[2] = ":"
      /\ <<Port>> \in Seq(Tokens) /\ Len(<<Port>>) = 1 /\ <<Port>>[1] = Port
  BY DEF Tokens
<1> HIDE DEF zeros
<1>3. /\ <<name, ":">> \o zeros \in Seq(Tokens) /\ Len(<<name, ":">> \o zeros) = n + 2
      /\ (<<name, ":">> \o zeros)[1] = name /\ (<<name, ":">> \o zeros)[2] = ":"
      /\ \A i \in 1 .. n : (<<name, ":">> \o zeros)[i + 2] = "0"
  BY <1>1, <1>2, ConcatProperties
<1>4. /\ full \in Seq(Tokens) /\ Len(full) = n + 3
      /\ full[1] = name /\ full[2] = ":"
      /\ \A i \in 1 .. n : full[i + 2] = "0"
      /\ full[n + 3] = Port
  BY <1>2, <1>3, ConcatProperties
<1> HIDE DEF full
<1>5. ASSUME Len(value) = n + 3, value[1] = name, value[2] = ":",
             \A i \in 1 .. n : value[i + 2] = "0", value[n + 3] = Port
      PROVE  value = full
  <2>1. \A j \in 1 .. n + 3 : value[j] = full[j]
    <3> TAKE j \in 1 .. n + 3
    <3>1. j = 1 \/ j = 2 \/ j = n + 3 \/ j - 2 \in 1 .. n
      OBVIOUS
    <3>2. j - 2 \in 1 .. n => value[(j - 2) + 2] = "0" /\ full[(j - 2) + 2] = "0"
      BY <1>4, <1>5
    <3>3. (j - 2) + 2 = j
      OBVIOUS
    <3> QED BY <1>4, <1>5, <3>1, <3>2, <3>3
  <2> QED BY <1>4, <1>5, <2>1, SeqEqual
<1>6. value = <<name, ":">> \o [i \in 1 .. n |-> "0"] \o <<Port>> <=> value = full
  BY DEF full, zeros
<1> QED
  BY <1>4, <1>5, <1>6

\* A name alone.
LEMMA NameAlone ==
    ASSUME NEW value \in Seq(Tokens), NEW name \in Tokens
    PROVE  value = <<name>> <=> Len(value) = 1 /\ value[1] = name
<1>1. <<name>> \in Seq(Tokens) /\ Len(<<name>>) = 1 /\ <<name>>[1] = name
  OBVIOUS
<1>2. Len(value) = 1 /\ value[1] = name => value = <<name>>
  BY <1>1, SeqEqual
<1> QED
  BY <1>1, <1>2

\* What a host name is not.
LEMMA NameFacts ==
    ASSUME NEW host \in HostNames
    PROVE  /\ host \notin {"P", ".", ":", " ", "%", "@", "none", "longer"}
           /\ host \notin {"missing-host", "duplicate-host", "malformed-host",
                           "trailing-dot-host", "host-port-mismatch"}
BY NamesAssumption

\* What was checked of a header whose host was read.
LEMMA ReadIsChecked ==
    ASSUME NEW values, NEW host \in HostNames, parseHostHeader(values) = host
    PROVE  LET parts == splitHostPort(Head(values))
           IN  /\ values # <<>> /\ ~(Len(values) > 1)
               /\ parts.hostname # <<>> /\ parts.port # "other"
               /\ Len(parts.hostname) = 1 /\ Lower(parts.hostname[1]) = host
<1> DEFINE value == Head(values)
           parts == splitHostPort(value)
           bad == \E t \in ToSet(value) : t \in {" ", "%", "@"}
           inner == CASE bad -> "malformed-host"
                 [] parts.hostname = <<>> \/ HasEmptyLabel(parts.hostname) -> "malformed-host"
                 [] Last(parts.hostname) = "." -> "trailing-dot-host"
                 [] parts.port = "other" -> "host-port-mismatch"
                 [] OTHER -> IF Len(parts.hostname) = 1 THEN Lower(parts.hostname[1]) ELSE "longer"
<1>1. /\ host # "longer" /\ host # "missing-host" /\ host # "duplicate-host"
      /\ host # "malformed-host" /\ host # "trailing-dot-host" /\ host # "host-port-mismatch"
  BY NameFacts
<1>2. parseHostHeader(values) = CASE values = <<>> -> "missing-host"
          [] Len(values) > 1 -> "duplicate-host" [] OTHER -> inner
  BY DEF parseHostHeader
<1> HIDE DEF inner
<1>3. values # <<>> /\ ~(Len(values) > 1) /\ inner = host
  <2>1. values = <<>> => host \in {"missing-host", "duplicate-host"}
    BY <1>2, Zenon
  <2>2. values # <<>> /\ Len(values) > 1 => host = "duplicate-host"
    BY <1>2, Zenon
  <2>3. values # <<>> /\ ~(Len(values) > 1) => inner = host
    BY <1>2, Zenon
  <2> QED BY <1>1, <2>1, <2>2, <2>3
<1> HIDE DEF bad, parts
<1>4. ~bad /\ parts.hostname # <<>> /\ ~HasEmptyLabel(parts.hostname)
      /\ Last(parts.hostname) # "." /\ parts.port # "other"
  BY <1>1, <1>3, Zenon DEF inner
<1>5. inner = IF Len(parts.hostname) = 1 THEN Lower(parts.hostname[1]) ELSE "longer"
  BY <1>4, Zenon DEF inner
<1>6. Len(parts.hostname) = 1 /\ Lower(parts.hostname[1]) = host
  BY <1>1, <1>3, <1>5
<1> QED
  BY <1>3, <1>4, <1>6 DEF parts

\* The head of a sequence is its first element.
LEMMA HeadIsFirst ==
    ASSUME NEW S, NEW s \in Seq(S), s # <<>>
    PROVE  Head(s) = s[1]
OBVIOUS

\* A sequence of one.
LEMMA OneToken ==
    ASSUME NEW x
    PROVE  /\ <<x>> # <<>> /\ Len(<<x>>) = 1 /\ ~(Len(<<x>>) > 1) /\ DOMAIN <<x>> = {1}
           /\ <<x>>[1] = x /\ Head(<<x>>) = x /\ Last(<<x>>) = x
           /\ HasEmptyLabel(<<x>>) <=> x = "."
<1>1. <<x>> \in Seq({x}) /\ Len(<<x>>) = 1 /\ <<x>>[1] = x
  OBVIOUS
<1>2. <<x>> # <<>> /\ ~(Len(<<x>>) > 1) /\ DOMAIN <<x>> = {1}
  BY <1>1
<1>3. Head(<<x>>) = x
  BY <1>1, <1>2, HeadTailProperties
<1>4. Last(<<x>>) = x
  BY <1>1 DEF Last
<1>5. HasEmptyLabel(<<x>>) <=> x = "."
  BY <1>1, <1>2, <1>3 DEF HasEmptyLabel
<1> QED
  BY <1>1, <1>2, <1>3, <1>4, <1>5

\* A value whose parts pass the checks is read as its name.
LEMMA CheckedIsRead ==
    ASSUME NEW value, NEW name, NEW port, name # ".", port # "other",
           splitHostPort(value) = [hostname |-> <<name>>, port |-> port],
           ~\E t \in ToSet(value) : t \in {" ", "%", "@"}
    PROVE  parseHostHeader(<<value>>) = Lower(name)
<1> DEFINE parts == splitHostPort(value)
           bad == \E t \in ToSet(value) : t \in {" ", "%", "@"}
           inner == CASE bad -> "malformed-host"
                 [] parts.hostname = <<>> \/ HasEmptyLabel(parts.hostname) -> "malformed-host"
                 [] Last(parts.hostname) = "." -> "trailing-dot-host"
                 [] parts.port = "other" -> "host-port-mismatch"
                 [] OTHER -> IF Len(parts.hostname) = 1 THEN Lower(parts.hostname[1]) ELSE "longer"
<1>1. <<value>> # <<>> /\ ~(Len(<<value>>) > 1) /\ Head(<<value>>) = value
  BY OneToken
<1>2. parseHostHeader(<<value>>) = CASE <<value>> = <<>> -> "missing-host"
          [] Len(<<value>>) > 1 -> "duplicate-host" [] OTHER -> inner
  BY <1>1 DEF parseHostHeader
<1> HIDE DEF inner
<1>3. parseHostHeader(<<value>>) = inner
  BY <1>1, <1>2, Zenon
<1> HIDE DEF bad
<1>4. parts.hostname = <<name>> /\ parts.port = port
  <2> HIDE DEF parts
  <2>1. parts = [hostname |-> <<name>>, port |-> port]
    BY DEF parts
  <2>2. [hostname |-> <<name>>, port |-> port].hostname = <<name>>
    OBVIOUS
  <2>3. [hostname |-> <<name>>, port |-> port].port = port
    OBVIOUS
  <2> QED BY <2>1, <2>2, <2>3
<1> HIDE DEF parts
<1>5. /\ <<name>> # <<>> /\ Len(<<name>>) = 1 /\ <<name>>[1] = name
      /\ ~HasEmptyLabel(<<name>>) /\ Last(<<name>>) # "."
  BY OneToken
<1>6. ~bad
  BY DEF bad
<1>7. inner = IF Len(parts.hostname) = 1 THEN Lower(parts.hostname[1]) ELSE "longer"
  BY <1>4, <1>5, <1>6, Zenon DEF inner
<1> QED
  BY <1>3, <1>4, <1>5, <1>7

\* A host is read from its spellings, ...
LEMMA SpellingsAreRead ==
    ASSUME NEW value \in Seq(Tokens), NEW host \in HostNames, Spells(value, host)
    PROVE  parseHostHeader(<<value>>) = host
<1>0. PICK name \in {host} \cup (IF host = "p" THEN {"P"} ELSE {}) :
        \/ value = <<name>>
        \/ \E n \in 0 .. Len(value) :
              value = <<name, ":">> \o [i \in 1 .. n |-> "0"] \o <<Port>>
  BY DEF Spells
<1>1. /\ Lower(name) = host
      /\ name \notin {".", ":", " ", "%", "@"}
  BY <1>0, NameFacts DEF Lower
<1>p. Port \notin {"0", ".", ":", " ", "%", "@"}
  BY NamesAssumption
<1>2. CASE value = <<name>>
  <2>1. Len(value) = 1 /\ value[1] = name /\ DOMAIN value = {1}
    BY <1>2
  <2>2. ~Contains(value, ":") /\ ~\E t \in ToSet(value) : t \in {" ", "%", "@"}
    <3>1. \A i \in 1 .. Len(value) : value[i] = name
      BY <2>1
    <3>2. ~Contains(value, ":")
      BY <1>1, <3>1 DEF Contains
    <3>3. ToSet(value) = {name}
      BY <2>1 DEF ToSet
    <3> QED BY <1>1, <3>2, <3>3
  <2>3. splitHostPort(value) = [hostname |-> <<name>>, port |-> "none"]
    BY <1>2, <2>2, Zenon DEF splitHostPort
  <2>4. parseHostHeader(<<value>>) = Lower(name)
    BY <1>1, <2>2, <2>3, CheckedIsRead
  <2> QED BY <1>1, <2>4
<1>3. ASSUME NEW n \in 0 .. Len(value),
             value = <<name, ":">> \o [i \in 1 .. n |-> "0"] \o <<Port>>
      PROVE  parseHostHeader(<<value>>) = host
  <2>t. name \in Tokens
    <3>1. Len(value) > 0 /\ value[1] = name
      BY <1>3
    <3> QED BY <3>1
  <2>1. /\ Len(value) = n + 3 /\ value[1] = name /\ value[2] = ":"
        /\ \A i \in 1 .. n : value[i + 2] = "0"
        /\ value[n + 3] = Port
    BY <1>3, <2>t, SpelledWithPort
  <2>2. \A j \in 1 .. Len(value) : j = 1 \/ j = 2 \/ j = n + 3 \/ (j - 2 \in 1 .. n /\ (j - 2) + 2 = j)
    BY <2>1
  <2>3. \A j \in 1 .. Len(value) : j # 2 => value[j] # ":"
    BY <1>1, <1>p, <2>1, <2>2
  <2>4. ~\E t \in ToSet(value) : t \in {" ", "%", "@"}
    <3>1. \A j \in 1 .. Len(value) : value[j] \in {name, ":", "0", Port}
      BY <2>1, <2>2
    <3>2. ToSet(value) \subseteq {name, ":", "0", Port}
      BY <3>1 DEF ToSet
    <3> QED BY <1>1, <1>p, <3>2
  <2>5. Contains(value, ":")
    BY <2>1 DEF Contains
  <2>6. PICK k \in DOMAIN value : value[k] = ":" /\ Before(value, ":") = SubSeq(value, 1, k - 1)
    BY <2>5, FirstPlace
  <2>7. k = 2
    BY <2>3, <2>6
  <2>8. Before(value, ":") = <<name>>
    <3>1. SubSeq(value, 1, 1) \in Seq(Tokens) /\ Len(SubSeq(value, 1, 1)) = 1
          /\ SubSeq(value, 1, 1)[1] = name
      BY <2>1
    <3> QED BY <2>6, <2>7, <3>1, <2>t, NameAlone
  <2> DEFINE digits == SubSeq(value, Len(Before(value, ":")) + 2, Len(value))
  <2>9. Len(Before(value, ":")) = 1
    BY <2>8
  <2>10. /\ digits \in Seq(Tokens) /\ Len(digits) = n + 1
         /\ \A i \in 1 .. n : digits[i] = "0"
         /\ digits[n + 1] = Port
    <3>1. \A i \in 3 .. n + 3 : value[i] \in Tokens
      BY <2>1
    <3>2. /\ SubSeq(value, 3, n + 3) \in Seq(Tokens)
          /\ Len(SubSeq(value, 3, n + 3)) = n + 1
          /\ \A i \in 1 .. n + 1 : SubSeq(value, 3, n + 3)[i] = value[3 + i - 1]
      <4>1. /\ SubSeq(value, 3, n + 3) \in Seq(Tokens)
            /\ Len(SubSeq(value, 3, n + 3)) = IF 3 <= n + 3 THEN n + 3 - 3 + 1 ELSE 0
            /\ \A i \in 1 .. n + 3 - 3 + 1 : SubSeq(value, 3, n + 3)[i] = value[3 + i - 1]
        BY <3>1, SubSeqProperties
      <4> QED BY <4>1
    <3>3. digits = SubSeq(value, 3, n + 3)
      <4>1. Len(Before(value, ":")) + 2 = 3
        <5>1. \A m : m = 1 => m + 2 = 3
          OBVIOUS
        <5> QED BY <2>9, <5>1, Zenon
      <4>2. Len(value) = n + 3
        BY <2>1
      <4> QED BY <4>1, <4>2, Zenon DEF digits
    <3>4. \A i \in 1 .. n : i \in 1 .. n + 1 /\ 3 + i - 1 = i + 2
      OBVIOUS
    <3>5. n + 1 \in 1 .. n + 1 /\ 3 + (n + 1) - 1 = n + 3
      OBVIOUS
    <3> HIDE DEF digits
    <3> QED BY <2>1, <3>2, <3>3, <3>4, <3>5
  <2> HIDE DEF digits
  <2>11. Significant(digits) = <<Port>>
    BY <2>10, ZerosAndPort
  <2>12. digits # <<>> /\ ToSet(digits) \subseteq {"0", "1", Port}
    <3>1. \A j \in 1 .. n + 1 : digits[j] \in {"0", "1", Port}
      BY <2>10
    <3>2. DOMAIN digits = 1 .. n + 1
      BY <2>10
    <3> QED BY <2>10, <3>1, <3>2 DEF ToSet
  <2>13. splitHostPort(value) = [hostname |-> <<name>>, port |-> "ours"]
    <3> DEFINE D == SubSeq(value, Len(Before(value, ":")) + 2, Len(value))
    <3>1. D = digits
      BY DEF digits
    <3>2. splitHostPort(value) =
            CASE ~Contains(value, ":") -> [hostname |-> value, port |-> "none"]
              [] Contains(value, ":") /\ D # <<>> /\ ToSet(D) \subseteq {"0", "1", Port} ->
                   [hostname |-> Before(value, ":"),
                    port |-> IF Significant(D) = <<Port>> THEN "ours" ELSE "other"]
              [] OTHER -> [hostname |-> <<>>, port |-> "none"]
      BY DEF splitHostPort
    <3> HIDE DEF D
    <3>3. splitHostPort(value) = [hostname |-> Before(value, ":"),
                    port |-> IF Significant(D) = <<Port>> THEN "ours" ELSE "other"]
      BY <2>5, <2>12, <3>1, <3>2, Zenon
    <3> QED BY <2>8, <2>11, <3>1, <3>3
  <2>14. parseHostHeader(<<value>>) = Lower(name)
    BY <1>1, <2>4, <2>13, CheckedIsRead
  <2> QED BY <1>1, <2>14
<1> QED
  BY <1>0, <1>2, <1>3

\* ... and from nothing else.
LEMMA OnlySpellingsAreRead ==
    ASSUME NEW values \in Seq(Seq(Tokens)), NEW host \in HostNames, parseHostHeader(values) = host
    PROVE  Names(values, host)
<1> DEFINE value == Head(values)
<1>1. /\ values # <<>> /\ ~(Len(values) > 1)
      /\ splitHostPort(value).hostname # <<>> /\ splitHostPort(value).port # "other"
      /\ Len(splitHostPort(value).hostname) = 1
      /\ Lower(splitHostPort(value).hostname[1]) = host
  BY ReadIsChecked
<1>2. Len(values) = 1 /\ value = values[1] /\ value \in Seq(Tokens)
  <2>1. values # <<>> /\ ~(Len(values) > 1) /\ Len(values) \in Nat
    BY <1>1
  <2>2. Len(values) # 0
    BY <2>1, EmptySeq
  <2>3. Len(values) = 1
    <3>1. \A m \in Nat : m # 0 /\ ~(m > 1) => m = 1
      OBVIOUS
    <3> QED BY <2>1, <2>2, <3>1, Zenon
  <2>4. Head(values) = values[1]
    BY <2>1, HeadIsFirst
  <2>5. values[1] \in Seq(Tokens)
    BY <2>3
  <2> QED BY <2>3, <2>4, <2>5
<1> HIDE DEF value
<1> DEFINE hostname == Before(value, ":")
           digits == SubSeq(value, Len(hostname) + 2, Len(value))
<1>3. splitHostPort(value) =
        CASE ~Contains(value, ":") -> [hostname |-> value, port |-> "none"]
          [] Contains(value, ":") /\ digits # <<>> /\ ToSet(digits) \subseteq {"0", "1", Port} ->
               [hostname |-> hostname,
                port |-> IF Significant(digits) = <<Port>> THEN "ours" ELSE "other"]
          [] OTHER -> [hostname |-> <<>>, port |-> "none"]
  BY DEF splitHostPort
<1> HIDE DEF digits
<1>4. ASSUME NEW name, Lower(name) = host
      PROVE  name \in {host} \cup (IF host = "p" THEN {"P"} ELSE {})
  BY <1>4 DEF Lower
<1>5. CASE ~Contains(value, ":")
  <2>1. splitHostPort(value) = [hostname |-> value, port |-> "none"]
    BY <1>3, <1>5, Zenon
  <2>2. Len(value) = 1 /\ Lower(value[1]) = host
    BY <1>1, <2>1
  <2>3. value = <<value[1]>> /\ value[1] \in Tokens
    BY <1>2, <2>2, NameAlone
  <2>4. Spells(value, host)
    BY <1>4, <2>2, <2>3 DEF Spells
  <2> QED BY <1>2, <2>4 DEF Names
<1>6. CASE Contains(value, ":")
  <2>1. /\ digits # <<>> /\ ToSet(digits) \subseteq {"0", "1", Port}
        /\ splitHostPort(value) = [hostname |-> hostname,
               port |-> IF Significant(digits) = <<Port>> THEN "ours" ELSE "other"]
    <3>1. CASE digits # <<>> /\ ToSet(digits) \subseteq {"0", "1", Port}
      BY <1>3, <1>6, <3>1, Zenon
    <3>2. CASE ~(digits # <<>> /\ ToSet(digits) \subseteq {"0", "1", Port})
      <4>1. splitHostPort(value) = [hostname |-> <<>>, port |-> "none"]
        BY <1>3, <1>6, <3>2, Zenon
      <4> QED BY <1>1, <4>1
    <3> QED BY <3>1, <3>2
  <2>2. Len(hostname) = 1 /\ Lower(hostname[1]) = host
    BY <1>1, <2>1
  <2>3. Significant(digits) = <<Port>>
    BY <1>1, <2>1
  <2>4. PICK k \in DOMAIN value : value[k] = ":" /\ hostname = SubSeq(value, 1, k - 1)
    <3>1. value \in Seq(Tokens)
      BY <1>2
    <3> HIDE DEF hostname
    <3>2. \E i \in DOMAIN value :
              /\ value[i] = ":" /\ \A j \in 1 .. i - 1 : value[j] # ":"
              /\ hostname = SubSeq(value, 1, i - 1)
      BY <3>1, <1>6, FirstPlace DEF hostname
    <3> QED BY <3>2
  <2>5. k \in 1 .. Len(value) /\ Len(value) \in Nat /\ DOMAIN value = 1 .. Len(value)
    BY <1>2, <2>4
  <2>6. k = 2 /\ hostname[1] = value[1]
    <3>1. \A i \in 1 .. k - 1 : value[i] \in Tokens
      BY <1>2, <2>5
    <3>2. /\ Len(SubSeq(value, 1, k - 1)) = IF 1 <= k - 1 THEN k - 1 - 1 + 1 ELSE 0
          /\ \A i \in 1 .. k - 1 - 1 + 1 : SubSeq(value, 1, k - 1)[i] = value[1 + i - 1]
      BY <2>5, <3>1, SubSeqProperties
    <3> HIDE DEF hostname
    <3>3. Len(hostname) = IF 1 <= k - 1 THEN k - 1 - 1 + 1 ELSE 0
      BY <2>4, <3>2
    <3>4. k = 2
      <4>1. k \in Nat /\ Len(hostname) = 1
        BY <2>2, <2>5
      <4>2. \A l, m : m \in Nat /\ l = 1 /\ l = (IF 1 <= m - 1 THEN m - 1 - 1 + 1 ELSE 0) => m = 2
        OBVIOUS
      <4> QED BY <3>3, <4>1, <4>2, Zenon
    <3>5. hostname[1] = value[1 + 1 - 1]
      BY <2>4, <3>2, <3>4
    <3> QED BY <3>4, <3>5
  <2>7. digits = SubSeq(value, 3, Len(value))
    <3> HIDE DEF hostname
    <3>1. \A m : m = 1 => m + 2 = 3
      OBVIOUS
    <3>2. Len(hostname) = 1
      BY <2>2
    <3>3. Len(hostname) + 2 = 3
      BY <3>1, <3>2, Zenon
    <3> QED BY <3>3, Zenon DEF digits
  <2> HIDE DEF hostname
  <2>8. /\ digits \in Seq(Tokens) /\ Len(digits) = Len(value) - 2
        /\ \A i \in 1 .. Len(value) - 2 : digits[i] = value[i + 2]
    <3>1. \A i \in 3 .. Len(value) : value[i] \in Tokens
      BY <1>2, <2>5
    <3>2. /\ SubSeq(value, 3, Len(value)) \in Seq(Tokens)
          /\ Len(SubSeq(value, 3, Len(value)))
                = IF 3 <= Len(value) THEN Len(value) - 3 + 1 ELSE 0
          /\ \A i \in 1 .. Len(value) - 3 + 1 : SubSeq(value, 3, Len(value))[i] = value[3 + i - 1]
      BY <2>5, <3>1, SubSeqProperties
    <3>3. Len(value) >= 2
      BY <2>5, <2>6
    <3>4. \A i \in 1 .. Len(value) - 2 : i \in 1 .. Len(value) - 3 + 1 /\ 3 + i - 1 = i + 2
      BY <2>5
    <3>5. Len(digits) = Len(value) - 2
      BY <2>5, <2>7, <3>2, <3>3
    <3> QED BY <2>7, <3>2, <3>4, <3>5
  <2>9. /\ Len(digits) > 0 /\ digits[Len(digits)] = Port
        /\ \A i \in 1 .. Len(digits) - 1 : digits[i] = "0"
    BY <2>3, <2>8, SignificantDigits
  <2> DEFINE n == Len(value) - 3
  <2>10. n \in 0 .. Len(value) /\ n + 3 = Len(value) /\ n + 1 = Len(digits) /\ n + 1 \in 1 .. Len(value) - 2
    BY <2>5, <2>8, <2>9
  <2>11. value[n + 3] = Port /\ \A i \in 1 .. n : value[i + 2] = "0"
    <3>1. (n + 1) + 2 = n + 3 /\ \A i \in 1 .. n : i \in 1 .. Len(digits) - 1 /\ i \in 1 .. Len(value) - 2
      BY <2>5, <2>10
    <3> HIDE DEF n
    <3> QED BY <2>8, <2>9, <2>10, <3>1
  <2>12. value[1] \in Tokens /\ value[2] = ":"
    BY <1>2, <2>4, <2>5, <2>6
  <2> HIDE DEF n
  <2>13. value = <<value[1], ":">> \o [i \in 1 .. n |-> "0"] \o <<Port>>
    <3>1. n \in Nat /\ Len(value) = n + 3
      BY <2>10
    <3>2. value \in Seq(Tokens) /\ value[1] \in Tokens
      BY <1>2, <2>12
    <3>3. value[2] = ":" /\ value[n + 3] = Port /\ \A i \in 1 .. n : value[i + 2] = "0"
      BY <2>11, <2>12
    <3> QED BY <3>1, <3>2, <3>3, SpelledWithPort
  <2>14. Spells(value, host)
    BY <1>4, <2>2, <2>6, <2>10, <2>13 DEF Spells
  <2> QED BY <1>2, <2>14 DEF Names
<1> QED
  BY <1>5, <1>6

\* A Host header is read as a host exactly if it names it.
LEMMA HostIsNamed ==
    ASSUME NEW values \in Seq(Seq(Tokens)), NEW host \in HostNames
    PROVE  parseHostHeader(values) = host <=> Names(values, host)
<1>1. ASSUME Names(values, host) PROVE parseHostHeader(values) = host
  <2>1. Len(values) = 1 /\ values[1] \in Seq(Tokens) /\ Spells(values[1], host)
    BY <1>1 DEF Names
  <2>2. values = <<values[1]>>
    BY <2>1, SeqEqual, OneToken
  <2>3. parseHostHeader(<<values[1]>>) = host
    BY <2>1, SpellingsAreRead
  <2> QED BY <2>2, <2>3
<1> QED
  BY <1>1, OnlySpellingsAreRead

\* A call of the listener's host reader.
LEMMA HostIsRead ==
    ASSUME ReadHost PROVE HostsRead'
<1>1. PICK values \in {<<>>} \cup {<<v>> : v \in HostValues} \cup {<<v, v>> : v \in HostValues} :
        /\ call' = [to |-> "host", values |-> values]
        /\ answer' = [of |-> "host", host |-> parseHostHeader(values)]
  BY DEF ReadHost
<1>2. values \in Seq(Seq(Tokens))
  <2>1. STRING \subseteq Tokens
    BY DEF Tokens
  <2>2. \A v \in HostValues : v \in Seq(Tokens)
    BY <2>1, SeqMonotonic, RequestsAssumption
  <2>3. \A v \in HostValues : <<v>> \in Seq(Seq(Tokens)) /\ <<v, v>> \in Seq(Seq(Tokens))
    BY <2>2
  <2>4. <<>> \in Seq(Seq(Tokens))
    OBVIOUS
  <2>5. values = <<>> \/ \E v \in HostValues : values = <<v>> \/ values = <<v, v>>
    OBVIOUS
  <2> QED BY <2>3, <2>4, <2>5
<1>3. call'.values = values /\ answer'.host = parseHostHeader(values)
  BY <1>1
<1> QED
  BY <1>2, <1>3, HostIsNamed DEF HostsRead

\* A path's beginnings are paths, and their beginnings are its own.
LEMMA Beginnings ==
    ASSUME NEW S, NEW path \in Seq(S), NEW n \in 1 .. Len(path)
    PROVE  /\ SubSeq(path, 1, n) \in Seq(S) \ {<<>>} /\ Len(SubSeq(path, 1, n)) = n
           /\ \A m \in 1 .. n : SubSeq(SubSeq(path, 1, n), 1, m) = SubSeq(path, 1, m)
<1>1. Len(path) \in Nat /\ \A m \in 1 .. Len(path) : path[m] \in S
  OBVIOUS
<1>2. /\ SubSeq(path, 1, n) \in Seq(S)
      /\ Len(SubSeq(path, 1, n)) = IF 1 <= n THEN n - 1 + 1 ELSE 0
      /\ \A i \in 1 .. n - 1 + 1 : SubSeq(path, 1, n)[i] = path[1 + i - 1]
  BY <1>1, SubSeqProperties
<1> DEFINE way == SubSeq(path, 1, n)
<1> HIDE DEF way
<1>3. way \in Seq(S) /\ Len(way) = n /\ \A i \in 1 .. n : way[i] = path[i]
  BY <1>2 DEF way
<1>4. ASSUME NEW m \in 1 .. n PROVE SubSeq(way, 1, m) = SubSeq(path, 1, m)
  <2>1. \A i \in 1 .. m : way[i] = path[i] /\ path[i] \in S
    BY <1>1, <1>3
  <2>2. /\ SubSeq(way, 1, m) \in Seq(S)
        /\ Len(SubSeq(way, 1, m)) = IF 1 <= m THEN m - 1 + 1 ELSE 0
        /\ \A i \in 1 .. m - 1 + 1 : SubSeq(way, 1, m)[i] = way[1 + i - 1]
    BY <2>1, SubSeqProperties
  <2>3. /\ SubSeq(path, 1, m) \in Seq(S)
        /\ Len(SubSeq(path, 1, m)) = IF 1 <= m THEN m - 1 + 1 ELSE 0
        /\ \A i \in 1 .. m - 1 + 1 : SubSeq(path, 1, m)[i] = path[1 + i - 1]
    BY <2>1, SubSeqProperties
  <2>4. \A i \in 1 .. m : 1 + i - 1 = i
    OBVIOUS
  <2>5. m - 1 + 1 = m /\ (IF 1 <= m THEN m - 1 + 1 ELSE 0) = m
    OBVIOUS
  <2>6. \A i \in 1 .. m : SubSeq(way, 1, m)[i] = SubSeq(path, 1, m)[i]
    BY <2>1, <2>2, <2>3, <2>4, <2>5
  <2> QED BY <2>2, <2>3, <2>5, <2>6, SeqEqual
<1>5. way # <<>>
  BY <1>3
<1> QED
  BY <1>3, <1>4, <1>5 DEF way

\* What is above a path is a path, and what is above that is above it.
LEMMA AboveFacts ==
    ASSUME NEW path \in Path, NEW p \in Above(path)
    PROVE  p \in Path /\ Above(p) \subseteq Above(path)
<1>1. PICK n \in 1 .. Len(path) - 1 : p = SubSeq(path, 1, n)
  BY DEF Above
<1>2. path \in Seq(STRING) /\ Len(path) \in Nat /\ n \in 1 .. Len(path)
  BY <1>1 DEF Path
<1>3. p \in Seq(STRING) \ {<<>>} /\ Len(p) = n /\ \A m \in 1 .. n : SubSeq(p, 1, m) = SubSeq(path, 1, m)
  BY <1>1, <1>2, Beginnings
<1>4. \A m \in 1 .. n - 1 : m \in 1 .. n /\ m \in 1 .. Len(path) - 1
  BY <1>2
<1> QED
  BY <1>3, <1>4 DEF Above, Path

\* A real way is one whose steps are directories.
LEMMA RealSteps ==
    ASSUME NEW tree, NEW path
    PROVE  RealWay(tree, path) <=>
              \A p \in Above(path) : p \in DOMAIN tree /\ tree[p].type = "directory"
BY DEF RealWay, Above

\* Along a real way nothing hides a node.
LEMMA NothingHides ==
    ASSUME NEW tree, NEW path, RealWay(tree, path)
    PROVE  lstatSafe(tree, path) = NodeAt(tree, path)
<1>1. \A p \in Above(path) : Passable(NodeAt(tree, p))
  BY RealSteps DEF NodeAt, Passable
<1> QED
  BY <1>1 DEF lstatSafe

\* A way is checked to be real.
LEMMA AncestryIsRealWay ==
    ASSUME NEW tree, NEW path \in Path
    PROVE  verifyAncestry(tree, path) = "ok" <=> RealWay(tree, path)
<1> DEFINE bad == {p \in Above(path) : verifyStep(tree, p) # "ok"}
           first == CHOOSE p \in bad : \A q \in bad : Len(p) <= Len(q)
<1>1. ASSUME NEW p \in Above(path), verifyStep(tree, p) = "ok"
      PROVE  p \in DOMAIN tree /\ tree[p].type = "directory"
  <2> DEFINE node == lstatSafe(tree, p)
  <2>1. node.type = "directory"
    <3>1. CASE node.type = "directory"
      BY <3>1
    <3>2. CASE node.type \in {"absent", "sealed", "link"}
      <4>1. verifyStep(tree, p) = Statted(node)
        BY <3>2, Zenon DEF verifyStep
      <4>2. node.type \in {"absent", "sealed", "link"} => Statted(node) # "ok"
        <5> HIDE DEF node
        <5>1. CASE node.type = "absent"
          BY <5>1, Zenon DEF Statted
        <5>2. CASE node.type = "sealed"
          BY <5>2, Zenon DEF Statted
        <5>3. CASE node.type = "link"
          BY <5>3, Zenon DEF Statted
        <5> QED BY <5>1, <5>2, <5>3
      <4> QED BY <1>1, <3>2, <4>1, <4>2
    <3>3. CASE node.type \notin {"directory", "absent", "sealed", "link"}
      <4>1. verifyStep(tree, p) = "resource-type"
        BY <3>3, Zenon DEF verifyStep
      <4> QED BY <1>1, <4>1
    <3> QED BY <3>1, <3>2, <3>3
  <2>2. node # Absent
    BY <2>1 DEF Absent
  <2> QED BY <2>1, <2>2 DEF lstatSafe, NodeAt
<1>2. ASSUME RealWay(tree, path), NEW p \in Above(path)
      PROVE  verifyStep(tree, p) = "ok"
  <2>1. RealWay(tree, p)
    BY <1>2, AboveFacts, RealSteps
  <2>2. lstatSafe(tree, p) = tree[p] /\ tree[p].type = "directory"
    BY <1>2, <2>1, NothingHides, RealSteps DEF NodeAt
  <2> QED BY <2>2, Zenon DEF verifyStep
<1>3. ASSUME bad # {} PROVE verifyAncestry(tree, path) # "ok"
  <2>1. \A p \in Above(path) : Len(p) \in Nat
    BY AboveFacts DEF Path
  <2> DEFINE T == {Len(p) : p \in bad}
  <2>2. T \subseteq Nat /\ T # {}
    BY <1>3, <2>1
  <2>3. PICK n \in T : \A m \in T : n <= m
    <3> HIDE DEF T
    <3> QED BY <2>2, LeastNumber
  <2>4. \E p \in bad : \A q \in bad : Len(p) <= Len(q)
    BY <2>3
  <2>5. first \in bad
    <3> HIDE DEF bad
    <3> QED BY <2>4
  <2>6. verifyAncestry(tree, path) = verifyStep(tree, first)
    BY <1>3 DEF verifyAncestry
  <2> HIDE DEF first
  <2> QED BY <2>5, <2>6
<1>4. bad = {} => verifyAncestry(tree, path) = "ok"
  BY DEF verifyAncestry
<1>5. bad = {} <=> RealWay(tree, path)
  BY <1>1, <1>2, RealSteps
<1> QED
  BY <1>3, <1>4, <1>5

\* What the check of a file says of its node.
LEMMA StattedIsFile ==
    ASSUME NEW node
    PROVE  Statted(node) = "ok" <=> node.type = "file" /\ node.links = 1
<1>1. CASE node.type = "absent"
  BY <1>1, Zenon DEF Statted
<1>2. CASE node.type = "sealed"
  BY <1>2, Zenon DEF Statted
<1>3. CASE node.type = "link"
  BY <1>3, Zenon DEF Statted
<1>4. CASE node.type = "file" /\ node.links = 1
  <2>1. Statted(node) = "ok"
    BY <1>4, Zenon DEF Statted
  <2> QED BY <1>4, <2>1
<1>5. CASE /\ node.type \notin {"absent", "sealed", "link"}
           /\ ~(node.type = "file" /\ node.links = 1)
  <2>1. Statted(node) = "resource-type"
    BY <1>5, Zenon DEF Statted
  <2> QED BY <1>5, <2>1
<1> QED
  BY <1>1, <1>2, <1>3, <1>4, <1>5

\* The file a manifest lists is there, and is what it lists.
Fits(tree, resource) ==
    /\ OwnFile(tree, resource.path)
    /\ tree[resource.path].bytes = resource.bytes /\ tree[resource.path].hash = resource.hash
    /\ resource.executable => tree[resource.path].executable

\* The check of a file's own node.
LEMMA LeafFits ==
    ASSUME NEW node, NEW resource
    PROVE  verifyLeaf(node, resource) = "ok" <=>
              /\ node.type = "file" /\ node.links = 1 /\ node.readable
              /\ node.bytes = resource.bytes /\ node.hash = resource.hash
              /\ resource.executable => node.executable
<1>1. CASE Statted(node) # "ok"
  <2>1. verifyLeaf(node, resource) = Statted(node)
    BY <1>1, Zenon DEF verifyLeaf
  <2> QED BY <1>1, <2>1, StattedIsFile
<1>2. CASE Statted(node) = "ok" /\ resource.executable /\ ~node.executable
  <2>1. verifyLeaf(node, resource) = "executable-not-executable"
    BY <1>2, Zenon DEF verifyLeaf
  <2> QED BY <1>2, <2>1
<1>3. CASE Statted(node) = "ok" /\ ~(resource.executable /\ ~node.executable)
  <2> DEFINE contents ==
               CASE node.bytes # resource.bytes -> "resource-tampered"
                 [] node.bytes = resource.bytes /\ ~node.readable -> "resource-inaccessible"
                 [] OTHER -> IF node.hash = resource.hash THEN "ok" ELSE "resource-tampered"
  <2>1. verifyLeaf(node, resource) = contents
    BY <1>3, Zenon DEF verifyLeaf
  <2>2. CASE node.bytes # resource.bytes
    <3>1. contents = "resource-tampered"
      BY <2>2, Zenon
    <3> HIDE DEF contents
    <3> QED BY <2>1, <2>2, <3>1
  <2>3. CASE node.bytes = resource.bytes /\ ~node.readable
    <3>1. contents = "resource-inaccessible"
      BY <2>3, Zenon
    <3> HIDE DEF contents
    <3> QED BY <2>1, <2>3, <3>1
  <2>4. CASE node.bytes = resource.bytes /\ node.readable
    <3>1. contents = IF node.hash = resource.hash THEN "ok" ELSE "resource-tampered"
      BY <2>4, Zenon
    <3> HIDE DEF contents
    <3>2. node.type = "file" /\ node.links = 1
      BY <1>3, StattedIsFile
    <3> QED BY <1>3, <2>1, <2>4, <3>1, <3>2
  <2> QED BY <2>2, <2>3, <2>4
<1> QED
  BY <1>1, <1>2, <1>3

\* The check of a listed file, its way included.
LEMMA ResourceFits ==
    ASSUME NEW tree, NEW resource, resource.path \in Path
    PROVE  verifyResource(tree, resource) = "ok" <=> Fits(tree, resource)
<1> DEFINE path == resource.path
<1>1. verifyAncestry(tree, path) = "ok" <=> RealWay(tree, path)
  BY AncestryIsRealWay
<1>2. CASE ~RealWay(tree, path)
  <2>1. verifyResource(tree, resource) # "ok"
    BY <1>1, <1>2 DEF verifyResource
  <2> QED BY <1>2, <2>1 DEF Fits, OwnFile
<1>3. CASE RealWay(tree, path)
  <2>1. verifyResource(tree, resource) = verifyLeaf(NodeAt(tree, path), resource)
    BY <1>1, <1>3, NothingHides DEF verifyResource
  <2>2. CASE path \in DOMAIN tree
    <3>1. NodeAt(tree, path) = tree[path]
      BY <2>2 DEF NodeAt
    <3> QED BY <1>3, <2>1, <2>2, <3>1, LeafFits DEF Fits, OwnFile
  <2>3. CASE path \notin DOMAIN tree
    <3>1. NodeAt(tree, path).type = "absent"
      BY <2>3 DEF NodeAt, Absent
    <3> QED BY <2>1, <2>3, <3>1, LeafFits DEF Fits, OwnFile
  <2> QED BY <2>2, <2>3
<1> QED
  BY <1>2, <1>3

\* The manifest is read from a file, its own if the way to it is real.
LEMMA ManifestIsRead ==
    ASSUME NEW tree \in Bundles
    PROVE  LET node == tree[ManifestPath]
           IN  /\ readManifest(tree) = "ok" =>
                     ManifestPath \in DOMAIN tree /\ node.type = "file" /\ node.manifest.parses
               /\ RealWay(tree, ManifestPath) =>
                     (readManifest(tree) = "ok" <=>
                         /\ OwnFile(tree, ManifestPath) /\ node.bytes <= MaxManifestBytes
                         /\ node.manifest.parses /\ node.manifest.valid)
<1> DEFINE node == lstatSafe(tree, ManifestPath)
           contents ==
             CASE ~node.readable -> "resource-inaccessible"
               [] node.readable /\ node.bytes > MaxManifestBytes -> "manifest-invalid"
               [] OTHER -> IF node.manifest.parses
                           THEN IF node.manifest.valid THEN "ok" ELSE "manifest-invalid"
                           ELSE "manifest-unreadable"
<1>1. readManifest(tree) = CASE Statted(node) = "resource-missing" -> "manifest-missing"
          [] Statted(node) \notin {"ok", "resource-missing"} -> Statted(node)
          [] OTHER -> contents
  BY DEF readManifest
<1>2. contents = "ok" <=> /\ node.readable /\ ~(node.bytes > MaxManifestBytes)
                          /\ node.manifest.parses /\ node.manifest.valid
  <2> HIDE DEF node
  <2>1. CASE ~node.readable
    <3>1. contents = "resource-inaccessible"
      BY <2>1, Zenon
    <3> HIDE DEF contents
    <3> QED BY <2>1, <3>1
  <2>2. CASE node.readable /\ node.bytes > MaxManifestBytes
    <3>1. contents = "manifest-invalid"
      BY <2>2, Zenon
    <3> HIDE DEF contents
    <3> QED BY <2>2, <3>1
  <2>3. CASE node.readable /\ ~(node.bytes > MaxManifestBytes)
    <3>1. contents = IF node.manifest.parses
                     THEN IF node.manifest.valid THEN "ok" ELSE "manifest-invalid"
                     ELSE "manifest-unreadable"
      BY <2>3, Zenon
    <3> HIDE DEF contents
    <3> QED BY <2>3, <3>1
  <2> QED BY <2>1, <2>2, <2>3
<1> HIDE DEF node, contents
<1>3. readManifest(tree) = "ok" <=> Statted(node) = "ok" /\ contents = "ok"
  <2>1. CASE Statted(node) = "resource-missing"
    <3>1. readManifest(tree) = "manifest-missing"
      BY <1>1, <2>1, Zenon
    <3> QED BY <2>1, <3>1
  <2>2. CASE Statted(node) \notin {"ok", "resource-missing"}
    <3>1. readManifest(tree) = Statted(node)
      BY <1>1, <2>2, Zenon
    <3> QED BY <2>2, <3>1
  <2>3. CASE Statted(node) = "ok"
    <3>1. "ok" # "resource-missing"
      OBVIOUS
    <3>2. readManifest(tree) = contents
      BY <1>1, <2>3, <3>1, Zenon
    <3> QED BY <2>3, <3>2
  <2> QED BY <2>1, <2>2, <2>3
<1>4. node = Absent \/ (ManifestPath \in DOMAIN tree /\ node = tree[ManifestPath])
  <2>1. node = NodeAt(tree, ManifestPath) \/ node = Absent
    BY Zenon DEF node, lstatSafe
  <2>2. \/ NodeAt(tree, ManifestPath) = Absent
        \/ ManifestPath \in DOMAIN tree /\ NodeAt(tree, ManifestPath) = tree[ManifestPath]
    BY Zenon DEF NodeAt
  <2> QED BY <2>1, <2>2, Zenon
<1>5. readManifest(tree) = "ok" =>
        /\ ManifestPath \in DOMAIN tree /\ node = tree[ManifestPath] /\ node.type = "file"
        /\ node.manifest.parses
  <2>1. Absent.type # "file"
    BY DEF Absent
  <2> QED BY <1>2, <1>3, <1>4, <2>1, StattedIsFile
<1>6. ASSUME RealWay(tree, ManifestPath)
      PROVE  readManifest(tree) = "ok" <=>
               /\ OwnFile(tree, ManifestPath) /\ tree[ManifestPath].bytes <= MaxManifestBytes
               /\ tree[ManifestPath].manifest.parses /\ tree[ManifestPath].manifest.valid
  <2>1. node = NodeAt(tree, ManifestPath)
    BY <1>6, NothingHides DEF node
  <2>2. CASE ManifestPath \in DOMAIN tree /\ tree[ManifestPath].type = "file"
    <3>1. node = tree[ManifestPath]
      BY <2>1, <2>2 DEF NodeAt
    <3>2. node.bytes \in Nat /\ MaxManifestBytes \in Nat
      BY <2>2, <3>1, BundlesAssumption
    <3>3. ~(node.bytes > MaxManifestBytes) <=> node.bytes <= MaxManifestBytes
      BY <3>2
    <3>4. Statted(node) = "ok" <=> node.links = 1
      BY <2>2, <3>1, StattedIsFile
    <3> QED BY <1>2, <1>3, <1>6, <2>2, <3>1, <3>3, <3>4 DEF OwnFile
  <2>3. CASE ~(ManifestPath \in DOMAIN tree /\ tree[ManifestPath].type = "file")
    BY <1>5, <2>3 DEF OwnFile
  <2> QED BY <2>2, <2>3
<1> QED
  BY <1>5, <1>6

\* The layout is complete, and the node a start would run can be run.
LEMMA LayoutIsComplete ==
    ASSUME NEW manifest, Len(manifest.resources) \in Nat,
           DOMAIN manifest.resources = 1 .. Len(manifest.resources)
    PROVE  checkRequiredLayout(manifest) = "ok" <=>
              /\ {NodeExecutable, ControlPlaneEntry, ModuleTypeMarker}
                    \subseteq {r.path : r \in ToSet(manifest.resources)}
              /\ \E i \in DOMAIN manifest.resources :
                    /\ manifest.resources[i].path = NodeExecutable
                    /\ manifest.resources[i].executable
                    /\ \A j \in DOMAIN manifest.resources :
                          manifest.resources[j].path = NodeExecutable => j <= i
<1> DEFINE resources == manifest.resources
           listed == {r.path : r \in ToSet(resources)}
           places == {i \in DOMAIN resources : resources[i].path = NodeExecutable}
           last == Max(places)
           runs == \E i \in DOMAIN resources :
                     /\ resources[i].path = NodeExecutable /\ resources[i].executable
                     /\ \A j \in DOMAIN resources : resources[j].path = NodeExecutable => j <= i
<1>1. checkRequiredLayout(manifest) =
        CASE NodeExecutable \notin listed -> "layout-missing"
          [] NodeExecutable \in listed /\ ~resources[last].executable -> "executable-not-executable"
          [] OTHER -> IF {ControlPlaneEntry, ModuleTypeMarker} \subseteq listed
                      THEN "ok" ELSE "layout-missing"
  BY DEF checkRequiredLayout
<1>2. NodeExecutable \in listed <=> places # {}
  BY DEF ToSet
<1>3. places # {} => last \in places /\ \A j \in places : j <= last
  <2>1. places \subseteq 0 .. Len(resources)
    OBVIOUS
  <2> HIDE DEF places
  <2> QED BY <2>1, GreatestNumber
<1>4. places # {} => (runs <=> resources[last].executable)
  <2> HIDE DEF last
  <2>1. \A i \in places : i \in Nat
    OBVIOUS
  <2>2. ASSUME places # {}, runs PROVE resources[last].executable
    <3>1. PICK i \in places : resources[i].executable /\ \A j \in places : j <= i
      BY <2>2
    <3>2. i = last
      BY <1>3, <2>1, <2>2, <3>1
    <3> QED BY <3>1, <3>2
  <2>3. ASSUME places # {}, resources[last].executable PROVE runs
    <3>1. last \in places /\ \A j \in places : j <= last
      BY <1>3, <2>3
    <3> QED BY <2>3, <3>1
  <2> QED BY <2>2, <2>3
<1>5. places = {} => ~runs
  OBVIOUS
<1> HIDE DEF listed, places, last, runs, resources
<1>6. checkRequiredLayout(manifest) = "ok" <=>
        /\ NodeExecutable \in listed /\ resources[last].executable
        /\ {ControlPlaneEntry, ModuleTypeMarker} \subseteq listed
  <2>1. CASE NodeExecutable \notin listed
    <3>1. checkRequiredLayout(manifest) = "layout-missing"
      BY <1>1, <2>1, Zenon
    <3> QED BY <2>1, <3>1
  <2>2. CASE NodeExecutable \in listed /\ ~resources[last].executable
    <3>1. checkRequiredLayout(manifest) = "executable-not-executable"
      BY <1>1, <2>2, Zenon
    <3> QED BY <2>2, <3>1
  <2>3. CASE NodeExecutable \in listed /\ resources[last].executable
    <3>1. checkRequiredLayout(manifest) =
            IF {ControlPlaneEntry, ModuleTypeMarker} \subseteq listed
            THEN "ok" ELSE "layout-missing"
      BY <1>1, <2>3, Zenon
    <3> QED BY <2>3, <3>1
  <2> QED BY <2>1, <2>2, <2>3
<1>7. checkRequiredLayout(manifest) = "ok" <=>
        {NodeExecutable, ControlPlaneEntry, ModuleTypeMarker} \subseteq listed /\ runs
  BY <1>2, <1>4, <1>5, <1>6
<1> QED
  BY <1>7 DEF listed, runs, resources

\* A subtree's root begins what is in it.
LEMMA RootBegins ==
    ASSUME NEW root \in Subtrees, NEW path \in Path
    PROVE  IsPrefix(root, path) <=> SubSeq(path, 1, 1) = root
<1>1. PICK x \in {"astroix-runtime", "node"} : root = <<x>>
  BY DEF Subtrees
<1>2. Len(root) = 1 /\ SubSeq(root, 1, Len(root)) = root
  <2>1. <<x>> \in Seq({x}) /\ Len(<<x>>) = 1
    OBVIOUS
  <2>2. SubSeq(<<x>>, 1, Len(<<x>>)) = <<x>>
    BY <2>1, SubSeqFull
  <2> QED BY <1>1, <2>1, <2>2, Zenon
<1>3. Len(path) \in Nat /\ Len(path) # 0
  BY EmptySeq DEF Path
<1>4. Len(root) <= Len(path)
  BY <1>2, <1>3
<1> QED
  BY <1>2, <1>4 DEF IsPrefix

\* A root is a path on its own; what leads on from it is in its subtree.
LEMMA RootsHaveNothingAbove ==
    ASSUME NEW root \in Subtrees
    PROVE  Above(root) = {} /\ IsPrefix(root, root)
<1>1. PICK x \in {"astroix-runtime", "node"} : root = <<x>>
  BY DEF Subtrees
<1>2. Len(root) = 1 /\ Len(root) <= Len(root)
  BY <1>1
<1>3. Above(root) = {}
  BY <1>2 DEF Above
<1> QED
  BY <1>2, <1>3 DEF IsPrefix

\* The walk of real subtrees finds nothing exactly if what is in them is listed.
LEMMA InventoryIsComplete ==
    ASSUME NEW tree \in Bundles, NEW listed,
           \A p \in listed \cup {ManifestPath} : p \in DOMAIN tree => tree[p].type = "file",
           \A root \in Subtrees : root \in DOMAIN tree /\ tree[root].type = "directory"
    PROVE  Unlisted(tree, listed) = {} /\ Sealed(tree) = {} <=>
              /\ \A p \in {q \in DOMAIN tree : \E root \in Subtrees : IsStrictPrefix(root, q)} :
                    RealWay(tree, p) =>
                       \/ tree[p].type = "directory" /\ tree[p].readable
                       \/ p = ManifestPath \/ p \in listed
              /\ \A root \in Subtrees : tree[root].readable
<1> DEFINE inside == {q \in DOMAIN tree : \E root \in Subtrees : IsStrictPrefix(root, q)}
<1>0. \A p \in DOMAIN tree : p \in Path
  BY BundlesAssumption
<1>1. ASSUME Unlisted(tree, listed) = {}, Sealed(tree) = {}, NEW p \in inside, RealWay(tree, p)
      PROVE  \/ tree[p].type = "directory" /\ tree[p].readable
             \/ p = ManifestPath \/ p \in listed
  <2>1. PICK root \in Subtrees : IsPrefix(root, p) /\ p # root
    BY <1>1 DEF IsStrictPrefix
  <2>2. p \in Path /\ p \in DOMAIN tree
    BY <1>0, <1>1
  <2>3. \A q \in Above(p) : q \in DOMAIN tree /\ tree[q].type = "directory"
    BY <1>1, RealSteps
  <2>4. CASE tree[p].type = "directory"
    <3>1. \A q \in Above(p) : NodeAt(tree, q).type = "directory"
      BY <2>3 DEF NodeAt
    <3>2. p \notin Sealed(tree)
      BY <1>1
    <3> QED BY <2>1, <2>2, <2>4, <3>1, <3>2 DEF Sealed
  <2>5. CASE tree[p].type # "directory"
    <3>1. ASSUME NEW q \in Above(p) PROVE Listable(NodeAt(tree, q))
      <4>1. q \in Path /\ Above(q) \subseteq Above(p)
        BY <2>2, AboveFacts
      <4>2. SubSeq(q, 1, 1) = SubSeq(p, 1, 1)
        <5>1. PICK n \in 1 .. Len(p) - 1 : q = SubSeq(p, 1, n)
          BY <3>1 DEF Above
        <5>2. p \in Seq(STRING) /\ n \in 1 .. Len(p) /\ 1 \in 1 .. n
          BY <2>2, <5>1 DEF Path
        <5> QED BY <5>1, <5>2, Beginnings
      <4>3. IsPrefix(root, q)
        BY <2>1, <2>2, <4>1, <4>2, RootBegins
      <4>4. \A r \in Above(q) : NodeAt(tree, r).type = "directory"
        BY <2>3, <4>1 DEF NodeAt
      <4>5. q \in DOMAIN tree /\ tree[q].type = "directory"
        BY <2>3, <3>1
      <4>6. q \notin Sealed(tree)
        BY <1>1
      <4>7. tree[q].readable
        BY <4>3, <4>4, <4>5, <4>6 DEF Sealed
      <4> QED BY <4>5, <4>7 DEF Listable, NodeAt
    <3>2. p \notin Unlisted(tree, listed)
      BY <1>1
    <3>3. \E r \in Subtrees : IsStrictPrefix(r, p)
      BY <1>1
    <3> QED BY <2>2, <2>5, <3>1, <3>2, <3>3 DEF Unlisted
  <2> QED BY <2>4, <2>5
<1>2. ASSUME Sealed(tree) = {}, NEW root \in Subtrees PROVE tree[root].readable
  <2>1. root \notin Sealed(tree)
    BY <1>2
  <2>2. IsPrefix(root, root) /\ Above(root) = {}
    BY RootsHaveNothingAbove
  <2>3. \E r \in Subtrees : IsPrefix(r, root)
    BY <2>2
  <2>4. root \in DOMAIN tree /\ tree[root].type = "directory"
    OBVIOUS
  <2> QED BY <2>1, <2>2, <2>3, <2>4 DEF Sealed
<1>3. ASSUME NEW p \in Unlisted(tree, listed)
      PROVE  /\ p \in inside /\ RealWay(tree, p) /\ tree[p].type # "directory"
             /\ p # ManifestPath /\ p \notin listed
  <2>1. \A q \in Above(p) :
          Listable(NodeAt(tree, q)) \/ (q \in Subtrees /\ NodeAt(tree, q) = LinkToDirectory)
    BY DEF Unlisted
  <2>2. \A q \in Above(p) : q \in DOMAIN tree /\ tree[q].type = "directory"
    <3> TAKE q \in Above(p)
    <3>1. CASE q \in Subtrees
      BY <3>1
    <3>2. CASE q \notin Subtrees
      <4>1. NodeAt(tree, q).type = "directory"
        BY <2>1, <3>2 DEF Listable
      <4> QED BY <4>1 DEF NodeAt, Absent
    <3> QED BY <3>1, <3>2
  <2>3. RealWay(tree, p)
    BY <2>2, RealSteps
  <2> QED BY <2>3 DEF Unlisted
<1>4. ASSUME NEW p \in Sealed(tree)
      PROVE  /\ p \in DOMAIN tree /\ tree[p].type = "directory" /\ ~tree[p].readable
             /\ p \in Subtrees \/ (p \in inside /\ RealWay(tree, p))
  <2>1. p \in DOMAIN tree /\ tree[p].type = "directory" /\ ~tree[p].readable
    BY DEF Sealed
  <2>2. PICK root \in Subtrees : IsPrefix(root, p)
    BY DEF Sealed
  <2>3. p # root => p \in inside
    BY <2>1, <2>2 DEF IsStrictPrefix
  <2>4. \A q \in Above(p) : NodeAt(tree, q).type = "directory"
    BY DEF Sealed
  <2>5. \A q \in Above(p) : q \in DOMAIN tree /\ tree[q].type = "directory"
    BY <2>4 DEF NodeAt, Absent
  <2>6. RealWay(tree, p)
    BY <2>5, RealSteps
  <2> QED BY <2>1, <2>2, <2>3, <2>6
<1>5. ASSUME \A p \in inside : RealWay(tree, p) =>
                 \/ tree[p].type = "directory" /\ tree[p].readable
                 \/ p = ManifestPath \/ p \in listed,
             \A root \in Subtrees : tree[root].readable
      PROVE  Unlisted(tree, listed) = {} /\ Sealed(tree) = {}
  <2>1. \A p \in Unlisted(tree, listed) : FALSE
    BY <1>3, <1>5
  <2>2. \A p \in Sealed(tree) : FALSE
    <3> TAKE p \in Sealed(tree)
    <3>1. p \in DOMAIN tree /\ tree[p].type = "directory" /\ ~tree[p].readable
      BY <1>4
    <3>2. CASE p \in Subtrees
      BY <1>5, <3>1, <3>2
    <3>3. CASE p \in inside /\ RealWay(tree, p)
      <4>1. p = ManifestPath \/ p \in listed
        BY <1>5, <3>1, <3>3
      <4>2. tree[p].type = "file"
        BY <3>1, <4>1
      <4> QED BY <3>1, <4>2
    <3> QED BY <1>4, <3>2, <3>3
  <2> QED BY <2>1, <2>2
<1> QED
  BY <1>1, <1>2, <1>5

\* The first step of a path.
LEMMA FirstStep ==
    ASSUME NEW S, NEW path \in Seq(S), 1 <= Len(path)
    PROVE  SubSeq(path, 1, 1) = <<path[1]>>
<1>1. \A i \in 1 .. 1 : path[i] \in S
  OBVIOUS
<1>2. /\ SubSeq(path, 1, 1) \in Seq(S)
      /\ Len(SubSeq(path, 1, 1)) = IF 1 <= 1 THEN 1 - 1 + 1 ELSE 0
      /\ \A i \in 1 .. 1 - 1 + 1 : SubSeq(path, 1, 1)[i] = path[1 + i - 1]
  BY <1>1, SubSeqProperties
<1>3. Len(SubSeq(path, 1, 1)) = 1 /\ SubSeq(path, 1, 1)[1] = path[1]
  <2>1. 1 <= 1 /\ 1 - 1 + 1 = 1 /\ 1 + 1 - 1 = 1 /\ 1 \in 1 .. 1
    OBVIOUS
  <2>2. Len(SubSeq(path, 1, 1)) = 1
    BY <1>2, <2>1
  <2>3. SubSeq(path, 1, 1)[1] = path[1]
    BY <1>2, <2>1
  <2> QED BY <2>2, <2>3
<1>4. <<path[1]>> \in Seq(S) /\ Len(<<path[1]>>) = 1 /\ <<path[1]>>[1] = path[1]
  BY <1>1
<1>5. \A i \in 1 .. Len(SubSeq(path, 1, 1)) : SubSeq(path, 1, 1)[i] = <<path[1]>>[i]
  <2>1. \A i \in 1 .. 1 : i = 1
    OBVIOUS
  <2> QED BY <1>3, <1>4, <2>1, Zenon
<1>6. SubSeq(path, 1, 1) \in Seq(S) /\ Len(SubSeq(path, 1, 1)) = Len(<<path[1]>>)
  BY <1>2, <1>3, <1>4, Zenon
<1> QED
  BY <1>4, <1>5, <1>6, SeqEqual, Zenon

\* The ways to the node and to the control plane pass both roots, and the way to the
\* manifest.
LEMMA RootsAreReal ==
    ASSUME NEW tree, RealWay(tree, NodeExecutable), RealWay(tree, ControlPlaneEntry)
    PROVE  /\ \A root \in Subtrees : root \in DOMAIN tree /\ tree[root].type = "directory"
           /\ RealWay(tree, ManifestPath)
<1>1. /\ SubSeq(NodeExecutable, 1, 1) = <<"node">> /\ 1 \in 1 .. Len(NodeExecutable) - 1
      /\ SubSeq(ControlPlaneEntry, 1, 1) = <<"astroix-runtime">>
      /\ 1 \in 1 .. Len(ControlPlaneEntry) - 1
      /\ SubSeq(ManifestPath, 1, 1) = <<"astroix-runtime">>
      /\ 1 .. Len(ManifestPath) - 1 = {1}
  <2>1. /\ NodeExecutable \in Seq({"node", "bin"}) /\ Len(NodeExecutable) = 3
        /\ NodeExecutable[1] = "node"
    BY DEF NodeExecutable
  <2>2. /\ ControlPlaneEntry \in Seq({"astroix-runtime", "control-plane", "child.js"})
        /\ Len(ControlPlaneEntry) = 3 /\ ControlPlaneEntry[1] = "astroix-runtime"
    BY DEF ControlPlaneEntry
  <2>3. /\ ManifestPath \in Seq({"astroix-runtime", "build-manifest.json"})
        /\ Len(ManifestPath) = 2 /\ ManifestPath[1] = "astroix-runtime"
    BY DEF ManifestPath
  <2>4. SubSeq(NodeExecutable, 1, 1) = <<"node">>
    BY <2>1, FirstStep
  <2>5. SubSeq(ControlPlaneEntry, 1, 1) = <<"astroix-runtime">>
    BY <2>2, FirstStep
  <2>6. SubSeq(ManifestPath, 1, 1) = <<"astroix-runtime">>
    BY <2>3, FirstStep
  <2> QED BY <2>1, <2>2, <2>3, <2>4, <2>5, <2>6
<1>2. <<"node">> \in DOMAIN tree /\ tree[<<"node">>].type = "directory"
  BY <1>1 DEF RealWay
<1>3. <<"astroix-runtime">> \in DOMAIN tree /\ tree[<<"astroix-runtime">>].type = "directory"
  BY <1>1 DEF RealWay
<1> QED
  BY <1>1, <1>2, <1>3 DEF RealWay, Subtrees

\* No check of the bundle fails.
Passed(tree, running) ==
    LET manifest == NodeAt(tree, ManifestPath).manifest
    IN  /\ readManifest(tree) = "ok"
        /\ manifest.pins = Pins /\ running = Pins
        /\ checkRequiredLayout(manifest) = "ok"
        /\ \A i \in DOMAIN manifest.resources : verifyResource(tree, manifest.resources[i]) = "ok"
        /\ Unlisted(tree, {r.path : r \in ToSet(manifest.resources)}) = {}
        /\ Sealed(tree) = {}

\* The answer is "ok" exactly if no check fails.
LEMMA EveryCheckPasses ==
    ASSUME NEW tree, NEW running,
           LET resources == NodeAt(tree, ManifestPath).manifest.resources
           IN  readManifest(tree) = "ok" => DOMAIN resources \subseteq Nat
    PROVE  /\ "ok" \in verifyPackagedAssets(tree, running) <=> Passed(tree, running)
           /\ Passed(tree, running) => verifyPackagedAssets(tree, running) = {"ok"}
<1> DEFINE manifest == NodeAt(tree, ManifestPath).manifest
           listed == {r.path : r \in ToSet(manifest.resources)}
           outcome(i) == verifyResource(tree, manifest.resources[i])
           faults == {i \in DOMAIN manifest.resources : outcome(i) # "ok"}
           walk == verifyInventoryCompleteness(tree, listed)
           checks == CASE checkRequiredLayout(manifest) # "ok" -> {checkRequiredLayout(manifest)}
                       [] checkRequiredLayout(manifest) = "ok" /\ faults # {} -> {outcome(Min(faults))}
                       [] OTHER -> walk
           outcomes == verifyPackagedAssets(tree, running)
<1>1. outcomes =
        CASE readManifest(tree) # "ok" -> {readManifest(tree)}
          [] readManifest(tree) = "ok" /\ checkPins(manifest, running) # "ok" -> {"pin-mismatch"}
          [] OTHER -> checks
  BY DEF verifyPackagedAssets
<1>2. checkPins(manifest, running) = "ok" <=> manifest.pins = Pins /\ running = Pins
  BY DEF checkPins
<1>3. /\ "ok" \in walk <=> Unlisted(tree, listed) = {} /\ Sealed(tree) = {}
      /\ Unlisted(tree, listed) = {} /\ Sealed(tree) = {} => walk = {"ok"}
  <2> HIDE DEF listed
  <2> QED BY DEF verifyInventoryCompleteness
<1>4. readManifest(tree) = "ok" /\ faults # {} => outcome(Min(faults)) # "ok"
  <2> SUFFICES ASSUME readManifest(tree) = "ok", faults # {} PROVE outcome(Min(faults)) # "ok"
    OBVIOUS
  <2>1. faults \subseteq Nat
    OBVIOUS
  <2>2. Min(faults) \in faults
    <3> HIDE DEF faults
    <3>1. \E x \in faults : \A y \in faults : x <= y
      BY <2>1, LeastNumber
    <3> QED BY <3>1 DEF Min
  <2> QED BY <2>2
<1>5. faults = {} <=> \A i \in DOMAIN manifest.resources : outcome(i) = "ok"
  OBVIOUS
<1> HIDE DEF walk, listed, faults, outcome, manifest, outcomes
<1>6. readManifest(tree) = "ok" =>
        /\ "ok" \in checks <=> /\ checkRequiredLayout(manifest) = "ok" /\ faults = {}
                               /\ "ok" \in walk
        /\ checkRequiredLayout(manifest) = "ok" /\ faults = {} => checks = walk
  <2>1. CASE checkRequiredLayout(manifest) # "ok"
    <3>1. checks = {checkRequiredLayout(manifest)}
      BY <2>1, Zenon
    <3> HIDE DEF checks
    <3> QED BY <2>1, <3>1
  <2>2. CASE checkRequiredLayout(manifest) = "ok" /\ faults # {}
    <3>1. checks = {outcome(Min(faults))}
      BY <2>2, Zenon
    <3> HIDE DEF checks
    <3> QED BY <1>4, <2>2, <3>1
  <2>3. CASE checkRequiredLayout(manifest) = "ok" /\ faults = {}
    <3>1. checks = walk
      BY <2>3, Zenon
    <3> HIDE DEF checks
    <3> QED BY <2>3, <3>1
  <2> QED BY <2>1, <2>2, <2>3
<1> HIDE DEF checks
<1>7. /\ "ok" \in outcomes <=> /\ readManifest(tree) = "ok" /\ checkPins(manifest, running) = "ok"
                               /\ "ok" \in checks
      /\ readManifest(tree) = "ok" /\ checkPins(manifest, running) = "ok" => outcomes = checks
  <2>1. CASE readManifest(tree) # "ok"
    <3>1. outcomes = {readManifest(tree)}
      BY <1>1, <2>1, Zenon
    <3> QED BY <2>1, <3>1
  <2>2. CASE readManifest(tree) = "ok" /\ checkPins(manifest, running) # "ok"
    <3>1. outcomes = {"pin-mismatch"}
      BY <1>1, <2>2, Zenon
    <3> QED BY <2>2, <3>1
  <2>3. CASE readManifest(tree) = "ok" /\ checkPins(manifest, running) = "ok"
    <3>1. outcomes = checks
      BY <1>1, <2>3, Zenon
    <3> QED BY <2>3, <3>1
  <2> QED BY <2>1, <2>2, <2>3
<1>8. Passed(tree, running) <=>
        /\ readManifest(tree) = "ok" /\ checkPins(manifest, running) = "ok"
        /\ checkRequiredLayout(manifest) = "ok" /\ faults = {} /\ "ok" \in walk
  BY <1>2, <1>3, <1>5 DEF Passed, manifest, listed, outcome
<1>9. Passed(tree, running) <=> "ok" \in outcomes
  BY <1>6, <1>7, <1>8
<1>10. Passed(tree, running) => outcomes = {"ok"}
  BY <1>3, <1>6, <1>7, <1>8 DEF Passed, manifest, listed
<1> QED
  BY <1>9, <1>10 DEF outcomes

\* A bundle passes every check exactly if it is the one that was built.
LEMMA PassedIsExact ==
    ASSUME NEW tree \in Bundles, NEW running
    PROVE  Exact(tree, running) <=> Passed(tree, running)
<1> DEFINE manifest == tree[ManifestPath].manifest
           resources == manifest.resources
           listed == {r.path : r \in ToSet(resources)}
           inside == {p \in DOMAIN tree : \E root \in Subtrees : IsStrictPrefix(root, p)}
           required == {NodeExecutable, ControlPlaneEntry, ModuleTypeMarker} \subseteq listed
           runs == \E i \in DOMAIN resources :
                     /\ resources[i].path = NodeExecutable /\ resources[i].executable
                     /\ \A j \in DOMAIN resources : resources[j].path = NodeExecutable => j <= i
           filled == /\ \A p \in inside : RealWay(tree, p) =>
                          \/ tree[p].type = "directory" /\ tree[p].readable
                          \/ p = ManifestPath \/ p \in listed
                     /\ \A root \in Subtrees : tree[root].readable
           read == /\ OwnFile(tree, ManifestPath) /\ tree[ManifestPath].bytes <= MaxManifestBytes
                   /\ manifest.parses /\ manifest.valid
           checked == /\ readManifest(tree) = "ok"
                      /\ manifest.pins = Pins /\ running = Pins
                      /\ checkRequiredLayout(manifest) = "ok"
                      /\ \A i \in DOMAIN resources : verifyResource(tree, resources[i]) = "ok"
                      /\ Unlisted(tree, listed) = {} /\ Sealed(tree) = {}
<1>1. Exact(tree, running) <=>
        /\ read /\ manifest.pins = Pins /\ running = Pins /\ required
        /\ \A r \in ToSet(resources) : Fits(tree, r)
        /\ runs /\ filled
  BY DEF Exact, Fits
<1>2. read \/ readManifest(tree) = "ok" =>
        ManifestPath \in DOMAIN tree /\ tree[ManifestPath].type = "file" /\ manifest.parses
  BY ManifestIsRead DEF OwnFile
<1>3. ManifestPath \in DOMAIN tree => NodeAt(tree, ManifestPath) = tree[ManifestPath]
  BY DEF NodeAt
<1> SUFFICES ASSUME ManifestPath \in DOMAIN tree, tree[ManifestPath].type = "file",
                    manifest.parses
             PROVE  Exact(tree, running) <=> checked
  <2>1. CASE ManifestPath \in DOMAIN tree /\ tree[ManifestPath].type = "file" /\ manifest.parses
    <3>1. Passed(tree, running) <=> checked
      BY <1>3, <2>1 DEF Passed
    <3> HIDE DEF checked
    <3> QED BY <2>1, <3>1
  <2>2. CASE ~(ManifestPath \in DOMAIN tree /\ tree[ManifestPath].type = "file" /\ manifest.parses)
    BY <1>1, <1>2, <2>2 DEF Passed
  <2> QED BY <2>1, <2>2
<1>4. /\ DOMAIN resources = 1 .. Len(resources) /\ Len(resources) \in Nat
      /\ \A r \in ToSet(resources) : r.path \in Path
  BY BundlesAssumption
<1>5. (\A i \in DOMAIN resources : verifyResource(tree, resources[i]) = "ok")
        <=> \A r \in ToSet(resources) : Fits(tree, r)
  <2>1. \A r \in ToSet(resources) : verifyResource(tree, r) = "ok" <=> Fits(tree, r)
    BY <1>4, ResourceFits
  <2>2. ToSet(resources) = {resources[i] : i \in DOMAIN resources}
    BY DEF ToSet
  <2> QED BY <2>1, <2>2
<1>6. checkRequiredLayout(manifest) = "ok" <=> required /\ runs
  BY <1>4, LayoutIsComplete
<1> SUFFICES ASSUME required, \A r \in ToSet(resources) : Fits(tree, r)
             PROVE  read /\ filled <=> /\ readManifest(tree) = "ok"
                                       /\ Unlisted(tree, listed) = {} /\ Sealed(tree) = {}
  BY <1>1, <1>5, <1>6
<1>7. \A p \in listed : OwnFile(tree, p)
  BY DEF Fits
<1>8. RealWay(tree, NodeExecutable) /\ RealWay(tree, ControlPlaneEntry)
  BY <1>7 DEF OwnFile
<1>9. /\ \A root \in Subtrees : root \in DOMAIN tree /\ tree[root].type = "directory"
      /\ RealWay(tree, ManifestPath)
  BY <1>8, RootsAreReal
<1>10. readManifest(tree) = "ok" <=> read
  BY <1>9, ManifestIsRead
<1>11. Unlisted(tree, listed) = {} /\ Sealed(tree) = {} <=> filled
  <2>1. \A p \in listed \cup {ManifestPath} : p \in DOMAIN tree => tree[p].type = "file"
    BY <1>7 DEF OwnFile
  <2> HIDE DEF listed
  <2> QED BY <1>9, <2>1, InventoryIsComplete
<1> QED
  BY <1>10, <1>11

\* A call of the bundle's verifier.
LEMMA BundleIsVerified ==
    ASSUME VerifyBundle PROVE BundleIsExact'
<1>1. PICK tree \in Bundles, running \in RunningPins :
        /\ call' = [to |-> "bundle", tree |-> tree, running |-> running]
        /\ answer' = [of |-> "bundle", outcomes |-> verifyPackagedAssets(tree, running)]
  BY DEF VerifyBundle
<1>2. /\ call'.tree = tree /\ call'.running = running
      /\ answer'.outcomes = verifyPackagedAssets(tree, running)
  BY <1>1
<1>3. LET resources == NodeAt(tree, ManifestPath).manifest.resources
      IN  readManifest(tree) = "ok" => DOMAIN resources \subseteq Nat
  <2>1. readManifest(tree) = "ok" =>
          /\ ManifestPath \in DOMAIN tree /\ tree[ManifestPath].type = "file"
          /\ tree[ManifestPath].manifest.parses
    BY ManifestIsRead
  <2>2. readManifest(tree) = "ok" =>
          LET resources == tree[ManifestPath].manifest.resources
          IN  DOMAIN resources = 1 .. Len(resources) /\ Len(resources) \in Nat
    BY <2>1, BundlesAssumption
  <2>3. readManifest(tree) = "ok" => NodeAt(tree, ManifestPath) = tree[ManifestPath]
    BY <2>1 DEF NodeAt
  <2> QED BY <2>2, <2>3
<1>4. /\ "ok" \in verifyPackagedAssets(tree, running) <=> Exact(tree, running)
      /\ Exact(tree, running) => verifyPackagedAssets(tree, running) = {"ok"}
  BY <1>3, EveryCheckPasses, PassedIsExact
<1>5. "ok" \in answer'.outcomes <=> Exact(call'.tree, call'.running)
  BY <1>2, <1>4
<1>6. Exact(call'.tree, call'.running) => answer'.outcomes = {"ok"}
  BY <1>2, <1>4
<1> QED
  BY <1>5, <1>6 DEF BundleIsExact

\* The types of what the admission reads.
LEMMA RequestFacts ==
    ASSUME NEW request \in Requests
    PROVE  /\ request.hosts \in Seq(Seq(Tokens)) /\ request.body.bytes \in Nat
           /\ request \in Request
           /\ LifecycleBytes \in Nat /\ EditBytes \in Nat
<1>1. request \in Request
  BY RequestsAssumption
<1>2. request.hosts \in Seq(Seq(STRING)) /\ request.body.bytes \in Nat
  BY <1>1 DEF Request
<1>3. Seq(STRING) \subseteq Seq(Tokens)
  <2>1. STRING \subseteq Tokens
    BY DEF Tokens
  <2> QED BY <2>1, SeqMonotonic
<1>4. Seq(Seq(STRING)) \subseteq Seq(Seq(Tokens))
  <2> HIDE DEF Tokens
  <2> QED BY <1>3, SeqMonotonic
<1>5. LifecycleBytes \in Nat /\ EditBytes \in Nat
  BY RequestsAssumption
<1> QED
  BY <1>1, <1>2, <1>4, <1>5

\* The capability is checked of the host that the request names.
LEMMA VerifiedIsFromTheHost ==
    ASSUME NEW request \in Requests, NEW authority \in Authorities
    PROVE  LET host == resolveAdmissionHost(request, authority)
           IN  /\ FromTheHost(request, authority) <=>
                     host # "none" /\ Verified(request, authority, host)
               /\ host # "none" => host = parseHostHeader(request.hosts)
<1> DEFINE named == parseHostHeader(request.hosts)
           host == resolveAdmissionHost(request, authority)
<1>1. /\ "launcher" \in HostNames
      /\ authority.project # NoProject => authority.project \in HostNames
      /\ NoProject \notin DOMAIN authority.capability
      /\ "none" \notin HostNames
  BY NamesAssumption, RequestsAssumption DEF HostNames
<1>2. \A h \in HostNames : Names(request.hosts, h) <=> named = h
  BY RequestFacts, HostIsNamed
<1>3. host = IF named = "launcher" \/ (authority.project # NoProject /\ named = authority.project)
             THEN named ELSE "none"
  BY DEF resolveAdmissionHost
<1>4. ASSUME NEW h \in {"launcher", authority.project} \cap DOMAIN authority.capability
      PROVE  h \in HostNames /\ (h = "launcher" \/ (h = authority.project /\ h # NoProject))
  BY <1>1
<1> HIDE DEF named, host
<1>5. ASSUME FromTheHost(request, authority)
      PROVE  host # "none" /\ Verified(request, authority, host)
  <2>1. PICK h \in {"launcher", authority.project} \cap DOMAIN authority.capability :
          Names(request.hosts, h) /\ request.cookies = <<authority.capability[h]>>
    BY <1>5 DEF FromTheHost
  <2>2. named = h /\ h \in HostNames /\ h # "none"
    BY <1>1, <1>2, <1>4, <2>1
  <2>3. host = h
    BY <1>3, <1>4, <2>2
  <2> QED BY <2>1, <2>2, <2>3 DEF Verified
<1>6. ASSUME host # "none", Verified(request, authority, host)
      PROVE  FromTheHost(request, authority)
  <2>1. host = named /\ host \in {"launcher", authority.project} /\ host \in HostNames
    BY <1>1, <1>3, <1>6
  <2>2. Names(request.hosts, host) /\ host \in DOMAIN authority.capability
    BY <1>2, <1>6, <2>1 DEF Verified
  <2> QED BY <1>6, <2>1, <2>2 DEF FromTheHost, Verified
<1>7. host # "none" => host = named
  BY <1>3
<1> QED
  BY <1>5, <1>6, <1>7 DEF host, named

\* The transport admits a request for the command route that comes from the host.
LEMMA TransportFacts ==
    ASSUME NEW request \in Requests, NEW authority \in Authorities
    PROVE  admitTransport(request, authority) = "admitted" <=>
              /\ classifyApiRoute(request.target) = "command-endpoint"
              /\ request.method = "POST" /\ request.json /\ ~request.duplicated
              /\ FromTheHost(request, authority)
<1> DEFINE route == classifyApiRoute(request.target)
           host == resolveAdmissionHost(request, authority)
           headers == admitHeadersAndHost(request, authority)
<1>1. headers = "admitted" <=> ~request.duplicated /\ FromTheHost(request, authority)
  <2>0. FromTheHost(request, authority) <=> host # "none" /\ Verified(request, authority, host)
    BY VerifiedIsFromTheHost
  <2>1. CASE request.duplicated
    <3>1. headers = "malformed-request"
      BY <2>1, Zenon DEF admitHeadersAndHost
    <3> QED BY <2>1, <3>1
  <2>2. CASE ~request.duplicated /\ host = "none"
    <3>1. headers = "resource-not-found"
      BY <2>2, Zenon DEF admitHeadersAndHost
    <3> QED BY <2>0, <2>2, <3>1
  <2>3. CASE ~request.duplicated /\ host # "none"
    <3>1. headers = IF Verified(request, authority, host) THEN "admitted" ELSE "unauthorized"
      BY <2>3, Zenon DEF admitHeadersAndHost
    <3> QED BY <2>0, <2>3, <3>1
  <2> QED BY <2>1, <2>2, <2>3
<1>2. "command-endpoint" \notin Rejections
  BY DEF Rejections
<1> HIDE DEF route, headers
<1>3. CASE route \in Rejections
  <2>1. admitTransport(request, authority) = "malformed-request"
    BY <1>3, Zenon DEF admitTransport, route
  <2> QED BY <1>2, <1>3, <2>1 DEF route
<1>4. CASE route \notin Rejections /\ (route # "command-endpoint" \/ request.method # "POST")
  <2>1. admitTransport(request, authority) = "resource-not-found"
    BY <1>4, Zenon DEF admitTransport, route
  <2> QED BY <1>4, <2>1 DEF route
<1>5. CASE route = "command-endpoint" /\ request.method = "POST"
  <2>1. admitTransport(request, authority)
          = IF headers = "admitted" /\ ~request.json THEN "malformed-request" ELSE headers
    BY <1>2, <1>5, Zenon DEF admitTransport, route, headers
  <2> QED BY <1>1, <1>5, <2>1 DEF route
<1> QED
  BY <1>3, <1>4, <1>5

\* The session of an admitted envelope is seated, and its document may speak for it.
LEMMA FreshFacts ==
    ASSUME NEW body, NEW authority, NEW binding, PresenceFits(body)
    PROVE  checkSessionFreshness(body, authority, binding) = "none" <=>
              (body.session # 0 =>
                 body.session = authority.session /\ binding.session \in {0, body.session})
<1>1. SessionPresence(body.command) = "forbidden" => body.session = 0
  BY DEF PresenceFits
<1> QED
  BY <1>1 DEF checkSessionFreshness

\* What the envelope, the markers, the binding and the session must say together.
LEMMA EnvelopeFacts ==
    ASSUME NEW request, NEW authority, NEW host
    PROVE  LET body == request.body
               fresh == checkSessionFreshness(body, authority, authority.bindings[request.client])
               admission == admitEnvelope(request, authority, host)
           IN  /\ admission.executes \in BOOLEAN
               /\ admission.executes <=>
                     /\ Valid(body) /\ checkTransportMarkers(request, host) = "none"
                     /\ BindingPermits(request, authority, host) /\ fresh = "none"
               /\ admission.id \in {NoId, body.id} /\ admission.session \in {0, body.session}
<1> DEFINE body == request.body
           marker == checkTransportMarkers(request, host)
           permits == BindingPermits(request, authority, host)
           fresh == checkSessionFreshness(body, authority, authority.bindings[request.client])
           admission == admitEnvelope(request, authority, host)
<1>1. \A code, id, session :
        /\ Answer(code, id, session).executes = FALSE /\ Answer(code, id, session).id = id
        /\ Answer(code, id, session).session = session
  BY DEF Answer
<1>2. /\ Admitted(body).executes = TRUE /\ Admitted(body).id = body.id
      /\ Admitted(body).session = body.session
  BY DEF Admitted
<1>3. WithSession(body) \in {0, body.session}
  BY DEF WithSession
<1>4. admission = CASE ~Valid(body) -> validateRequestEnvelope(body)
                    [] Valid(body) /\ marker # "none" -> errorResponse(marker)
                    [] Valid(body) /\ marker = "none" /\ ~permits -> errorResponse("unauthorized")
                    [] OTHER -> IF fresh = "none" THEN Admitted(body)
                                ELSE Answer(fresh, NoId, body.session)
  BY DEF admitEnvelope
<1> HIDE DEF body, marker, permits, fresh, admission
<1>5. CASE ~Valid(body)
  <2>1. admission = validateRequestEnvelope(body)
    BY <1>4, <1>5, Zenon
  <2>2. \E code, id : id \in {NoId, body.id} /\ admission = Answer(code, id, WithSession(body))
    <3>1. CASE body.form # "good" \/ ~PresenceFits(body)
      <4>1. admission = rejectEnvelope(body)
        BY <2>1, <3>1 DEF validateRequestEnvelope
      <4> DEFINE code == IF body.form = "version" THEN "unsupported-protocol-version"
                         ELSE "malformed-request"
                 id == IF body.form \in {"unparsable", "shape-without-id"} THEN NoId ELSE body.id
      <4>2. admission = Answer(code, id, WithSession(body))
        BY <4>1 DEF rejectEnvelope
      <4>3. id \in {NoId, body.id}
        OBVIOUS
      <4> HIDE DEF code, id
      <4> QED BY <4>2, <4>3
    <3>2. CASE ~(body.form # "good" \/ ~PresenceFits(body))
      <4>1. admission = Answer("payload-too-large", body.id, WithSession(body))
        BY <2>1, <3>2, Zenon DEF validateRequestEnvelope
      <4> QED BY <4>1
    <3> QED BY <3>1, <3>2
  <2>3. PICK code, id : id \in {NoId, body.id} /\ admission = Answer(code, id, WithSession(body))
    BY <2>2
  <2>4. ~admission.executes /\ admission.id = id /\ admission.session = WithSession(body)
    BY <1>1, <2>3
  <2>5. admission.executes = FALSE
    BY <1>1, <2>3
  <2> QED BY <1>3, <1>5, <2>3, <2>4, <2>5 DEF body, marker, permits, fresh, admission
<1>6. ASSUME NEW code, admission = errorResponse(code)
      PROVE  admission.executes = FALSE /\ admission.id = NoId /\ admission.session = 0
  BY <1>1, <1>6 DEF errorResponse
<1>7. CASE Valid(body) /\ marker # "none"
  <2>1. admission = errorResponse(marker)
    BY <1>4, <1>7, Zenon
  <2> QED BY <1>6, <1>7, <2>1 DEF body, marker, permits, fresh, admission
<1>8. CASE Valid(body) /\ marker = "none" /\ ~permits
  <2>1. admission = errorResponse("unauthorized")
    BY <1>4, <1>8, Zenon
  <2> QED BY <1>6, <1>8, <2>1 DEF body, marker, permits, fresh, admission
<1>9. CASE Valid(body) /\ marker = "none" /\ permits
  <2>1. admission = IF fresh = "none" THEN Admitted(body) ELSE Answer(fresh, NoId, body.session)
    BY <1>4, <1>9, Zenon
  <2>2. CASE fresh = "none"
    BY <1>2, <1>9, <2>1, <2>2 DEF body, marker, permits, fresh, admission
  <2>3. CASE fresh # "none"
    <3>1. admission.executes = FALSE /\ admission.id = NoId /\ admission.session = body.session
      BY <1>1, <2>1, <2>3
    <3> QED BY <2>3, <3>1 DEF body, marker, permits, fresh, admission
  <2> QED BY <2>2, <2>3
<1> QED
  BY <1>5, <1>7, <1>8, <1>9

\* What a request must be to be admitted, and what its answer names.
LEMMA HandleFacts ==
    ASSUME NEW request \in Requests, NEW authority \in Authorities
    PROVE  LET body == request.body
               host == resolveAdmissionHost(request, authority)
               fresh == checkSessionFreshness(body, authority, authority.bindings[request.client])
               admission == handle(request, authority)
           IN  /\ admission.executes <=>
                     /\ body.bytes <= EditBytes
                     /\ admitTransport(request, authority) = "admitted"
                     /\ Valid(body) /\ checkTransportMarkers(request, host) = "none"
                     /\ BindingPermits(request, authority, host) /\ fresh = "none"
               /\ admission.id \in {NoId, body.id} /\ admission.session \in {0, body.session}
<1> DEFINE body == request.body
           host == resolveAdmissionHost(request, authority)
           fresh == checkSessionFreshness(body, authority, authority.bindings[request.client])
           admission == handle(request, authority)
           transport == admitTransport(request, authority)
<1>1. \A code : /\ errorResponse(code).executes = FALSE /\ errorResponse(code).id = NoId
                /\ errorResponse(code).session = 0
  BY DEF errorResponse, Answer
<1>2. body.bytes > EditBytes <=> ~(body.bytes <= EditBytes)
  BY RequestFacts
<1>3. admission = IF body.bytes > EditBytes THEN errorResponse("payload-too-large")
                  ELSE IF transport = "admitted" THEN admitEnvelope(request, authority, host)
                  ELSE errorResponse(transport)
  BY DEF handle, dispatchApiRequest
<1>4. LET envelope == admitEnvelope(request, authority, host)
      IN  /\ envelope.executes <=>
                /\ Valid(body) /\ checkTransportMarkers(request, host) = "none"
                /\ BindingPermits(request, authority, host) /\ fresh = "none"
          /\ envelope.id \in {NoId, body.id} /\ envelope.session \in {0, body.session}
  BY EnvelopeFacts
<1> HIDE DEF fresh, host, admission, transport, body
<1>5. CASE body.bytes > EditBytes
  <2>1. admission = errorResponse("payload-too-large")
    BY <1>3, <1>5
  <2>2. admission.executes = FALSE /\ admission.id = NoId /\ admission.session = 0
    BY <1>1, <2>1
  <2> QED BY <1>2, <1>5, <2>2 DEF fresh, host, admission, transport, body
<1>6. CASE ~(body.bytes > EditBytes) /\ transport # "admitted"
  <2>1. admission = errorResponse(transport)
    BY <1>3, <1>6
  <2>2. admission.executes = FALSE /\ admission.id = NoId /\ admission.session = 0
    BY <1>1, <2>1
  <2> QED BY <1>6, <2>2 DEF fresh, host, admission, transport, body
<1>7. CASE ~(body.bytes > EditBytes) /\ transport = "admitted"
  <2>1. admission = admitEnvelope(request, authority, host)
    BY <1>3, <1>7
  <2> QED BY <1>2, <1>4, <1>7, <2>1 DEF fresh, host, admission, transport, body
<1> QED
  BY <1>5, <1>6, <1>7

\* An executed command is permitted.
LEMMA AdmittedIsPermitted ==
    ASSUME NEW request \in Requests, NEW authority \in Authorities,
           handle(request, authority).executes
    PROVE  Permitted(request, authority)
<1> DEFINE body == request.body
           host == resolveAdmissionHost(request, authority)
           speaker == authority.bindings[request.client]
<1>1. /\ body.bytes <= EditBytes /\ admitTransport(request, authority) = "admitted"
      /\ Valid(body) /\ checkTransportMarkers(request, host) = "none"
      /\ BindingPermits(request, authority, host)
      /\ checkSessionFreshness(body, authority, speaker) = "none"
  BY HandleFacts
<1>2. FromTheHost(request, authority) /\ host # "none" /\ host = parseHostHeader(request.hosts)
  BY <1>1, TransportFacts, VerifiedIsFromTheHost
<1>3. PresenceFits(body)
  BY <1>1 DEF Valid
<1>4. body.session # 0 => body.session = authority.session /\ speaker.session \in {0, body.session}
  BY <1>1, <1>3, FreshFacts
<1>5. /\ speaker \in Speakers(request, authority)
      /\ speaker.class = VirtualHostClass(host)
      /\ speaker.role \in Roles(body.command, VirtualHostClass(host))
  BY <1>1 DEF BindingPermits, Speakers
<1>6. speaker.class = "launcher" <=> host = "launcher"
  BY <1>5 DEF VirtualHostClass
<1>7. ASSUME body.command = "apply-edit" PROVE speaker.role = "editor" /\ body.session # 0
  <2>1. SessionPresence("apply-edit") = "required"
    <3>1. "apply-edit" # "list-projects" /\ "apply-edit" # "activate"
      OBVIOUS
    <3> QED BY <3>1, Zenon DEF SessionPresence
  <2>2. VirtualHostClass(host) = "launcher" => Roles("apply-edit", VirtualHostClass(host)) = {}
    <3> DEFINE class == VirtualHostClass(host)
    <3> HIDE DEF class
    <3>1. class = "launcher" =>
            Roles("apply-edit", class)
              = IF "apply-edit" \in {"list-projects", "activate", "deactivate"}
                THEN {"launcher"} ELSE {}
      BY Zenon DEF Roles
    <3>2. "apply-edit" \notin {"list-projects", "activate", "deactivate"}
      OBVIOUS
    <3> QED BY <3>1, <3>2 DEF class
  <2>3. VirtualHostClass(host) # "launcher" => Roles("apply-edit", VirtualHostClass(host)) = {"editor"}
    <3> DEFINE class == VirtualHostClass(host)
    <3> HIDE DEF class
    <3>1. "apply-edit" # "inspect"
      OBVIOUS
    <3> QED BY <3>1, Zenon DEF Roles
  <2>4. speaker.role = "editor"
    BY <1>5, <1>7, <2>2, <2>3
  <2>5. body.session # 0
    BY <1>3, <1>7, <2>1 DEF PresenceFits
  <2> QED BY <2>4, <2>5
<1>8. body.command \in {"activate", "deactivate", "apply-edit"} => request.origin = host
  BY <1>1 DEF checkTransportMarkers, Mutation
<1> HIDE DEF speaker, host
<1>9. \E s \in Speakers(request, authority) :
        /\ s.class = "launcher" <=> host = "launcher"
        /\ body.session # 0 => s.session \in {0, body.session}
        /\ body.command = "apply-edit" => s.role = "editor" /\ body.session # 0
  BY <1>4, <1>5, <1>6, <1>7
<1> QED
  BY <1>1, <1>2, <1>4, <1>8, <1>9 DEF Permitted

\* A host's own name is read as that host.
LEMMA OwnNameIsRead ==
    ASSUME NEW host \in HostNames, NEW values \in Seq(Seq(Tokens)), values = <<<<host>>>>
    PROVE  parseHostHeader(values) = host
<1>1. Len(values) = 1 /\ values[1] = <<host>>
  OBVIOUS
<1>2. Spells(values[1], host)
  BY <1>1 DEF Spells
<1> QED
  BY <1>1, <1>2, HostIsNamed DEF Names

\* What a document sends is executed exactly while its session is seated.
LEMMA CorrectIsSeated ==
    ASSUME NEW request \in CorrectRequests, NEW authority \in Authorities
    PROVE  handle(request, authority).executes <=> Seated(request, authority)
<1> DEFINE body == request.body
           host == resolveAdmissionHost(request, authority)
           speaker == authority.bindings[request.client]
           fresh == checkSessionFreshness(body, authority, speaker)
<1>1. /\ classifyApiRoute(request.target) = "command-endpoint"
      /\ request.method = "POST" /\ request.json /\ ~request.duplicated
      /\ request.hosts = <<<<request.origin>>>> /\ request.origin \in HostNames
      /\ Valid(body) /\ body.bytes <= EditBytes
      /\ checkTransportMarkers(request, request.origin) = "none"
      /\ request.client \in DOMAIN authority.bindings =>
            BindingPermits(request, authority, request.origin)
  BY CorrectAssumption
<1>2. request \in Requests
  BY RequestsAssumption
<1>3. parseHostHeader(request.hosts) = request.origin
  BY <1>1, <1>2, RequestFacts, OwnNameIsRead
<1>4. handle(request, authority).executes <=>
        /\ body.bytes <= EditBytes /\ admitTransport(request, authority) = "admitted"
        /\ Valid(body) /\ checkTransportMarkers(request, host) = "none"
        /\ BindingPermits(request, authority, host) /\ fresh = "none"
  BY <1>2, HandleFacts
<1>5. admitTransport(request, authority) = "admitted" <=> FromTheHost(request, authority)
  BY <1>1, <1>2, TransportFacts
<1>6. FromTheHost(request, authority) => host = request.origin
  BY <1>2, <1>3, VerifiedIsFromTheHost
<1>7. BindingPermits(request, authority, request.origin)
        <=> request.client \in DOMAIN authority.bindings
  BY <1>1 DEF BindingPermits
<1>8. fresh = "none" <=>
        (body.session # 0 => body.session = authority.session /\ speaker.session \in {0, body.session})
  <2>1. PresenceFits(body)
    BY <1>1 DEF Valid
  <2> HIDE DEF body, speaker
  <2> QED BY <2>1, FreshFacts
<1>9. request.client \in DOMAIN authority.bindings => Speakers(request, authority) = {speaker}
  BY DEF Speakers
<1>10. request.client \notin DOMAIN authority.bindings => Speakers(request, authority) = {}
  BY DEF Speakers
<1>11. Seated(request, authority) <=>
         /\ FromTheHost(request, authority) /\ request.client \in DOMAIN authority.bindings
         /\ body.session # 0 => speaker.session \in {0, body.session}
         /\ body.session \in {0, authority.session}
  <2> HIDE DEF speaker
  <2>1. CASE request.client \in DOMAIN authority.bindings
    BY <1>9, <2>1 DEF Seated
  <2>2. CASE request.client \notin DOMAIN authority.bindings
    BY <1>10, <2>2 DEF Seated
  <2> QED BY <2>1, <2>2
<1> HIDE DEF fresh, host, speaker, body
<1>12. fresh = "none" <=> /\ body.session # 0 => speaker.session \in {0, body.session}
                          /\ body.session \in {0, authority.session}
  BY <1>8
<1> QED
  BY <1>1, <1>4, <1>5, <1>6, <1>7, <1>11, <1>12 DEF body

\* What a request says does not show in the answer to one that is not from the host.
LEMMA WordsDoNotShow ==
    ASSUME NEW request \in Requests, NEW authority \in Authorities, NEW other \in CorrectRequests,
           ~FromTheHost(request, authority)
    PROVE  handle(request, authority) = handle(InTheWordsOf(request, other), authority)
<1> DEFINE said == InTheWordsOf(request, other)
<1>1. request \in Request /\ other \in Request
  BY RequestsAssumption
<1>2. /\ said.target = request.target /\ said.method = request.method
      /\ said.duplicated = request.duplicated /\ said.hosts = request.hosts
      /\ said.cookies = request.cookies /\ said.json = request.json
  BY <1>1 DEF InTheWordsOf, Request
<1>3. said.body.bytes = request.body.bytes
  BY <1>1 DEF InTheWordsOf, Request
<1> HIDE DEF said
<1>4. resolveAdmissionHost(said, authority) = resolveAdmissionHost(request, authority)
  BY <1>2 DEF resolveAdmissionHost
<1>5. \A host : Verified(said, authority, host) <=> Verified(request, authority, host)
  BY <1>2 DEF Verified
<1>6. admitHeadersAndHost(said, authority) = admitHeadersAndHost(request, authority)
  BY <1>2, <1>4, <1>5, Zenon DEF admitHeadersAndHost
<1>7. admitTransport(said, authority) = admitTransport(request, authority)
  BY <1>2, <1>6, Zenon DEF admitTransport
<1>8. admitTransport(request, authority) # "admitted"
  BY TransportFacts
<1>9. handle(request, authority)
        = IF request.body.bytes > EditBytes THEN errorResponse("payload-too-large")
          ELSE errorResponse(admitTransport(request, authority))
  BY <1>8 DEF handle, dispatchApiRequest
<1>10. handle(said, authority)
        = IF said.body.bytes > EditBytes THEN errorResponse("payload-too-large")
          ELSE errorResponse(admitTransport(said, authority))
  BY <1>7, <1>8 DEF handle, dispatchApiRequest
<1> QED
  BY <1>3, <1>7, <1>9, <1>10 DEF said

\* The answer of an executed command names its own request and session.
LEMMA ExecutedNamesItsOwn ==
    ASSUME NEW body, NEW outcome
    PROVE  execute(body, outcome).id = body.id /\ execute(body, outcome).session \in {0, body.session}
<1> DEFINE session == IF SessionPresence(body.command) = "forbidden" THEN 0 ELSE body.session
<1>1. session \in {0, body.session}
  OBVIOUS
<1> HIDE DEF session
<1>2. \A code : /\ Answer(code, body.id, session).id = body.id
                /\ Answer(code, body.id, session).session = session
  BY DEF Answer
<1>3. CASE outcome.kind = "error"
  <2>1. execute(body, outcome) = Answer(outcome.code, body.id, session)
    BY <1>3, Zenon DEF execute, session
  <2> QED BY <1>1, <1>2, <2>1
<1>4. CASE outcome.kind = "result" /\ outcome.bytes <= ResponseBytes
  <2>1. "result" # "error"
    OBVIOUS
  <2>2. execute(body, outcome) = Answer("none", body.id, session)
    BY <1>4, <2>1, Zenon DEF execute, session
  <2> QED BY <1>1, <1>2, <2>2
<1>5. CASE outcome.kind # "error" /\ ~(outcome.kind = "result" /\ outcome.bytes <= ResponseBytes)
  <2>1. execute(body, outcome) = Answer("internal-error", body.id, session)
    BY <1>5, Zenon DEF execute, session
  <2> QED BY <1>1, <1>2, <2>1
<1> QED
  BY <1>3, <1>4, <1>5

\* What a request's call knows of its answer: it is the decision on the request, or what
\* the outcome of its execution became.
RequestInv ==
    call.to = "request" =>
        \E request \in Requests, authority \in Authorities :
            /\ call = [to |-> "request", request |-> request, authority |-> authority]
            /\ \E admission :
                  /\ answer = [of |-> "request", admission |-> admission]
                  /\ \/ admission = handle(request, authority)
                     \/ /\ handle(request, authority).executes
                        /\ \E outcome \in Outcomes : admission = execute(request.body, outcome)

HostInv == TargetsRead /\ HostsRead /\ BundleIsExact /\ RequestInv

\* A decision that is the function's is sound.
LEMMA RequestInvIsSound ==
    RequestInv => AdmissionIsSound
<1> SUFFICES ASSUME RequestInv, call.to = "request" PROVE AdmissionIsSound
  BY DEF AdmissionIsSound
<1>0. PICK request \in Requests, authority \in Authorities :
        /\ call = [to |-> "request", request |-> request, authority |-> authority]
        /\ \E admission :
              /\ answer = [of |-> "request", admission |-> admission]
              /\ \/ admission = handle(request, authority)
                 \/ /\ handle(request, authority).executes
                    /\ \E outcome \in Outcomes : admission = execute(request.body, outcome)
  BY DEF RequestInv
<1>1. PICK admission :
        /\ answer = [of |-> "request", admission |-> admission]
        /\ \/ admission = handle(request, authority)
           \/ /\ handle(request, authority).executes
              /\ \E outcome \in Outcomes : admission = execute(request.body, outcome)
  BY <1>0
<1>2. call.request = request /\ call.authority = authority /\ answer.admission = admission
  BY <1>0, <1>1
<1>3. handle(request, authority).executes => Permitted(request, authority)
  BY AdmittedIsPermitted
<1>4. request \in CorrectRequests =>
        (handle(request, authority).executes <=> Seated(request, authority))
  BY CorrectIsSeated
<1>5. ~FromTheHost(request, authority) =>
        \A other \in CorrectRequests : admission = handle(InTheWordsOf(request, other), authority)
  <2> SUFFICES ASSUME ~FromTheHost(request, authority), NEW other \in CorrectRequests
               PROVE  admission = handle(InTheWordsOf(request, other), authority)
    OBVIOUS
  <2>1. ~handle(request, authority).executes
    BY HandleFacts, TransportFacts
  <2>2. admission = handle(request, authority)
    BY <1>1, <2>1
  <2> QED BY <2>2, WordsDoNotShow
<1>6. admission.id \in {NoId, request.body.id} /\ admission.session \in {0, request.body.session}
  <2>1. CASE admission = handle(request, authority)
    BY <2>1, HandleFacts
  <2>2. ASSUME NEW outcome \in Outcomes, admission = execute(request.body, outcome)
        PROVE  /\ admission.id \in {NoId, request.body.id}
               /\ admission.session \in {0, request.body.session}
    BY <2>2, ExecutedNamesItsOwn
  <2> QED BY <1>1, <2>1, <2>2
<1> QED
  BY <1>2, <1>3, <1>4, <1>5, <1>6 DEF AdmissionIsSound

\* The invariant of the calls is inductive.
LEMMA HostInit_Inv ==
    HostInit => HostInv
<1> SUFFICES ASSUME HostInit PROVE HostInv
  OBVIOUS
<1>1. call.to = "nobody" /\ answer.of = "nobody"
  BY DEF HostInit, NoCall, NoAnswer
<1> QED
  BY <1>1 DEF HostInv, TargetsRead, HostsRead, BundleIsExact, RequestInv

LEMMA HostNext_Inv ==
    HostInv /\ [HostNext]_hostVars => HostInv'
<1> SUFFICES ASSUME HostInv, [HostNext]_hostVars PROVE HostInv'
  OBVIOUS
<1>1. ASSUME answer'.of \notin {"target", "host", "bundle"}
      PROVE  TargetsRead' /\ HostsRead' /\ BundleIsExact'
  BY <1>1 DEF TargetsRead, HostsRead, BundleIsExact
<1>2. CASE ClassifyTarget
  <2>1. PICK target \in Targets :
          call' = [to |-> "target", target |-> target] /\ answer'.of = "target"
    BY <1>2 DEF ClassifyTarget
  <2>2. call'.to = "target"
    BY <2>1
  <2>3. TargetsRead'
    BY <1>2, TargetIsRead
  <2> QED BY <2>1, <2>2, <2>3 DEF HostInv, HostsRead, BundleIsExact, RequestInv
<1>3. CASE ReadHost
  <2>1. call'.to = "host" /\ answer'.of = "host"
    BY <1>3 DEF ReadHost
  <2>2. HostsRead'
    BY <1>3, HostIsRead
  <2> QED BY <2>1, <2>2 DEF HostInv, TargetsRead, BundleIsExact, RequestInv
<1>4. CASE ForwardHeaders
  <2>1. call'.to = "forward" /\ answer'.of = "forward"
    BY <1>4 DEF ForwardHeaders
  <2> QED BY <1>1, <2>1 DEF HostInv, RequestInv
<1>5. CASE ReceiveRequest
  <2>1. PICK request \in Requests, authority \in Authorities :
          /\ call' = [to |-> "request", request |-> request, authority |-> authority]
          /\ answer' = [of |-> "request", admission |-> handle(request, authority)]
    BY <1>5 DEF ReceiveRequest
  <2>2. answer'.of = "request"
    BY <2>1
  <2>3. RequestInv'
    BY <2>1 DEF RequestInv
  <2> QED BY <1>1, <2>2, <2>3 DEF HostInv
<1>6. CASE ExecuteCommand
  <2>0. PICK request \in Requests, authority \in Authorities :
          /\ call = [to |-> "request", request |-> request, authority |-> authority]
          /\ \E admission :
                /\ answer = [of |-> "request", admission |-> admission]
                /\ \/ admission = handle(request, authority)
                   \/ /\ handle(request, authority).executes
                      /\ \E outcome \in Outcomes : admission = execute(request.body, outcome)
    BY <1>6 DEF ExecuteCommand, HostInv, RequestInv
  <2>1. PICK admission :
          /\ answer = [of |-> "request", admission |-> admission]
          /\ \/ admission = handle(request, authority)
             \/ /\ handle(request, authority).executes
                /\ \E outcome \in Outcomes : admission = execute(request.body, outcome)
    BY <2>0
  <2>2. PICK outcome \in Outcomes :
          answer' = [answer EXCEPT !.admission = execute(call.request.body, outcome)]
    BY <1>6 DEF ExecuteCommand
  <2>3. call' = call /\ call.request = request
    BY <1>6, <2>0 DEF ExecuteCommand
  <2>4. answer' = [of |-> "request", admission |-> execute(request.body, outcome)]
    BY <2>1, <2>2, <2>3
  <2>5. handle(request, authority).executes
    <3>1. admission.executes
      BY <1>6, <2>1 DEF ExecuteCommand
    <3> QED BY <2>1, <3>1
  <2>6. RequestInv'
    BY <2>0, <2>3, <2>4, <2>5 DEF RequestInv
  <2>7. answer'.of = "request"
    BY <2>4
  <2> QED BY <1>1, <2>6, <2>7 DEF HostInv
<1>7. CASE VerifyBundle
  <2>1. call'.to = "bundle" /\ answer'.of = "bundle"
    BY <1>7 DEF VerifyBundle
  <2>2. BundleIsExact'
    BY <1>7, BundleIsVerified
  <2> QED BY <2>1, <2>2 DEF HostInv, TargetsRead, HostsRead, RequestInv
<1>8. CASE Return
  <2>1. call'.to = "nobody" /\ answer'.of = "nobody"
    BY <1>8 DEF Return, NoCall, NoAnswer
  <2> QED BY <1>1, <2>1 DEF HostInv, RequestInv
<1>9. CASE UNCHANGED hostVars
  <2>1. call' = call /\ answer' = answer
    BY <1>9 DEF hostVars
  <2> QED BY <2>1 DEF HostInv, TargetsRead, HostsRead, BundleIsExact, RequestInv
<1> QED
  BY <1>2, <1>3, <1>4, <1>5, <1>6, <1>7, <1>8, <1>9 DEF HostNext

LEMMA HostSpec_Inv ==
    HostSpec => []HostInv
<1> QED
  BY HostInit_Inv, HostNext_Inv, PTL DEF HostSpec

\* For every target and every Host header: no reader of a path, whichever escapes and
\* backslashes it undoes, takes a target for another's than the listener does, and a host
\* is reached by its own spellings only, and by all of them.
THEOREM HostTargetsAndHosts ==
    HostSpec => [](TargetsRead /\ HostsRead)
<1>1. HostInv => TargetsRead /\ HostsRead
  BY DEF HostInv
<1> QED
  BY <1>1, HostSpec_Inv, PTL

\* For every request and every authority: what is executed is permitted, what documents
\* send is executed while their session is seated, a request that is not from the host
\* learns nothing from its answer, and an answer names nobody else's request or session.
THEOREM HostAdmissionIsSound ==
    HostSpec => []AdmissionIsSound
<1>1. HostInv => AdmissionIsSound
  BY RequestInvIsSound DEF HostInv
<1> QED
  BY <1>1, HostSpec_Inv, PTL

\* For every bundle and every running version: it is accepted exactly if it is the one
\* that was built.
THEOREM HostBundleIsExact ==
    HostSpec => []BundleIsExact
<1>1. HostInv => BundleIsExact
  BY DEF HostInv
<1> QED
  BY <1>1, HostSpec_Inv, PTL

=============================================================================
