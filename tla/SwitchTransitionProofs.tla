----------------------- MODULE SwitchTransitionProofs -----------------------
(***************************************************************************)
(* Proofs about the transitions over one supervisor, for any set of        *)
(* projects, any number of activations, deactivations and crashes: the     *)
(* fence of a seat serializes the transitions over it, a revocation is     *)
(* never begun that cannot be followed by its commit, and authority is the *)
(* active seat's.                                                          *)
(***************************************************************************)
EXTENDS SwitchTransition, FiniteSetTheorems, TLAPS

\* A generation that was never begun is untouched; a begun one has a project.
Begun ==
    \A g \in Generations :
        /\ g >= sup.next => act[g].pc = "unused"
        /\ act[g].pc # "unused" => sess[g].key \in Projects

ActHolds(g) == act[g].pc \in {"draining", "revoking", "resuming"}
DeactHolds(d) == deact[d].pc \in {"draining", "revoking"}

Quiet == [OpenFence EXCEPT !.state = "drained"]

\* What request `r` holds is the fence of a session that was adopted: it drains,
\* or it has drained and nothing was admitted since.
HoldsFence(r) ==
    /\ r.old \in Generations /\ act[r.old].pc = "done"
    /\ r.pc = "draining" => fence[r.old].state = "draining"
    /\ r.pc \in {"revoking", "resuming"} => fence[r.old] = Quiet

HoldersFenced ==
    /\ \A g \in Generations : ActHolds(g) => HoldsFence(act[g])
    /\ \A d \in Deactivations : DeactHolds(d) => HoldsFence(deact[d])

\* Nobody else holds it.
HoldersDiffer ==
    /\ \A g, h \in Generations :
          ActHolds(g) /\ ActHolds(h) /\ act[g].old = act[h].old => g = h
    /\ \A d, e \in Deactivations :
          DeactHolds(d) /\ DeactHolds(e) /\ deact[d].old = deact[e].old => d = e
    /\ \A g \in Generations, d \in Deactivations :
          ActHolds(g) /\ DeactHolds(d) => act[g].old # deact[d].old

\* A session was seated by an adoption that is over.
SeatedIsDone == \A g \in Generations : seat[g] # "none" => act[g].pc = "done"

IsSeated(g) == act[g].pc = "done" /\ seat[g] # "none"

\* Authority is held by an adoption in progress or by a seat.
AuthorityHasHolder ==
    /\ auth.lease # 0 => act[auth.lease].pc = "adopting" \/ IsSeated(auth.lease)
    /\ auth.editor # 0 => act[auth.editor].pc \in {"adopting", "undoing"} \/ IsSeated(auth.editor)
    /\ \A g \in auth.grants : IsSeated(g)

\* A revocation begins with the lease.
LeaseGoesFirst == \A g \in Generations : Revoking(g) => auth.lease # g

\* The active session holds what its adoption has granted so far.
AdoptingHasAuthority ==
    sup.active # 0 /\ act[sup.active].pc = "adopting" =>
        auth.lease = sup.active /\ auth.editor = sup.active

IInv ==
    /\ TypeOK
    /\ Begun
    /\ CommitStaysPossible
    /\ HoldersFenced
    /\ HoldersDiffer
    /\ SeatedIsDone
    /\ AuthorityHasHolder
    /\ LeaseGoesFirst
    /\ AdoptingHasAuthority
    /\ SeatedHasAuthority

-----------------------------------------------------------------------------
(* Types.                                                                  *)

SupRec == [next : 1 .. (MaxGeneration + 1), active : Session, slot : Session]
SessRec == [key : Projects \cup {NoProject}, up : BOOLEAN, stopping : BOOLEAN]
ActRec == [pc : ActivationPc, old : Session]
DeactRec == [pc : DeactivationPc, old : Session]
FenceRec == [state : FenceState, work : BOOLEAN, conflict : BOOLEAN]
AuthRec == [lease : Session, routed : Projects \cup {NoProject}, editor : Session,
            hostCaps : SUBSET Projects, grants : SUBSET Generations]

LEMMA GenerationsAreNaturals ==
    /\ MaxGeneration \in Nat \ {0}
    /\ 0 \notin Generations
    /\ \A g : g \in Generations <=> g \in Nat /\ 1 <= g /\ g <= MaxGeneration
    /\ 0 \notin Projects
BY SwitchAssumption DEF Generations

LEMMA SessionIsGenerationOrNone == Session = Generations \cup {0}
BY GenerationsAreNaturals DEF Session

LEMMA TypeOKInParts ==
    TypeOK <=>
        /\ sup \in SupRec
        /\ sess \in [Generations -> SessRec]
        /\ act \in [Generations -> ActRec]
        /\ deact \in [Deactivations -> DeactRec]
        /\ seat \in [Generations -> Seat]
        /\ fence \in [Generations -> FenceRec]
        /\ remembered \subseteq Generations
        /\ auth \in AuthRec
        /\ crashes \in 0 .. MaxCrashes
BY DEF TypeOK, SupRec, SessRec, ActRec, DeactRec, FenceRec, AuthRec

LEMMA TypeOKInPartsNext ==
    TypeOK' <=>
        /\ sup' \in SupRec
        /\ sess' \in [Generations -> SessRec]
        /\ act' \in [Generations -> ActRec]
        /\ deact' \in [Deactivations -> DeactRec]
        /\ seat' \in [Generations -> Seat]
        /\ fence' \in [Generations -> FenceRec]
        /\ remembered' \subseteq Generations
        /\ auth' \in AuthRec
        /\ crashes' \in 0 .. MaxCrashes
BY DEF TypeOK, SupRec, SessRec, ActRec, DeactRec, FenceRec, AuthRec

LEMMA OpenFenceTyped == OpenFence \in FenceRec
BY DEF OpenFence, FenceRec, FenceState

LEMMA SlotEmptied == ASSUME sup \in SupRec PROVE [sup EXCEPT !.slot = 0] \in SupRec
BY SessionIsGenerationOrNone DEF SupRec

LEMMA ActMoved ==
  ASSUME act \in [Generations -> ActRec], NEW g \in Generations, NEW pc \in ActivationPc
  PROVE  [act EXCEPT ![g].pc = pc] \in [Generations -> ActRec]
BY DEF ActRec

LEMMA DeactMoved ==
  ASSUME deact \in [Deactivations -> DeactRec], NEW d \in Deactivations, NEW pc \in DeactivationPc
  PROVE  [deact EXCEPT ![d].pc = pc] \in [Deactivations -> DeactRec]
BY DEF DeactRec

LEMMA FenceMoved ==
  ASSUME fence \in [Generations -> FenceRec], NEW g \in Generations, NEW s \in FenceState
  PROVE  [fence EXCEPT ![g].state = s] \in [Generations -> FenceRec]
BY DEF FenceRec

LEMMA RunStopped ==
  ASSUME sess \in [Generations -> SessRec], NEW g \in Generations
  PROVE  Stopped(g) \in [Generations -> SessRec]
BY DEF SessRec, Stopped

LEMMA AuthorityTaken ==
  ASSUME NEW a \in AuthRec, NEW g \in Session
  PROVE  RouteRevoked(a, g) \in AuthRec /\ RestRevoked(a, g) \in AuthRec /\ Retired(a, g) \in AuthRec
<1>1. RouteRevoked(a, g) \in AuthRec
  BY SessionIsGenerationOrNone DEF AuthRec, RouteRevoked
<1>2. RestRevoked(a, g) \in AuthRec
  BY SessionIsGenerationOrNone DEF AuthRec, RestRevoked
<1>3. Retired(a, g) \in AuthRec
  BY SessionIsGenerationOrNone DEF AuthRec, Retired
<1> QED BY <1>1, <1>2, <1>3

LEMMA PcsAreTyped ==
    \A g : AftermathPc(g) \in {"reaping", "done"}
BY DEF AftermathPc

\* The authority a commit of `g` passes through, from what is left of `a`.
Swapped(g, a) == [Retired(a, sup.active) EXCEPT !.hostCaps = @ \cup {Key(g)}]
Bound(g, a) == [Swapped(g, a) EXCEPT !.editor = g]
Adopts(g, a) == sess[g].up /\ ~LeaseOccupied(Bound(g, a))

LEMMA CommitPassesThrough ==
  ASSUME NEW g \in Generations, NEW a, CommitAndAdopt(g, a)
  PROVE  /\ Adopts(g, a) => auth' = [Bound(g, a) EXCEPT !.routed = Key(g), !.lease = g]
         /\ ~Adopts(g, a) => auth' \in {RestRevoked(Bound(g, a), g), RestRevoked(Swapped(g, a), g)}
         /\ act' = [act EXCEPT ![g].pc = IF Adopts(g, a) THEN "adopting" ELSE AftermathPc(g)]
         /\ \E S : sess' = [x \in Generations |->
                            IF x \in S THEN [sess[x] EXCEPT !.stopping = TRUE] ELSE sess[x]]
<1>1. Adopts(g, a) => auth' = [Bound(g, a) EXCEPT !.routed = Key(g), !.lease = g]
  BY DEF CommitAndAdopt, Adopts, Bound, Swapped
<1>2. ~Adopts(g, a) => auth' \in {RestRevoked(Bound(g, a), g), RestRevoked(Swapped(g, a), g)}
  BY DEF CommitAndAdopt, Adopts, Bound, Swapped
<1>3. act' = [act EXCEPT ![g].pc = IF Adopts(g, a) THEN "adopting" ELSE AftermathPc(g)]
  BY DEF CommitAndAdopt, Adopts, Bound, Swapped
<1>4. \E S : sess' = [x \in Generations |->
                    IF x \in S THEN [sess[x] EXCEPT !.stopping = TRUE] ELSE sess[x]]
  <2> DEFINE stops == {sup.active} \cup (IF ~Adopts(g, a) /\ Reaps(g) THEN {g} ELSE {})
  <2>1. sess' = [x \in Generations |->
                   IF x \in stops THEN [sess[x] EXCEPT !.stopping = TRUE] ELSE sess[x]]
    BY DEF CommitAndAdopt, Adopts, Bound, Swapped
  <2> HIDE DEF stops
  <2> QED BY <2>1
<1> QED BY <1>1, <1>2, <1>3, <1>4

LEMMA CandidateAuthority ==
  ASSUME TypeOK, Begun, NEW g \in Generations, act[g].pc # "unused", NEW a \in AuthRec
  PROVE  /\ Key(g) \in Projects /\ Swapped(g, a) \in AuthRec /\ Bound(g, a) \in AuthRec
         /\ Swapped(g, a).lease = a.lease /\ Swapped(g, a).editor \in {0, a.editor}
         /\ Bound(g, a).lease = a.lease /\ Bound(g, a).editor = g
         /\ Swapped(g, a).grants = a.grants /\ Bound(g, a).grants = a.grants
<1>1. sup.active \in Session /\ g \in Session
  BY SessionIsGenerationOrNone, TypeOKInParts DEF SupRec
<1>2. Key(g) \in Projects
  BY GenerationsAreNaturals DEF Key, Begun
<1>3. Retired(a, sup.active) \in AuthRec
  BY <1>1, AuthorityTaken
<1>4. Swapped(g, a) \in AuthRec
  BY <1>2, <1>3 DEF Swapped, AuthRec
<1>5. Swapped(g, a).lease = a.lease /\ Swapped(g, a).editor \in {0, a.editor}
      /\ Swapped(g, a).grants = a.grants
  BY DEF Swapped, Retired, AuthRec
<1>6. Bound(g, a) \in AuthRec
  BY <1>1, <1>4 DEF Bound, AuthRec
<1>7. Bound(g, a).lease = a.lease /\ Bound(g, a).editor = g /\ Bound(g, a).grants = a.grants
  BY <1>4, <1>5 DEF Bound, AuthRec
<1> QED BY <1>2, <1>4, <1>5, <1>6, <1>7

LEMMA CommitTyped ==
  ASSUME TypeOK, Begun, NEW g \in Generations, act[g].pc # "unused",
         NEW a \in AuthRec, CommitAndAdopt(g, a)
  PROVE  /\ sup' \in SupRec /\ sess' \in [Generations -> SessRec]
         /\ act' \in [Generations -> ActRec] /\ auth' \in AuthRec
<1>1. auth' \in AuthRec
  <2>1. g \in Session /\ Key(g) \in Projects /\ Swapped(g, a) \in AuthRec /\ Bound(g, a) \in AuthRec
    BY SessionIsGenerationOrNone, CandidateAuthority
  <2>2. [Bound(g, a) EXCEPT !.routed = Key(g), !.lease = g] \in AuthRec
    BY <2>1 DEF AuthRec
  <2>3. RestRevoked(Bound(g, a), g) \in AuthRec /\ RestRevoked(Swapped(g, a), g) \in AuthRec
    BY <2>1, AuthorityTaken
  <2> QED BY <2>2, <2>3, CommitPassesThrough
<1>2. act' \in [Generations -> ActRec]
  <2>1. AftermathPc(g) \in ActivationPc /\ "adopting" \in ActivationPc
    BY PcsAreTyped DEF ActivationPc
  <2>2. CASE Adopts(g, a)
    <3>1. act' = [act EXCEPT ![g].pc = "adopting"]
      BY <2>2, CommitPassesThrough
    <3> QED BY <2>1, <3>1, TypeOKInParts, ActMoved
  <2>3. CASE ~Adopts(g, a)
    <3>1. act' = [act EXCEPT ![g].pc = AftermathPc(g)]
      BY <2>3, CommitPassesThrough
    <3> QED BY <2>1, <3>1, TypeOKInParts, ActMoved
  <2> QED BY <2>2, <2>3
<1>3. sup' \in SupRec
  <2>1. \E h \in Session : sup' = [sup EXCEPT !.slot = 0, !.active = h]
    BY SessionIsGenerationOrNone DEF CommitAndAdopt
  <2> QED BY <2>1, TypeOKInParts, SessionIsGenerationOrNone DEF SupRec
<1>4. sess' \in [Generations -> SessRec]
  <2>1. PICK S : sess' = [x \in Generations |->
                           IF x \in S THEN [sess[x] EXCEPT !.stopping = TRUE] ELSE sess[x]]
    BY CommitPassesThrough
  <2> QED BY <2>1, TypeOKInParts DEF SessRec
<1> QED BY <1>1, <1>2, <1>3, <1>4

LEMMA StepTyped == ASSUME TypeOK, Begun, HoldersFenced, [Next]_vars PROVE TypeOK'
<1>1. ASSUME NEW p \in Projects, Activate(p) PROVE TypeOK'
  <2>1. sup.next \in Generations /\ sup \in SupRec
    BY <1>1, TypeOKInParts, TypeOKInPartsNext DEF Activate
  <2>2. sup' \in SupRec
    <3>1. sup.next + 1 \in 1 .. (MaxGeneration + 1) /\ sup.next \in Session
      BY <2>1, GenerationsAreNaturals, SessionIsGenerationOrNone
    <3>2. sup' = [sup EXCEPT !.next = sup.next + 1, !.slot = sup.next]
      BY <1>1 DEF Activate
    <3> QED BY <2>1, <3>1, <3>2 DEF SupRec
  <2>3. sess' \in [Generations -> SessRec]
    BY <2>1, <1>1, TypeOKInParts, TypeOKInPartsNext DEF Activate, SessRec
  <2>4. act' \in [Generations -> ActRec]
    BY <2>1, <1>1, TypeOKInParts, TypeOKInPartsNext, ActMoved DEF Activate, ActivationPc
  <2> QED BY <2>1, <2>2, <2>3, <2>4, <1>1, TypeOKInParts, TypeOKInPartsNext
             DEF Activate, clearExcept
<1>2. ASSUME NEW g \in Generations, ActivationStep(g) PROVE TypeOK'
  <2>1. /\ act[g].old \in Session
        /\ ActHolds(g) => act[g].old \in Generations
    BY TypeOKInParts DEF ActRec, HoldersFenced, HoldsFence
  <2>2. CASE ReadinessFails(g)
    BY <2>2, TypeOKInParts, TypeOKInPartsNext, SlotEmptied, RunStopped, ActMoved
       DEF ReadinessFails, ActivationPc
  <2>3. CASE FirstCommit(g)
    BY <2>3, TypeOKInParts, TypeOKInPartsNext, CommitTyped DEF FirstCommit
  <2>4. CASE StartSwitch(g)
    <3>1. ActiveSeat \in Generations
      BY <2>4, TypeOKInParts, TypeOKInPartsNext, SessionIsGenerationOrNone
         DEF StartSwitch, ActiveSeat, SupRec
    <3>2. fence' \in [Generations -> FenceRec]
      BY <2>4, <3>1, TypeOKInParts, TypeOKInPartsNext, FenceMoved
         DEF StartSwitch, FenceState
    <3>3. [pc |-> "draining", old |-> ActiveSeat] \in ActRec
      BY <3>1, SessionIsGenerationOrNone DEF ActRec, ActivationPc
    <3>4. act' \in [Generations -> ActRec]
      BY <2>4, <3>3, TypeOKInParts, TypeOKInPartsNext DEF StartSwitch
    <3> QED BY <2>4, <3>2, <3>4, TypeOKInParts, TypeOKInPartsNext DEF StartSwitch
  <2>5. CASE SwitchRefused(g)
    BY <2>5, TypeOKInParts, TypeOKInPartsNext, SlotEmptied, RunStopped, ActMoved
       DEF SwitchRefused, RollBack, ActivationPc
  <2>6. CASE SwitchDrainFails(g)
    <3>1. fence' \in [Generations -> FenceRec]
      <4>1. DrainFailure(fence[act[g].old]) \in FenceState
        BY <2>6 DEF SwitchDrainFails, DrainFailure, FenceState
      <4> QED BY <2>1, <2>6, <4>1, TypeOKInParts, FenceMoved
                 DEF SwitchDrainFails, ActHolds
    <3> QED BY <2>6, <3>1, TypeOKInParts, TypeOKInPartsNext, SlotEmptied, RunStopped,
               ActMoved
            DEF SwitchDrainFails, RollBack, ActivationPc
  <2>7. CASE SwitchRevokes(g)
    <3>1. fence' \in [Generations -> FenceRec]
      BY <2>1, <2>7, TypeOKInParts, FenceMoved DEF SwitchRevokes, ActHolds, FenceState
    <3> QED BY <2>1, <2>7, <3>1, TypeOKInParts, TypeOKInPartsNext, AuthorityTaken,
               ActMoved
            DEF SwitchRevokes, ActivationPc
  <2>8. CASE SwitchNotPrepared(g)
    <3>1. fence' \in [Generations -> FenceRec]
      BY <2>1, <2>8, TypeOKInParts, FenceMoved DEF SwitchNotPrepared, ActHolds, FenceState
    <3> QED BY <2>8, <3>1, TypeOKInParts, TypeOKInPartsNext, SlotEmptied, RunStopped,
               ActMoved
            DEF SwitchNotPrepared, RollBack, ActivationPc
  <2>9. CASE SwitchResumes(g)
    BY <2>1, <2>9, TypeOKInParts, TypeOKInPartsNext, OpenFenceTyped, ActMoved
       DEF SwitchResumes, ActHolds, ActivationPc
  <2>10. CASE SwitchCommits(g)
    <3>1. seat' \in [Generations -> Seat]
      BY <2>1, <2>10, TypeOKInParts DEF Seat, SwitchCommits, ActHolds
    <3> QED BY <2>1, <2>10, <3>1, TypeOKInParts, TypeOKInPartsNext, AuthorityTaken,
               CommitTyped
               DEF SwitchCommits
  <2>11. CASE Adopted(g)
    <3>1. seat' \in [Generations -> Seat]
      BY <2>11, TypeOKInParts, TypeOKInPartsNext DEF Adopted, runOf, Seat
    <3>2. auth' \in AuthRec
      BY <2>11, TypeOKInParts, TypeOKInPartsNext DEF Adopted, AuthRec
    <3>3. fence' \in [Generations -> FenceRec]
      BY <2>11, TypeOKInParts, TypeOKInPartsNext, OpenFenceTyped DEF Adopted
    <3> QED BY <2>11, <3>1, <3>2, <3>3, TypeOKInParts, TypeOKInPartsNext, ActMoved
               DEF Adopted, ActivationPc
  <2>12. CASE AdoptionFails(g)
    BY <2>12, TypeOKInParts, TypeOKInPartsNext, SessionIsGenerationOrNone, AuthorityTaken,
       ActMoved
       DEF AdoptionFails, ActivationPc
  <2>13. CASE Undone(g)
    BY <2>13, TypeOKInParts, TypeOKInPartsNext, SessionIsGenerationOrNone, AuthorityTaken,
       RunStopped, PcsAreTyped, ActMoved
       DEF Undone, ActivationPc
  <2>14. CASE Reaped(g)
    BY <2>14, TypeOKInParts, TypeOKInPartsNext, ActMoved DEF Reaped, ActivationPc
  <2> QED BY <1>2, <2>2, <2>3, <2>4, <2>5, <2>6, <2>7, <2>8, <2>9, <2>10, <2>11, <2>12,
             <2>13, <2>14
          DEF ActivationStep
<1>3. ASSUME NEW d \in Deactivations, Deactivate(d) \/ DeactivationStep(d) PROVE TypeOK'
  <2>1. /\ deact[d].old \in Session
        /\ DeactHolds(d) => deact[d].old \in Generations
    BY TypeOKInParts DEF DeactRec, HoldersFenced, HoldsFence
  <2>2. CASE Deactivate(d)
    <3>1. ActiveSeat \in Generations
      BY <2>2, TypeOKInParts, TypeOKInPartsNext, SessionIsGenerationOrNone
         DEF Deactivate, ActiveSeat, SupRec
    <3>2. fence' \in [Generations -> FenceRec]
      BY <2>2, <3>1, TypeOKInParts, TypeOKInPartsNext, FenceMoved
         DEF Deactivate, FenceState
    <3>3. [pc |-> "draining", old |-> ActiveSeat] \in DeactRec
      BY <3>1, SessionIsGenerationOrNone DEF DeactRec, DeactivationPc
    <3>4. deact' \in [Deactivations -> DeactRec]
      BY <2>2, <3>3, TypeOKInParts, TypeOKInPartsNext DEF Deactivate
    <3> QED BY <2>2, <3>2, <3>4, TypeOKInParts, TypeOKInPartsNext DEF Deactivate
  <2>3. CASE DeactivationDrainFails(d)
    <3>1. fence' \in [Generations -> FenceRec]
      <4>1. DrainFailure(fence[deact[d].old]) \in FenceState
        BY <2>3 DEF DeactivationDrainFails, DrainFailure, FenceState
      <4> QED BY <2>1, <2>3, <4>1, TypeOKInParts, FenceMoved
                 DEF DeactivationDrainFails, DeactHolds
    <3> QED BY <2>3, <3>1, TypeOKInParts, TypeOKInPartsNext, DeactMoved
               DEF DeactivationDrainFails, DeactivationPc
  <2>4. CASE DeactivationNotPrepared(d)
    BY <2>1, <2>4, TypeOKInParts, TypeOKInPartsNext, OpenFenceTyped, DeactMoved
       DEF DeactivationNotPrepared, DeactHolds, DeactivationPc
  <2>5. CASE DeactivationRevokes(d)
    <3>1. fence' \in [Generations -> FenceRec]
      BY <2>1, <2>5, TypeOKInParts, FenceMoved
         DEF DeactivationRevokes, DeactHolds, FenceState
    <3> QED BY <2>1, <2>5, <3>1, TypeOKInParts, TypeOKInPartsNext, AuthorityTaken,
               DeactMoved
            DEF DeactivationRevokes, DeactivationPc
  <2>6. CASE DeactivationClears(d)
    <3>1. sup.active \in Session /\ sup' \in SupRec
      BY <2>6, TypeOKInParts, TypeOKInPartsNext, SessionIsGenerationOrNone
         DEF DeactivationClears, SupRec
    <3>2. auth' \in AuthRec
      <4>1. RestRevoked(auth, deact[d].old) \in AuthRec
        BY <2>1, TypeOKInParts, TypeOKInPartsNext, AuthorityTaken
      <4> QED BY <2>6, <3>1, <4>1, AuthorityTaken DEF DeactivationClears
    <3>3. sess' \in [Generations -> SessRec]
      BY <2>6, TypeOKInParts, TypeOKInPartsNext DEF DeactivationClears, SessRec, Stopped
    <3>4. seat' \in [Generations -> Seat]
      BY <2>1, <2>6, TypeOKInParts DEF Seat, DeactivationClears, DeactHolds
    <3> QED BY <2>6, <3>1, <3>2, <3>3, <3>4, TypeOKInParts, TypeOKInPartsNext, DeactMoved
            DEF DeactivationClears, DeactivationPc
  <2> QED BY <1>3, <2>2, <2>3, <2>4, <2>5, <2>6 DEF DeactivationStep
<1>4. ASSUME NEW g \in Generations, Submit(g) PROVE TypeOK'
  <2>1. fence' \in [Generations -> FenceRec]
    BY <1>4, TypeOKInParts, TypeOKInPartsNext DEF Submit, FenceRec
  <2> QED BY <1>4, <2>1, TypeOKInParts, TypeOKInPartsNext DEF Submit
<1>5. ASSUME NEW g \in Generations, NEW conflict \in BOOLEAN, Settle(g, conflict) PROVE TypeOK'
  <2>1. fence' \in [Generations -> FenceRec]
    BY <1>5, TypeOKInParts, TypeOKInPartsNext DEF Settle, FenceRec, FenceState
  <2> QED BY <1>5, <2>1, TypeOKInParts, TypeOKInPartsNext DEF Settle
<1>6. ASSUME NEW g \in Generations, RunCloses(g) PROVE TypeOK'
  <2>1. crashes' \in 0 .. MaxCrashes
    BY <1>6, TypeOKInParts, TypeOKInPartsNext, SwitchAssumption DEF RunCloses
  <2>2. sess' \in [Generations -> SessRec]
    BY <1>6, TypeOKInParts, TypeOKInPartsNext DEF RunCloses, SessRec
  <2>3. sup' \in SupRec
    BY <1>6, TypeOKInParts, TypeOKInPartsNext, SessionIsGenerationOrNone
       DEF RunCloses, SupRec
  <2>4. auth' \in AuthRec
    BY <1>6, TypeOKInParts, TypeOKInPartsNext, SessionIsGenerationOrNone, AuthorityTaken
       DEF RunCloses
  <2> QED BY <1>6, <2>1, <2>2, <2>3, <2>4, TypeOKInParts, TypeOKInPartsNext DEF RunCloses
<1>7. CASE UNCHANGED vars
  BY <1>7, TypeOKInParts, TypeOKInPartsNext DEF vars
<1> QED BY <1>1, <1>2, <1>3, <1>4, <1>5, <1>6, <1>7 DEF Next

-----------------------------------------------------------------------------
(* What the steps change, in plain terms.                                  *)

LEMMA DrainedIsQuiet ==
  ASSUME NEW f \in FenceRec, Drained(f) PROVE [f EXCEPT !.state = "drained"] = Quiet
<1>1. f.work \in BOOLEAN /\ f.conflict \in BOOLEAN
  BY DEF FenceRec
<1>2. f.work = FALSE /\ f.conflict = FALSE
  BY <1>1 DEF Drained
<1> DEFINE r == [f EXCEPT !.state = "drained"]
<1>3. r \in FenceRec /\ r.state = "drained" /\ r.work = FALSE /\ r.conflict = FALSE
  BY <1>2 DEF FenceRec, FenceState
<1>4. /\ Quiet \in FenceRec /\ Quiet.state = "drained" /\ Quiet.work = FALSE
      /\ Quiet.conflict = FALSE
  BY DEF FenceRec, FenceState, Quiet, OpenFence
<1>5. \A p, q \in FenceRec :
        p.state = q.state /\ p.work = q.work /\ p.conflict = q.conflict => p = q
  BY DEF FenceRec
<1> HIDE DEF r
<1>6. r = Quiet
  BY <1>3, <1>4, <1>5
<1> QED BY <1>6 DEF r

LEMMA ActMovesAlone ==
  ASSUME act \in [Generations -> ActRec], NEW g \in Generations, NEW pc,
         act' = [act EXCEPT ![g].pc = pc]
  PROVE  /\ act'[g].pc = pc /\ act'[g].old = act[g].old
         /\ \A x \in Generations \ {g} : act'[x] = act[x]
BY DEF ActRec

\* A commit gives the candidate all or nothing, over what is left of `a`.
CommitGives(g, a) ==
    /\ sup'.next = sup.next /\ sup'.slot = 0 /\ sup'.active \in {0, g}
    /\ \A x \in Generations : sess'[x].key = sess[x].key
    /\ act'[g].pc \in {"adopting", "reaping", "done"}
    /\ act' = [act EXCEPT ![g].pc = act'[g].pc]
    /\ act'[g].pc = "adopting" => auth'.lease = g /\ auth'.editor = g
    /\ act'[g].pc # "adopting" => auth'.lease = a.lease /\ auth'.editor \in {0, a.editor} \ {g}
    /\ auth'.grants \subseteq a.grants

LEMMA CommitEffect ==
  ASSUME TypeOK, Begun, NEW g \in Generations, act[g].pc # "unused",
         NEW a \in AuthRec, CommitAndAdopt(g, a)
  PROVE  CommitGives(g, a)
<1>1. sup'.next = sup.next /\ sup'.slot = 0 /\ sup'.active \in {0, g}
  BY TypeOKInParts DEF CommitAndAdopt, SupRec
<1>2. \A x \in Generations : sess'[x].key = sess[x].key
  <2>1. PICK S : sess' = [x \in Generations |->
                           IF x \in S THEN [sess[x] EXCEPT !.stopping = TRUE] ELSE sess[x]]
    BY CommitPassesThrough
  <2> QED BY <2>1, TypeOKInParts DEF SessRec
<1>3. act' = [act EXCEPT ![g].pc = IF Adopts(g, a) THEN "adopting" ELSE AftermathPc(g)]
  BY CommitPassesThrough
<1>4. act'[g].pc = IF Adopts(g, a) THEN "adopting" ELSE AftermathPc(g)
  BY <1>3, TypeOKInParts, ActMovesAlone
<1>5. CASE Adopts(g, a)
  <2>1. auth' = [Bound(g, a) EXCEPT !.routed = Key(g), !.lease = g]
    BY <1>5, CommitPassesThrough
  <2>2. auth'.lease = g /\ auth'.editor = g /\ auth'.grants = a.grants
    BY <2>1, CandidateAuthority DEF AuthRec
  <2> QED BY <1>1, <1>2, <1>3, <1>4, <1>5, <2>2 DEF CommitGives
<1>6. CASE ~Adopts(g, a)
  <2>1. ASSUME NEW b \in AuthRec
        PROVE  /\ RestRevoked(b, g).lease = b.lease
               /\ RestRevoked(b, g).editor = IF b.editor = g THEN 0 ELSE b.editor
               /\ RestRevoked(b, g).grants = b.grants \ {g}
    BY DEF RestRevoked, AuthRec
  <2>2. auth' \in {RestRevoked(Bound(g, a), g), RestRevoked(Swapped(g, a), g)}
    BY <1>6, CommitPassesThrough
  <2>3. /\ auth'.lease = a.lease /\ auth'.editor \in {0, a.editor} \ {g}
        /\ auth'.grants \subseteq a.grants
    BY <2>1, <2>2, CandidateAuthority, GenerationsAreNaturals
  <2> QED BY <1>1, <1>2, <1>3, <1>4, <1>6, <2>3, PcsAreTyped DEF CommitGives
<1> QED BY <1>5, <1>6

\* A crash, or a stopped run's end, takes no lease and no grants.
RunEnds(g) ==
    /\ sup'.next = sup.next /\ sup'.slot = sup.slot /\ sup'.active \in {0, sup.active}
    /\ \A x \in Generations : sess'[x].key = sess[x].key
    /\ auth'.lease = auth.lease /\ auth'.grants = auth.grants
    /\ auth'.editor = auth.editor \/ (auth'.editor = 0 /\ sup'.active = 0)

LEMMA RunClosesEffect ==
  ASSUME TypeOK, NEW g \in Generations, RunCloses(g)
  PROVE  RunEnds(g)
<1>1. \A x \in Generations : sess'[x].key = sess[x].key
  BY TypeOKInParts DEF RunCloses, SessRec
<1>2. CASE sup.active = g
  BY <1>1, <1>2, TypeOKInParts DEF RunCloses, RunEnds, Retired, SupRec, AuthRec
<1>3. CASE sup.active # g
  BY <1>1, <1>3 DEF RunEnds, RunCloses
<1> QED BY <1>2, <1>3

\* A deactivation takes what its session had and clears the supervisor.
DeactivationTakes(d) ==
    /\ sup'.next = sup.next /\ sup'.slot = sup.slot /\ sup'.active = 0
    /\ \A x \in Generations : sess'[x].key = sess[x].key
    /\ auth'.lease = auth.lease /\ auth'.grants = auth.grants \ {deact[d].old}
    /\ auth'.editor \in {0, auth.editor}
    /\ deact[d].old # 0 => auth'.editor # deact[d].old

LEMMA ClearsEffect ==
  ASSUME TypeOK, NEW d \in Deactivations, DeactivationClears(d)
  PROVE  DeactivationTakes(d)
<1>1. \A x \in Generations : sess'[x].key = sess[x].key
  BY TypeOKInParts DEF DeactivationClears, Stopped, SessRec
<1>2. sup'.next = sup.next /\ sup'.slot = sup.slot /\ sup'.active = 0
  BY TypeOKInParts DEF DeactivationClears, SupRec
<1>3. auth' = Retired(RestRevoked(auth, deact[d].old), sup.active)
  BY DEF DeactivationClears
<1>4. /\ auth'.lease = auth.lease /\ auth'.grants = auth.grants \ {deact[d].old}
      /\ auth'.editor \in {0, auth.editor}
      /\ deact[d].old # 0 => auth'.editor # deact[d].old
  BY <1>3, TypeOKInParts DEF Retired, RestRevoked, AuthRec
<1> QED BY <1>1, <1>2, <1>4 DEF DeactivationTakes

-----------------------------------------------------------------------------
(* Every action preserves the invariant.                                   *)

LEMMA ActivatePreserves ==
  ASSUME IInv, TypeOK', NEW p \in Projects, Activate(p)
  PROVE  IInv'
<1> USE GenerationsAreNaturals
<1>1. /\ sup.next \in Generations /\ act[sup.next].pc = "unused"
      /\ act' = [act EXCEPT ![sup.next].pc = "starting"]
  BY TypeOKInParts DEF IInv, Begun, Activate
<1>2. Begun' /\ CommitStaysPossible' /\ SeatedIsDone'
  BY <1>1
     DEF IInv, Activate, AdmitsAttempt, TypeOK, Begun, CommitStaysPossible, SeatedIsDone
<1>3. HoldersFenced'
  BY <1>1 DEF IInv, Activate, HoldersFenced, ActHolds, DeactHolds, HoldsFence
<1>4. HoldersDiffer'
  BY <1>1 DEF IInv, Activate, HoldersDiffer, ActHolds, DeactHolds
<1>5. AuthorityHasHolder'
  BY <1>1 DEF IInv, Activate, AuthorityHasHolder, IsSeated
<1>6. LeaseGoesFirst'
  BY <1>1 DEF IInv, Activate, LeaseGoesFirst, Revoking
<1>7. AdoptingHasAuthority' /\ SeatedHasAuthority'
  BY <1>1
     DEF IInv, Activate, AdoptingHasAuthority, SeatedHasAuthority, ActiveSeat, Revoking
<1> QED BY <1>2, <1>3, <1>4, <1>5, <1>6, <1>7 DEF IInv

LEMMA ReadinessFailsPreserves ==
  ASSUME IInv, TypeOK', NEW g \in Generations, ReadinessFails(g)
  PROVE  IInv'
<1> USE GenerationsAreNaturals
<1>1. Begun' /\ CommitStaysPossible' /\ SeatedIsDone'
  BY DEF IInv, ReadinessFails, Stopped, TypeOK, Begun, CommitStaysPossible, SeatedIsDone
<1>2. HoldersFenced'
  BY DEF IInv, ReadinessFails, HoldersFenced, ActHolds, DeactHolds, HoldsFence
<1>3. HoldersDiffer'
  BY DEF IInv, ReadinessFails, HoldersDiffer, ActHolds, DeactHolds
<1>4. AuthorityHasHolder'
  BY DEF IInv, ReadinessFails, AuthorityHasHolder, IsSeated
<1>5. LeaseGoesFirst'
  BY DEF IInv, ReadinessFails, LeaseGoesFirst, Revoking
<1>6. AdoptingHasAuthority' /\ SeatedHasAuthority'
  BY DEF IInv, ReadinessFails, AdoptingHasAuthority, SeatedHasAuthority, ActiveSeat,
         Revoking
<1> QED BY <1>1, <1>2, <1>3, <1>4, <1>5, <1>6 DEF IInv

LEMMA FirstCommitPreserves ==
  ASSUME IInv, TypeOK', NEW g \in Generations, FirstCommit(g)
  PROVE  IInv'
<1> USE GenerationsAreNaturals
<1>1. /\ CommitGives(g, auth) /\ act[g].pc = "starting" /\ ActiveSeat = 0
      /\ UNCHANGED <<deact, seat, fence>>
  BY TypeOKInParts, CommitEffect DEF IInv, FirstCommit
<1>2. \A x \in Generations \ {g} : act'[x] = act[x]
  BY <1>1, TypeOKInParts, ActMovesAlone DEF IInv, CommitGives
<1>3. Begun' /\ CommitStaysPossible' /\ SeatedIsDone'
  BY <1>1, <1>2 DEF IInv, CommitGives, Begun, CommitStaysPossible, SeatedIsDone
<1>4. HoldersFenced'
  BY <1>1, <1>2 DEF IInv, CommitGives, HoldersFenced, ActHolds, DeactHolds, HoldsFence
<1>5. HoldersDiffer'
  BY <1>1, <1>2 DEF IInv, CommitGives, HoldersDiffer, ActHolds, DeactHolds
<1>6. AuthorityHasHolder'
  <2>1. \A x \in Generations \ {g} : IsSeated(x) => IsSeated(x)'
    BY <1>1, <1>2 DEF IInv, IsSeated
  <2>2. act[g].pc \notin {"adopting", "undoing", "done"}
    BY <1>1
  <2>3. (auth.lease # 0 => act[auth.lease].pc = "adopting" \/ IsSeated(auth.lease))'
    BY <1>1, <1>2, <2>1, <2>2, TypeOKInPartsNext, SessionIsGenerationOrNone
       DEF IInv, AuthorityHasHolder, AuthRec, IsSeated, CommitGives
  <2>4. (auth.editor # 0 =>
          act[auth.editor].pc \in {"adopting", "undoing"} \/ IsSeated(auth.editor))'
    BY <1>1, <1>2, <2>1, <2>2, TypeOKInPartsNext, SessionIsGenerationOrNone
       DEF IInv, AuthorityHasHolder, AuthRec, IsSeated, CommitGives
  <2>5. \A x \in auth'.grants : IsSeated(x)'
    BY <1>1, <1>2, <2>1, <2>2, TypeOKInPartsNext
       DEF IInv, AuthorityHasHolder, AuthRec, IsSeated, CommitGives
  <2> QED BY <2>3, <2>4, <2>5 DEF AuthorityHasHolder, IsSeated
<1>7. LeaseGoesFirst'
  BY <1>1, <1>2
     DEF IInv, CommitGives, LeaseGoesFirst, Revoking, HoldersFenced, ActHolds, DeactHolds,
         HoldsFence
<1>8. AdoptingHasAuthority' /\ SeatedHasAuthority'
  BY <1>1, <1>2
     DEF IInv, CommitGives, AdoptingHasAuthority, SeatedIsDone, SeatedHasAuthority,
         ActiveSeat
<1> QED BY <1>3, <1>4, <1>5, <1>6, <1>7, <1>8 DEF IInv

LEMMA StartSwitchPreserves ==
  ASSUME IInv, TypeOK', NEW g \in Generations, StartSwitch(g)
  PROVE  IInv'
<1> USE GenerationsAreNaturals
<1>1. /\ ActiveSeat \in Generations /\ act[ActiveSeat].pc = "done"
      /\ fence[ActiveSeat].state = "open"
      /\ fence'[ActiveSeat].state = "draining"
  BY TypeOKInParts, SessionIsGenerationOrNone
     DEF IInv, SeatedIsDone, StartSwitch, FenceAdmits, ActiveSeat, SupRec
<1>2. Begun' /\ CommitStaysPossible' /\ SeatedIsDone'
  BY <1>1 DEF IInv, StartSwitch, Begun, CommitStaysPossible, SeatedIsDone
<1>3. HoldersFenced'
  BY <1>1 DEF IInv, StartSwitch, Quiet, HoldersFenced, ActHolds, DeactHolds, HoldsFence
<1>4. HoldersDiffer'
  BY <1>1
     DEF IInv, StartSwitch, HoldersDiffer, OpenFence, Quiet, HoldersFenced, ActHolds,
         DeactHolds, HoldsFence
<1>5. AuthorityHasHolder'
  BY <1>1 DEF IInv, StartSwitch, AuthorityHasHolder, IsSeated
<1>6. LeaseGoesFirst'
  BY <1>1 DEF IInv, StartSwitch, LeaseGoesFirst, Revoking
<1>7. AdoptingHasAuthority' /\ SeatedHasAuthority'
  BY <1>1
     DEF IInv, StartSwitch, ActiveSeat, AdoptingHasAuthority, SeatedHasAuthority, Revoking
<1> QED BY <1>2, <1>3, <1>4, <1>5, <1>6, <1>7 DEF IInv

LEMMA SwitchRefusedPreserves ==
  ASSUME IInv, TypeOK', NEW g \in Generations, SwitchRefused(g)
  PROVE  IInv'
<1> USE GenerationsAreNaturals
<1>1. Begun' /\ CommitStaysPossible' /\ SeatedIsDone'
  BY DEF IInv, SwitchRefused, RollBack, Stopped, TypeOK, Begun, CommitStaysPossible,
         SeatedIsDone
<1>2. HoldersFenced'
  BY DEF IInv, SwitchRefused, RollBack, HoldersFenced, ActHolds, DeactHolds, HoldsFence
<1>3. HoldersDiffer'
  BY DEF IInv, SwitchRefused, RollBack, HoldersDiffer, ActHolds, DeactHolds
<1>4. AuthorityHasHolder'
  BY DEF IInv, SwitchRefused, RollBack, AuthorityHasHolder, IsSeated
<1>5. LeaseGoesFirst'
  BY DEF IInv, SwitchRefused, RollBack, LeaseGoesFirst, Revoking
<1>6. AdoptingHasAuthority' /\ SeatedHasAuthority'
  BY DEF IInv, SwitchRefused, RollBack, AdoptingHasAuthority, SeatedHasAuthority,
         ActiveSeat, Revoking
<1> QED BY <1>1, <1>2, <1>3, <1>4, <1>5, <1>6 DEF IInv

LEMMA SwitchDrainFailsPreserves ==
  ASSUME IInv, TypeOK', NEW g \in Generations, SwitchDrainFails(g)
  PROVE  IInv'
<1> USE GenerationsAreNaturals
<1>1. /\ act[g].pc = "draining" /\ act[g].old \in Generations /\ act'[g].pc = "reaping"
      /\ \A x \in Generations \ {act[g].old} : fence'[x] = fence[x]
      /\ \A x \in Generations \ {g} : act'[x] = act[x]
  BY TypeOKInParts, ActMovesAlone
     DEF IInv, HoldersFenced, HoldsFence, ActHolds, SwitchDrainFails, RollBack
<1>2. Begun' /\ CommitStaysPossible' /\ SeatedIsDone'
  BY <1>1
     DEF IInv, SwitchDrainFails, RollBack, Stopped, Begun, CommitStaysPossible,
         SeatedIsDone
<1>3. HoldersFenced'
  BY <1>1
     DEF IInv, SwitchDrainFails, HoldersDiffer, HoldersFenced, ActHolds, DeactHolds,
         HoldsFence
<1>4. HoldersDiffer'
  BY <1>1 DEF IInv, SwitchDrainFails, RollBack, HoldersDiffer, ActHolds, DeactHolds
<1>5. AuthorityHasHolder'
  BY <1>1 DEF IInv, SwitchDrainFails, RollBack, AuthorityHasHolder, IsSeated
<1>6. LeaseGoesFirst'
  BY <1>1 DEF IInv, SwitchDrainFails, LeaseGoesFirst, Revoking
<1>7. AdoptingHasAuthority' /\ SeatedHasAuthority'
  BY <1>1
     DEF IInv, SwitchDrainFails, RollBack, AdoptingHasAuthority, SeatedHasAuthority,
         ActiveSeat, Revoking
<1> QED BY <1>2, <1>3, <1>4, <1>5, <1>6, <1>7 DEF IInv

LEMMA SwitchRevokesPreserves ==
  ASSUME IInv, TypeOK', NEW g \in Generations, SwitchRevokes(g)
  PROVE  IInv'
<1> USE GenerationsAreNaturals
<1>1. fence'[act[g].old] = Quiet
  <2>1. act[g].old \in Generations /\ fence[act[g].old] \in FenceRec /\ Drained(fence[act[g].old])
    BY TypeOKInParts DEF IInv, HoldersFenced, HoldsFence, ActHolds, SwitchRevokes
  <2>2. fence'[act[g].old] = [fence[act[g].old] EXCEPT !.state = "drained"]
    BY <2>1, TypeOKInParts DEF IInv, SwitchRevokes
  <2> QED BY <2>1, <2>2, DrainedIsQuiet
<1>2. Begun' /\ CommitStaysPossible' /\ SeatedIsDone'
  BY <1>1 DEF IInv, SwitchRevokes, Begun, CommitStaysPossible, SeatedIsDone
<1>3. HoldersFenced'
  BY <1>1
     DEF IInv, SwitchRevokes, Drained, ClientIsAuthoritative, RouteRevoked, Key,
         NoProject, TypeOK, FenceState, HoldersDiffer, SeatedIsDone, Quiet, OpenFence,
         HoldersFenced, ActHolds, DeactHolds, HoldsFence
<1>4. HoldersDiffer'
  BY <1>1 DEF IInv, SwitchRevokes, HoldersDiffer, ActHolds, DeactHolds
<1>5. AuthorityHasHolder'
  BY <1>1
     DEF IInv, SwitchRevokes, Drained, ClientIsAuthoritative, RouteRevoked,
         AuthorityHasHolder, IsSeated
<1>6. LeaseGoesFirst'
  BY <1>1 DEF IInv, SwitchRevokes, RouteRevoked, LeaseGoesFirst, Revoking
<1>7. AdoptingHasAuthority' /\ SeatedHasAuthority'
  BY <1>1
     DEF IInv, SwitchRevokes, Drained, ClientIsAuthoritative, TypeOK,
         AdoptingHasAuthority, SeatedHasAuthority, ActiveSeat, Revoking, HoldersFenced,
         ActHolds, HoldsFence
<1> QED BY <1>2, <1>3, <1>4, <1>5, <1>6, <1>7 DEF IInv

LEMMA SwitchNotPreparedPreserves ==
  ASSUME IInv, TypeOK', NEW g \in Generations, SwitchNotPrepared(g)
  PROVE  IInv'
<1> USE GenerationsAreNaturals
<1>1. fence'[act[g].old] = Quiet
  <2>1. act[g].old \in Generations /\ fence[act[g].old] \in FenceRec /\ Drained(fence[act[g].old])
    BY TypeOKInParts DEF IInv, HoldersFenced, HoldsFence, ActHolds, SwitchNotPrepared
  <2>2. fence'[act[g].old] = [fence[act[g].old] EXCEPT !.state = "drained"]
    BY <2>1, TypeOKInParts DEF IInv, SwitchNotPrepared
  <2> QED BY <2>1, <2>2, DrainedIsQuiet
<1>2. Begun' /\ CommitStaysPossible' /\ SeatedIsDone'
  BY <1>1
     DEF IInv, SwitchNotPrepared, RollBack, Stopped, TypeOK, Begun, CommitStaysPossible,
         SeatedIsDone
<1>3. HoldersFenced'
  BY <1>1
     DEF IInv, SwitchNotPrepared, Drained, RollBack, Stopped, TypeOK, FenceState,
         HoldersDiffer, SeatedIsDone, Quiet, OpenFence, HoldersFenced, ActHolds,
         DeactHolds, HoldsFence
<1>4. HoldersDiffer'
  BY <1>1 DEF IInv, SwitchNotPrepared, RollBack, HoldersDiffer, ActHolds, DeactHolds
<1>5. AuthorityHasHolder'
  BY <1>1 DEF IInv, SwitchNotPrepared, RollBack, AuthorityHasHolder, IsSeated
<1>6. LeaseGoesFirst'
  BY <1>1 DEF IInv, SwitchNotPrepared, RollBack, LeaseGoesFirst, Revoking
<1>7. AdoptingHasAuthority' /\ SeatedHasAuthority'
  BY <1>1
     DEF IInv, SwitchNotPrepared, RollBack, AdoptingHasAuthority, SeatedHasAuthority,
         ActiveSeat, Revoking
<1> QED BY <1>2, <1>3, <1>4, <1>5, <1>6, <1>7 DEF IInv

LEMMA SwitchResumesPreserves ==
  ASSUME IInv, TypeOK', NEW g \in Generations, SwitchResumes(g)
  PROVE  IInv'
<1> USE GenerationsAreNaturals
<1>1. Begun' /\ CommitStaysPossible' /\ SeatedIsDone'
  BY DEF IInv, SwitchResumes, Begun, CommitStaysPossible, SeatedIsDone
<1>2. HoldersFenced'
  BY DEF IInv, SwitchResumes, TypeOK, HoldersDiffer, HoldersFenced, ActHolds, DeactHolds,
         HoldsFence
<1>3. HoldersDiffer'
  BY DEF IInv, SwitchResumes, HoldersDiffer, ActHolds, DeactHolds
<1>4. AuthorityHasHolder'
  BY DEF IInv, SwitchResumes, AuthorityHasHolder, IsSeated
<1>5. LeaseGoesFirst'
  BY DEF IInv, SwitchResumes, LeaseGoesFirst, Revoking
<1>6. AdoptingHasAuthority' /\ SeatedHasAuthority'
  BY DEF IInv, SwitchResumes, AdoptingHasAuthority, SeatedHasAuthority, ActiveSeat,
         Revoking
<1> QED BY <1>1, <1>2, <1>3, <1>4, <1>5, <1>6 DEF IInv

LEMMA SwitchCommitsPreserves ==
  ASSUME IInv, TypeOK', NEW g \in Generations, SwitchCommits(g)
  PROVE  IInv'
<1> USE GenerationsAreNaturals
<1> DEFINE o == act[g].old
<1>1. /\ act[g].pc = "revoking" /\ o \in Generations /\ act[o].pc = "done"
      /\ auth.lease # o /\ seat \in [Generations -> Seat]
  BY TypeOKInParts
     DEF IInv, SwitchCommits, HoldersFenced, HoldsFence, ActHolds, LeaseGoesFirst,
         Revoking
<1>2. /\ CommitGives(g, RestRevoked(auth, o)) /\ UNCHANGED <<deact, fence>>
      /\ seat' = [seat EXCEPT ![o] = "none"]
  <2>1. RestRevoked(auth, o) \in AuthRec
    BY <1>1, TypeOKInParts, SessionIsGenerationOrNone, AuthorityTaken DEF IInv
  <2> QED BY <1>1, <2>1, CommitEffect DEF IInv, SwitchCommits
<1>3. \A x \in Generations \ {g} : act'[x] = act[x]
  BY <1>2, TypeOKInParts, ActMovesAlone DEF IInv, CommitGives
<1>4. /\ auth'.lease \in {auth.lease, g}
      /\ act'[g].pc = "adopting" => auth'.lease = g /\ auth'.editor = g
      /\ act'[g].pc # "adopting" =>
            auth'.lease = auth.lease /\ auth'.editor \in {0, auth.editor} \ {g, o}
      /\ auth'.grants \subseteq auth.grants \ {o}
  <2>1. /\ RestRevoked(auth, o).lease = auth.lease
        /\ RestRevoked(auth, o).editor \in {0, auth.editor} \ {o}
        /\ RestRevoked(auth, o).grants = auth.grants \ {o}
    BY <1>1, TypeOKInParts DEF IInv, RestRevoked, AuthRec
  <2> QED BY <1>1, <1>2, <2>1 DEF CommitGives
<1>5. /\ sup'.next = sup.next /\ sup'.slot = 0 /\ sup'.active \in {0, g}
      /\ act'[g].pc \in {"adopting", "reaping", "done"}
      /\ \A x \in Generations : sess'[x].key = sess[x].key
  BY <1>2 DEF CommitGives
<1> HIDE DEF o
<1>6. Begun' /\ CommitStaysPossible' /\ SeatedIsDone'
  BY <1>1, <1>2, <1>3, <1>4, <1>5 DEF IInv, Begun, CommitStaysPossible, SeatedIsDone
<1>7. HoldersFenced'
  BY <1>1, <1>2, <1>3, <1>4, <1>5
     DEF IInv, HoldersFenced, ActHolds, DeactHolds, HoldsFence
<1>8. HoldersDiffer'
  BY <1>1, <1>2, <1>3, <1>4, <1>5 DEF IInv, HoldersDiffer, ActHolds, DeactHolds
<1>9. AuthorityHasHolder'
  <2>1. \A x \in Generations \ {g} : IsSeated(x) /\ x # o => IsSeated(x)'
    BY <1>1, <1>2, <1>3, <1>4, <1>5 DEF IInv, IsSeated
  <2>2. act[g].pc \notin {"adopting", "undoing", "done"}
    BY <1>1
  <2>3. (auth.lease # 0 => act[auth.lease].pc = "adopting" \/ IsSeated(auth.lease))'
    BY <1>1, <1>2, <1>3, <1>4, <1>5, <2>1, <2>2, TypeOKInPartsNext,
       SessionIsGenerationOrNone
       DEF IInv, AuthorityHasHolder, AuthRec, IsSeated, CommitGives
  <2>4. (auth.editor # 0 =>
          act[auth.editor].pc \in {"adopting", "undoing"} \/ IsSeated(auth.editor))'
    BY <1>1, <1>2, <1>3, <1>4, <1>5, <2>1, <2>2, TypeOKInPartsNext,
       SessionIsGenerationOrNone
       DEF IInv, AuthorityHasHolder, AuthRec, IsSeated, CommitGives
  <2>5. \A x \in auth'.grants : IsSeated(x)'
    BY <1>1, <1>2, <1>3, <1>4, <1>5, <2>1, <2>2, TypeOKInPartsNext
       DEF IInv, AuthorityHasHolder, AuthRec, IsSeated
  <2> QED BY <2>3, <2>4, <2>5 DEF AuthorityHasHolder, IsSeated
<1>10. LeaseGoesFirst'
  BY <1>1, <1>2, <1>3, <1>4, <1>5
     DEF IInv, LeaseGoesFirst, Revoking, HoldersFenced, ActHolds, DeactHolds, HoldsFence
<1>11. AdoptingHasAuthority' /\ SeatedHasAuthority'
  BY <1>1, <1>2, <1>3, <1>4, <1>5
     DEF IInv, AdoptingHasAuthority, SeatedIsDone, SeatedHasAuthority, ActiveSeat
<1> QED BY <1>6, <1>7, <1>8, <1>9, <1>10, <1>11 DEF IInv

LEMMA AdoptedPreserves ==
  ASSUME IInv, TypeOK', NEW g \in Generations, Adopted(g)
  PROVE  IInv'
<1> USE GenerationsAreNaturals
<1>1. Begun' /\ CommitStaysPossible' /\ SeatedIsDone'
  BY DEF IInv, Adopted, TypeOK, Begun, CommitStaysPossible, SeatedIsDone
<1>2. HoldersFenced'
  BY DEF IInv, Adopted, HoldersFenced, ActHolds, DeactHolds, HoldsFence
<1>3. HoldersDiffer'
  BY DEF IInv, Adopted, HoldersDiffer, ActHolds, DeactHolds
<1>4. AuthorityHasHolder'
  BY DEF IInv, Adopted, runOf, TypeOK, AuthorityHasHolder, IsSeated
<1>5. LeaseGoesFirst'
  BY DEF IInv, Adopted, LeaseGoesFirst, Revoking
<1>6. AdoptingHasAuthority' /\ SeatedHasAuthority'
  BY DEF IInv, Adopted, AdoptingHasAuthority, SeatedHasAuthority, ActiveSeat, Revoking
<1> QED BY <1>1, <1>2, <1>3, <1>4, <1>5, <1>6 DEF IInv

LEMMA AdoptionFailsPreserves ==
  ASSUME IInv, TypeOK', NEW g \in Generations, AdoptionFails(g)
  PROVE  IInv'
<1> USE GenerationsAreNaturals
<1>1. Begun' /\ CommitStaysPossible' /\ SeatedIsDone'
  BY DEF IInv, AdoptionFails, Begun, CommitStaysPossible, SeatedIsDone
<1>2. HoldersFenced'
  BY DEF IInv, AdoptionFails, HoldersFenced, ActHolds, DeactHolds, HoldsFence
<1>3. HoldersDiffer'
  BY DEF IInv, AdoptionFails, HoldersDiffer, ActHolds, DeactHolds
<1>4. AuthorityHasHolder'
  BY DEF IInv, AdoptionFails, RouteRevoked, AuthorityHasHolder, IsSeated
<1>5. LeaseGoesFirst'
  BY DEF IInv, AdoptionFails, RouteRevoked, LeaseGoesFirst, Revoking
<1>6. AdoptingHasAuthority' /\ SeatedHasAuthority'
  BY DEF IInv, AdoptionFails, RouteRevoked, TypeOK, AdoptingHasAuthority, SeatedIsDone,
         SeatedHasAuthority, ActiveSeat, Revoking
<1> QED BY <1>1, <1>2, <1>3, <1>4, <1>5, <1>6 DEF IInv

LEMMA UndonePreserves ==
  ASSUME IInv, TypeOK', NEW g \in Generations, Undone(g)
  PROVE  IInv'
<1> USE GenerationsAreNaturals
<1>1. Begun' /\ CommitStaysPossible' /\ SeatedIsDone'
  BY DEF IInv, Undone, Stopped, AftermathPc, Begun, CommitStaysPossible, SeatedIsDone
<1>2. HoldersFenced'
  BY DEF IInv, Undone, AftermathPc, HoldersFenced, ActHolds, DeactHolds, HoldsFence
<1>3. HoldersDiffer'
  BY DEF IInv, Undone, AftermathPc, HoldersDiffer, ActHolds, DeactHolds
<1>4. AuthorityHasHolder'
  BY DEF IInv, Undone, RestRevoked, AuthorityHasHolder, IsSeated
<1>5. LeaseGoesFirst'
  BY DEF IInv, Undone, RestRevoked, AftermathPc, LeaseGoesFirst, Revoking
<1>6. AdoptingHasAuthority' /\ SeatedHasAuthority'
  BY DEF IInv, Undone, RestRevoked, AftermathPc, AdoptingHasAuthority, SeatedIsDone,
         SeatedHasAuthority, ActiveSeat, Revoking
<1> QED BY <1>1, <1>2, <1>3, <1>4, <1>5, <1>6 DEF IInv

LEMMA ReapedPreserves ==
  ASSUME IInv, TypeOK', NEW g \in Generations, Reaped(g)
  PROVE  IInv'
<1> USE GenerationsAreNaturals
<1>1. Begun' /\ CommitStaysPossible' /\ SeatedIsDone'
  BY DEF IInv, Reaped, Begun, CommitStaysPossible, SeatedIsDone
<1>2. HoldersFenced'
  BY DEF IInv, Reaped, HoldersFenced, ActHolds, DeactHolds, HoldsFence
<1>3. HoldersDiffer'
  BY DEF IInv, Reaped, HoldersDiffer, ActHolds, DeactHolds
<1>4. AuthorityHasHolder'
  BY DEF IInv, Reaped, AuthorityHasHolder, IsSeated
<1>5. LeaseGoesFirst'
  BY DEF IInv, Reaped, LeaseGoesFirst, Revoking
<1>6. AdoptingHasAuthority' /\ SeatedHasAuthority'
  BY DEF IInv, Reaped, AdoptingHasAuthority, SeatedHasAuthority, ActiveSeat, Revoking
<1> QED BY <1>1, <1>2, <1>3, <1>4, <1>5, <1>6 DEF IInv

LEMMA DeactivatePreserves ==
  ASSUME IInv, TypeOK', NEW d \in Deactivations, Deactivate(d)
  PROVE  IInv'
<1> USE GenerationsAreNaturals
<1>1. /\ ActiveSeat \in Generations /\ act[ActiveSeat].pc = "done"
      /\ fence[ActiveSeat].state = "open"
      /\ fence'[ActiveSeat].state = "draining"
  BY TypeOKInParts, SessionIsGenerationOrNone
     DEF IInv, SeatedIsDone, Deactivate, FenceAdmits, ActiveSeat, SupRec
<1>2. Begun' /\ CommitStaysPossible' /\ SeatedIsDone'
  BY <1>1 DEF IInv, Deactivate, Begun, CommitStaysPossible, SeatedIsDone
<1>3. HoldersFenced'
  BY <1>1 DEF IInv, Deactivate, Quiet, HoldersFenced, ActHolds, DeactHolds, HoldsFence
<1>4. HoldersDiffer'
  BY <1>1
     DEF IInv, Deactivate, HoldersDiffer, OpenFence, Quiet, HoldersFenced, ActHolds,
         DeactHolds, HoldsFence
<1>5. AuthorityHasHolder'
  BY <1>1 DEF IInv, Deactivate, AuthorityHasHolder, IsSeated
<1>6. LeaseGoesFirst'
  BY <1>1 DEF IInv, Deactivate, LeaseGoesFirst, Revoking
<1>7. AdoptingHasAuthority' /\ SeatedHasAuthority'
  BY <1>1
     DEF IInv, Deactivate, ActiveSeat, AdoptingHasAuthority, SeatedHasAuthority, Revoking
<1> QED BY <1>2, <1>3, <1>4, <1>5, <1>6, <1>7 DEF IInv

LEMMA DeactivationDrainFailsPreserves ==
  ASSUME IInv, TypeOK', NEW d \in Deactivations, DeactivationDrainFails(d)
  PROVE  IInv'
<1> USE GenerationsAreNaturals
<1>1. /\ deact[d].pc = "draining" /\ deact[d].old \in Generations /\ deact'[d].pc = "done"
      /\ \A x \in Generations \ {deact[d].old} : fence'[x] = fence[x]
      /\ \A x \in Deactivations \ {d} : deact'[x] = deact[x]
  BY TypeOKInParts DEF IInv, HoldersFenced, HoldsFence, DeactHolds, DeactivationDrainFails
<1>2. Begun' /\ CommitStaysPossible' /\ SeatedIsDone'
  BY <1>1 DEF IInv, DeactivationDrainFails, Begun, CommitStaysPossible, SeatedIsDone
<1>3. HoldersFenced'
  BY <1>1
     DEF IInv, DeactivationDrainFails, HoldersDiffer, HoldersFenced, ActHolds, DeactHolds,
         HoldsFence
<1>4. HoldersDiffer'
  BY <1>1 DEF IInv, DeactivationDrainFails, HoldersDiffer, ActHolds, DeactHolds
<1>5. AuthorityHasHolder'
  BY <1>1 DEF IInv, DeactivationDrainFails, AuthorityHasHolder, IsSeated
<1>6. LeaseGoesFirst'
  BY <1>1 DEF IInv, DeactivationDrainFails, LeaseGoesFirst, Revoking
<1>7. AdoptingHasAuthority' /\ SeatedHasAuthority'
  BY <1>1
     DEF IInv, DeactivationDrainFails, AdoptingHasAuthority, SeatedHasAuthority,
         ActiveSeat, Revoking
<1> QED BY <1>2, <1>3, <1>4, <1>5, <1>6, <1>7 DEF IInv

LEMMA DeactivationNotPreparedPreserves ==
  ASSUME IInv, TypeOK', NEW d \in Deactivations, DeactivationNotPrepared(d)
  PROVE  IInv'
<1> USE GenerationsAreNaturals
<1>1. Begun' /\ CommitStaysPossible' /\ SeatedIsDone'
  BY DEF IInv, DeactivationNotPrepared, Begun, CommitStaysPossible, SeatedIsDone
<1>2. HoldersFenced'
  BY DEF IInv, DeactivationNotPrepared, TypeOK, HoldersDiffer, HoldersFenced, ActHolds,
         DeactHolds, HoldsFence
<1>3. HoldersDiffer'
  BY DEF IInv, DeactivationNotPrepared, HoldersDiffer, ActHolds, DeactHolds
<1>4. AuthorityHasHolder'
  BY DEF IInv, DeactivationNotPrepared, AuthorityHasHolder, IsSeated
<1>5. LeaseGoesFirst'
  BY DEF IInv, DeactivationNotPrepared, LeaseGoesFirst, Revoking
<1>6. AdoptingHasAuthority' /\ SeatedHasAuthority'
  BY DEF IInv, DeactivationNotPrepared, AdoptingHasAuthority, SeatedHasAuthority,
         ActiveSeat, Revoking
<1> QED BY <1>1, <1>2, <1>3, <1>4, <1>5, <1>6 DEF IInv

LEMMA DeactivationRevokesPreserves ==
  ASSUME IInv, TypeOK', NEW d \in Deactivations, DeactivationRevokes(d)
  PROVE  IInv'
<1> USE GenerationsAreNaturals
<1>1. fence'[deact[d].old] = Quiet
  <2>1. deact[d].old \in Generations /\ fence[deact[d].old] \in FenceRec /\ Drained(fence[deact[d].old])
    BY TypeOKInParts DEF IInv, HoldersFenced, HoldsFence, DeactHolds, DeactivationRevokes
  <2>2. fence'[deact[d].old] = [fence[deact[d].old] EXCEPT !.state = "drained"]
    BY <2>1, TypeOKInParts DEF IInv, DeactivationRevokes
  <2> QED BY <2>1, <2>2, DrainedIsQuiet
<1>2. Begun' /\ CommitStaysPossible' /\ SeatedIsDone'
  BY <1>1 DEF IInv, DeactivationRevokes, Begun, CommitStaysPossible, SeatedIsDone
<1>3. HoldersFenced'
  BY <1>1
     DEF IInv, DeactivationRevokes, Drained, ClientIsAuthoritative, RouteRevoked, Key,
         NoProject, TypeOK, FenceState, HoldersDiffer, SeatedIsDone, Quiet, OpenFence,
         HoldersFenced, ActHolds, DeactHolds, HoldsFence
<1>4. HoldersDiffer'
  BY <1>1 DEF IInv, DeactivationRevokes, HoldersDiffer, ActHolds, DeactHolds
<1>5. AuthorityHasHolder'
  BY <1>1 DEF IInv, DeactivationRevokes, RouteRevoked, AuthorityHasHolder, IsSeated
<1>6. LeaseGoesFirst'
  BY <1>1 DEF IInv, DeactivationRevokes, RouteRevoked, LeaseGoesFirst, Revoking
<1>7. AdoptingHasAuthority' /\ SeatedHasAuthority'
  BY <1>1
     DEF IInv, DeactivationRevokes, Drained, ClientIsAuthoritative, TypeOK,
         AdoptingHasAuthority, SeatedHasAuthority, ActiveSeat, Revoking, HoldersFenced,
         DeactHolds, HoldsFence
<1> QED BY <1>2, <1>3, <1>4, <1>5, <1>6, <1>7 DEF IInv

LEMMA DeactivationClearsPreserves ==
  ASSUME IInv, TypeOK', NEW d \in Deactivations, DeactivationClears(d)
  PROVE  IInv'
<1> USE GenerationsAreNaturals
<1> DEFINE o == deact[d].old
<1>1. /\ deact[d].pc = "revoking" /\ o \in Generations /\ act[o].pc = "done"
      /\ auth.lease # o /\ seat \in [Generations -> Seat]
  BY TypeOKInParts
     DEF IInv, DeactivationClears, HoldersFenced, HoldsFence, DeactHolds, LeaseGoesFirst,
         Revoking
<1>2. /\ DeactivationTakes(d) /\ UNCHANGED <<act, fence>>
      /\ seat' = [seat EXCEPT ![o] = "none"]
  BY ClearsEffect DEF IInv, DeactivationClears
<1>3. /\ deact'[d].pc = "done"
      /\ \A x \in Deactivations \ {d} : deact'[x] = deact[x]
  BY TypeOKInParts DEF IInv, DeactivationClears, DeactRec
<1> HIDE DEF o
<1>4. Begun' /\ CommitStaysPossible' /\ SeatedIsDone'
  BY <1>1, <1>2, <1>3
     DEF IInv, DeactivationTakes, Begun, CommitStaysPossible, SeatedIsDone
<1>5. HoldersFenced'
  BY <1>1, <1>2, <1>3 DEF IInv, HoldersFenced, ActHolds, DeactHolds, HoldsFence
<1>6. HoldersDiffer'
  BY <1>1, <1>2, <1>3 DEF IInv, HoldersDiffer, ActHolds, DeactHolds
<1>7. AuthorityHasHolder'
  BY <1>1, <1>2, <1>3 DEF IInv, DeactivationTakes, o, AuthorityHasHolder, IsSeated
<1>8. LeaseGoesFirst'
  BY <1>1, <1>2, <1>3 DEF IInv, DeactivationTakes, LeaseGoesFirst, Revoking
<1>9. AdoptingHasAuthority' /\ SeatedHasAuthority'
  BY <1>1, <1>2, <1>3
     DEF IInv, DeactivationTakes, AdoptingHasAuthority, SeatedHasAuthority, ActiveSeat
<1> QED BY <1>4, <1>5, <1>6, <1>7, <1>8, <1>9 DEF IInv

LEMMA SubmitPreserves ==
  ASSUME IInv, TypeOK', NEW g \in Generations, Submit(g)
  PROVE  IInv'
<1> USE GenerationsAreNaturals
<1>1. Begun' /\ CommitStaysPossible' /\ SeatedIsDone'
  BY DEF IInv, Submit, Begun, CommitStaysPossible, SeatedIsDone
<1>2. HoldersFenced'
  BY DEF IInv, Submit, Quiet, OpenFence, HoldersFenced, ActHolds, DeactHolds, HoldsFence
<1>3. HoldersDiffer'
  BY DEF IInv, Submit, HoldersDiffer, ActHolds, DeactHolds
<1>4. AuthorityHasHolder'
  BY DEF IInv, Submit, AuthorityHasHolder, IsSeated
<1>5. LeaseGoesFirst'
  BY DEF IInv, Submit, LeaseGoesFirst, Revoking
<1>6. AdoptingHasAuthority' /\ SeatedHasAuthority'
  BY DEF IInv, Submit, ActiveSeat, AdoptingHasAuthority, SeatedHasAuthority, Revoking
<1> QED BY <1>1, <1>2, <1>3, <1>4, <1>5, <1>6 DEF IInv

LEMMA SettlePreserves ==
  ASSUME IInv, TypeOK', NEW g \in Generations, NEW conflict \in BOOLEAN, Settle(g, conflict)
  PROVE  IInv'
<1> USE GenerationsAreNaturals
<1>1. /\ \A x \in Generations \ {g} : fence'[x] = fence[x]
      /\ fence[g] # Quiet /\ (fence[g].state = "draining" => fence'[g].state = "draining")
  BY TypeOKInParts DEF IInv, Settle, Quiet, OpenFence
<1>2. Begun' /\ CommitStaysPossible' /\ SeatedIsDone'
  BY <1>1 DEF IInv, Settle, Begun, CommitStaysPossible, SeatedIsDone
<1>3. HoldersFenced'
  BY <1>1 DEF IInv, Settle, HoldersFenced, ActHolds, DeactHolds, HoldsFence
<1>4. HoldersDiffer'
  BY <1>1 DEF IInv, Settle, HoldersDiffer, ActHolds, DeactHolds
<1>5. AuthorityHasHolder'
  BY <1>1 DEF IInv, Settle, AuthorityHasHolder, IsSeated
<1>6. LeaseGoesFirst'
  BY <1>1 DEF IInv, Settle, LeaseGoesFirst, Revoking
<1>7. AdoptingHasAuthority' /\ SeatedHasAuthority'
  BY <1>1 DEF IInv, Settle, AdoptingHasAuthority, SeatedHasAuthority, ActiveSeat, Revoking
<1> QED BY <1>2, <1>3, <1>4, <1>5, <1>6, <1>7 DEF IInv

LEMMA RunClosesPreserves ==
  ASSUME IInv, TypeOK', NEW g \in Generations, RunCloses(g)
  PROVE  IInv'
<1> USE GenerationsAreNaturals
<1>1. RunEnds(g) /\ UNCHANGED <<act, deact, seat, fence>>
  BY RunClosesEffect DEF IInv, RunCloses
<1>2. Begun' /\ CommitStaysPossible' /\ SeatedIsDone'
  BY <1>1 DEF IInv, RunEnds, Begun, CommitStaysPossible, SeatedIsDone
<1>3. HoldersFenced'
  BY <1>1 DEF IInv, HoldersFenced, ActHolds, DeactHolds, HoldsFence
<1>4. HoldersDiffer'
  BY <1>1 DEF IInv, HoldersDiffer, ActHolds, DeactHolds
<1>5. AuthorityHasHolder'
  BY <1>1 DEF IInv, RunEnds, AuthorityHasHolder, IsSeated
<1>6. LeaseGoesFirst'
  BY <1>1 DEF IInv, RunEnds, LeaseGoesFirst, Revoking
<1>7. AdoptingHasAuthority' /\ SeatedHasAuthority'
  BY <1>1
     DEF IInv, RunEnds, AdoptingHasAuthority, SeatedHasAuthority, ActiveSeat, Revoking
<1> QED BY <1>2, <1>3, <1>4, <1>5, <1>6, <1>7 DEF IInv

-----------------------------------------------------------------------------
(* The invariant.                                                          *)

LEMMA InitEstablishes == Init => IInv
<1> SUFFICES ASSUME Init PROVE IInv
  OBVIOUS
<1>1. TypeOK
  BY SwitchAssumption, SessionIsGenerationOrNone, OpenFenceTyped
     DEF Init, TypeOK, ActivationPc, DeactivationPc, Seat, FenceRec, NoProject
<1>2. /\ \A g \in Generations : act[g].pc = "unused" /\ seat[g] = "none"
      /\ \A d \in Deactivations : deact[d].pc = "unsent"
      /\ sup.active = 0 /\ auth.lease = 0 /\ auth.editor = 0 /\ auth.grants = {}
  BY DEF Init
<1>3. Begun /\ CommitStaysPossible /\ SeatedIsDone
  BY <1>2 DEF Begun, CommitStaysPossible, SeatedIsDone
<1>4. HoldersFenced /\ HoldersDiffer /\ LeaseGoesFirst
  BY <1>2, GenerationsAreNaturals
     DEF HoldersFenced, HoldersDiffer, ActHolds, DeactHolds, LeaseGoesFirst, Revoking
<1>5. AuthorityHasHolder /\ AdoptingHasAuthority /\ SeatedHasAuthority
  BY <1>2, GenerationsAreNaturals
     DEF AuthorityHasHolder, AdoptingHasAuthority, SeatedHasAuthority, ActiveSeat
<1> QED BY <1>1, <1>3, <1>4, <1>5 DEF IInv

LEMMA StepPreserves == IInv /\ [Next]_vars => IInv'
<1> SUFFICES ASSUME IInv, [Next]_vars PROVE IInv'
  OBVIOUS
<1>1. TypeOK'
  BY StepTyped DEF IInv
<1>2. ASSUME NEW p \in Projects, Activate(p) PROVE IInv'
  BY <1>1, <1>2, ActivatePreserves
<1>3. ASSUME NEW g \in Generations, ActivationStep(g) PROVE IInv'
  BY <1>1, <1>3, ReadinessFailsPreserves, FirstCommitPreserves, StartSwitchPreserves,
     SwitchRefusedPreserves, SwitchDrainFailsPreserves, SwitchRevokesPreserves,
     SwitchNotPreparedPreserves, SwitchResumesPreserves, SwitchCommitsPreserves,
     AdoptedPreserves, AdoptionFailsPreserves, UndonePreserves, ReapedPreserves
     DEF ActivationStep
<1>4. ASSUME NEW d \in Deactivations, Deactivate(d) \/ DeactivationStep(d) PROVE IInv'
  BY <1>1, <1>4, DeactivatePreserves, DeactivationDrainFailsPreserves,
     DeactivationNotPreparedPreserves, DeactivationRevokesPreserves, DeactivationClearsPreserves
     DEF DeactivationStep
<1>5. ASSUME NEW g \in Generations, Submit(g) \/ RunCloses(g) PROVE IInv'
  BY <1>1, <1>5, SubmitPreserves, RunClosesPreserves
<1>6. ASSUME NEW g \in Generations, NEW conflict \in BOOLEAN, Settle(g, conflict) PROVE IInv'
  BY <1>1, <1>6, SettlePreserves
<1>7. CASE UNCHANGED vars
  BY <1>1, <1>7
     DEF vars, IInv, Begun, CommitStaysPossible, HoldersFenced, HoldersDiffer, ActHolds,
         DeactHolds,
         HoldsFence, SeatedIsDone, AuthorityHasHolder, IsSeated, LeaseGoesFirst, Revoking,
         AdoptingHasAuthority, SeatedHasAuthority, ActiveSeat
<1> QED BY <1>2, <1>3, <1>4, <1>5, <1>6, <1>7 DEF Next

\* The invariant of the composition.
THEOREM SwitchInvariant == Spec => []IInv
<1> QED BY InitEstablishes, StepPreserves, PTL DEF Spec

-----------------------------------------------------------------------------
(* What it says.                                                           *)

\* Holders that differ pairwise are at most one.
LEMMA OneHolder == IInv => OneTransitionPerSeat
<1> SUFFICES ASSUME IInv, NEW o \in Generations PROVE Cardinality(Transitions(o)) <= 1
  BY DEF OneTransitionPerSeat
<1>1. \A s, t \in Transitions(o) : s = t
  BY DEF IInv, HoldersDiffer, ActHolds, DeactHolds, Transitions
<1>2. CASE Transitions(o) = {}
  BY <1>2, FS_EmptySet
<1>3. CASE Transitions(o) # {}
  <2>1. PICK t : t \in Transitions(o)
    BY <1>3
  <2>2. Transitions(o) = {t}
    BY <1>1, <2>1
  <2> QED BY <2>2, FS_Singleton
<1> QED BY <1>2, <1>3

\* Variables are of their types.
THEOREM SwitchTypeOK == Spec => []TypeOK
<1>1. IInv => TypeOK
  BY DEF IInv
<1> QED BY <1>1, SwitchInvariant, PTL

\* One transition at a time takes a session's authority, over a fence that has
\* drained and admits nothing: commitSwitch and deactivate.
THEOREM SwitchRevokesQuietly == Spec => []RevokedOnlyWhenQuiet
<1>1. IInv => RevokedOnlyWhenQuiet
  BY OneHolder
     DEF IInv, RevokedOnlyWhenQuiet, HoldersFenced, HoldsFence, ActHolds, DeactHolds,
                   Revoking, Quiet
<1> QED BY <1>1, SwitchInvariant, PTL

\* The request that has begun to revoke an old session holds the slot that its
\* commit needs.
THEOREM SwitchCommitPossible == Spec => []CommitStaysPossible
<1>1. IInv => CommitStaysPossible
  BY DEF IInv
<1> QED BY <1>1, SwitchInvariant, PTL

\* The active seat has all of its authority, and a session that was replaced or
\* deactivated none.
THEOREM SwitchAuthority == Spec => []AuthorityOfSeat
<1>1. IInv => ReplacedHoldsNothing
  BY GenerationsAreNaturals DEF IInv, ReplacedHoldsNothing, AuthorityHasHolder, IsSeated
<1>2. IInv => AuthorityOfSeat
  BY <1>1 DEF IInv, AuthorityOfSeat
<1> QED BY <1>2, SwitchInvariant, PTL

=============================================================================
