------------------------ MODULE EntryAndViewsProofs ------------------------
(***************************************************************************)
(* Proofs about the content form and its write loop (EntryWrite) and about *)
(* the views it and the styles sidebar are shown (InspectionViews).  The   *)
(* two specifications are independent; the first half of the module is     *)
(* about the one, the second about the other.                              *)
(***************************************************************************)
EXTENDS EntryWrite, InspectionViews, SequenceTheorems, FiniteSetTheorems,
        WellFoundedInduction, TLAPS

\* A machine that is not idle works on an attempt the form has minted.
AttemptNamed == write.phase # "idle" => write.seq \in Seqs

PhaseInv == TypeOK /\ AttemptNamed /\ PhaseFitsEdit

\* An attempt is recorded from the moment it is minted, never earlier.
EditsMinted == \A s \in Seqs : edits[s].server # "unused" => s <= seqMint

\* Nobody else wrote and at most the newest attempt was ever sent.
Undisturbed == foreign = 0 /\ \A s \in Seqs : edits[s].server # "unused" => s = seqMint

\* What the file can then have held so far.
Written == {Start} \cup {edits[s].text : s \in {t \in Seqs : edits[t].server # "unused"}}

WrittenTruth == [rev : Written, vals : Written]

\* Until somebody else writes, every copy of the file, wherever it is on its
\* way, is the first text or the sent one, and a landing is awaited off the first.
OneWriter ==
    Undisturbed =>
        /\ {disk, projection} \subseteq Written
        /\ {payload, fetch.truth, draft.base} \subseteq WrittenTruth
        /\ awaited.set => /\ awaited.truth = NoTruth
                          /\ seqMint \in Seqs /\ edits[seqMint].server # "unused"

EntryInv == PhaseInv /\ foreign \in Nat /\ EditsMinted /\ OneWriter

-----------------------------------------------------------------------------
(* The write-loop machine.                                                 *)

LEMMA IdleIsTyped == IdleWrite \in WriteMachine
BY DEF IdleWrite, WriteMachine, Phases, Codes

LEMMA ResetIdles == \A w : reduceWrite(w, ResetEvent) = IdleWrite
BY DEF reduceWrite, ResetEvent, Event

LEMMA SubmissionMoves ==
  ASSUME NEW w \in WriteMachine, NEW s \in Nat
  PROVE  reduceWrite(w, Event("submitted", s)) =
           IF w.phase = "idle" /\ s > w.seq
           THEN [phase |-> "pending", seq |-> s, code |-> "none"] ELSE w
BY DEF reduceWrite, Event

LEMMA RefreshBegins ==
  ASSUME NEW w \in WriteMachine, NEW s \in Nat
  PROVE  reduceWrite(w, Event("refresh-begun", s)) =
           IF s = w.seq /\ w.phase \in {"committed", "irreversible-postcommit"}
           THEN [w EXCEPT !.phase = "refresh-required"] ELSE w
BY DEF reduceWrite, Event

LEMMA RefreshLands ==
  ASSUME NEW w \in WriteMachine, NEW s \in Nat
  PROVE  reduceWrite(w, Event("refresh-landed", s)) =
           IF s = w.seq /\ w.phase = "refresh-required" THEN IdleWrite ELSE w
BY DEF reduceWrite, Event

LEMMA RefusalMoves ==
  ASSUME NEW w \in WriteMachine, NEW s \in Nat, NEW code \in Codes
  PROVE  reduceWrite(w, Rejected(s, code)) =
           IF s = w.seq /\ w.phase = "pending"
           THEN [phase |-> "rejected", seq |-> s, code |-> code] ELSE w
BY DEF reduceWrite, Rejected, SettledPhase

\* The phase an answer leaves a machine in that waits for it.
AnsweredPhase(answer) ==
    CASE answer = "committed" -> "committed"
      [] answer \in {"conflict", "refused"} -> "rejected"
      [] OTHER -> "irreversible-postcommit"

LEMMA AnswerSettles ==
  ASSUME NEW w \in WriteMachine, NEW s \in Nat, NEW answer \in Answers
  PROVE  \E code \in Codes : reduceWrite(w, SettleEvent(s, answer)) =
           IF s = w.seq /\ w.phase = "pending"
           THEN [phase |-> AnsweredPhase(answer), seq |-> s, code |-> code] ELSE w
<1> DEFINE e == SettleEvent(s, answer)
           code == IF answer \in {"conflict", "refused"} THEN answer ELSE "none"
<1>1. code \in Codes
  BY DEF Codes
<1>2. /\ e.type = classifySettle(answer) /\ e.seq = s /\ e.code = code
      /\ e.type \in {"committed", "conflict", "rejected", "uncertain"}
  BY DEF SettleEvent, classifySettle
<1>3. reduceWrite(w, e) = IF s = w.seq /\ w.phase = "pending"
                          THEN [phase |-> SettledPhase[e.type], seq |-> s, code |-> code] ELSE w
  BY <1>2 DEF reduceWrite
<1>4. SettledPhase[e.type] = AnsweredPhase(answer)
  BY <1>2 DEF SettledPhase, classifySettle, AnsweredPhase, Answers
<1> QED BY <1>1, <1>3, <1>4

-----------------------------------------------------------------------------
(* The phase fits the edit it names.                                       *)

FetchRec == [at : {"none", "sent", "read"}, truth : Truth]
DraftRec == [open : BOOLEAN, base : Truth, now : Contents, bad : BOOLEAN]
AwaitedRec == [set : BOOLEAN, truth : Truth]
EditRec == [server : {"unused", "sent", "done"}, answer : Answers,
            client : {"unused", "waiting", "settled", "refetching", "done"},
            kind : {"committed", "uncertain"}, base : Contents, text : Contents]

LEMMA ConstantsTyped ==
    /\ Start \in Contents /\ MaxSeq \in Nat /\ MaxAttempts \in Nat /\ MaxOutside \in Nat
    /\ NoTruth \in Truth /\ NoAwaited \in AwaitedRec /\ Closed \in DraftRec
    /\ UnusedEdit \in EditRec /\ IdleWrite \in WriteMachine
    /\ Invalidated \in FetchRec /\ [at |-> "none", truth |-> NoTruth] \in FetchRec
<1>1. Start \in Contents /\ MaxSeq \in Nat /\ MaxAttempts \in Nat /\ MaxOutside \in Nat
  BY EntryAssumption
<1>2. NoTruth \in Truth
  BY <1>1 DEF NoTruth, Truth
<1>3. NoAwaited \in AwaitedRec /\ Closed \in DraftRec /\ UnusedEdit \in EditRec
  BY <1>1, <1>2 DEF NoAwaited, AwaitedRec, Closed, DraftRec, UnusedEdit, EditRec, Answers
<1>4. Invalidated \in FetchRec /\ [at |-> "none", truth |-> NoTruth] \in FetchRec
  BY <1>2 DEF Invalidated, FetchRec
<1> QED BY <1>1, <1>2, <1>3, <1>4, IdleIsTyped

LEMMA TypeOKInParts ==
  TypeOK <=> /\ disk \in Contents /\ projection \in Contents /\ payload \in Truth
             /\ errored \in BOOLEAN /\ fetch \in FetchRec /\ draft \in DraftRec
             /\ write \in WriteMachine /\ seqMint \in 0 .. MaxSeq
             /\ awaited \in AwaitedRec /\ attempts \in 0 .. MaxAttempts
             /\ edits \in [Seqs -> EditRec] /\ current \in BOOLEAN
BY DEF TypeOK, FetchRec, DraftRec, AwaitedRec, EditRec

\* The same of the next state.
LEMMA TypeOKInPartsNext ==
  TypeOK' <=> /\ disk' \in Contents /\ projection' \in Contents /\ payload' \in Truth
              /\ errored' \in BOOLEAN /\ fetch' \in FetchRec /\ draft' \in DraftRec
              /\ write' \in WriteMachine /\ seqMint' \in 0 .. MaxSeq
              /\ awaited' \in AwaitedRec /\ attempts' \in 0 .. MaxAttempts
              /\ edits' \in [Seqs -> EditRec] /\ current' \in BOOLEAN
BY DEF TypeOK, FetchRec, DraftRec, AwaitedRec, EditRec

\* A step that leaves the attempts alone, and the machine too or idle.
LEMMA MachineRests ==
  ASSUME PhaseInv, UNCHANGED edits, write' \in {write, IdleWrite}
  PROVE  AttemptNamed' /\ PhaseFitsEdit'
BY DEF PhaseInv, AttemptNamed, PhaseFitsEdit, IdleWrite

LEMMA RearmedRests ==
  ASSUME NEW w, NEW changed
  PROVE  Rearmed(w, changed) \in {w, IdleWrite}
BY DEF Rearmed

\* What a dispatch leaves of a typed machine.
LEMMA DispatchTyped ==
  ASSUME TypeOK, NEW event, Dispatch(event), reduceWrite(write, event) \in WriteMachine
  PROVE  write' \in WriteMachine /\ attempts' \in 0 .. MaxAttempts
         /\ write' = reduceWrite(write, event)
BY ConstantsTyped, TypeOKInParts DEF Dispatch

LEMMA ResetRests ==
  ASSUME TypeOK, Dispatch(ResetEvent)
  PROVE  write' = IdleWrite /\ attempts' \in 0 .. MaxAttempts
BY ResetIdles, IdleIsTyped, DispatchTyped

LEMMA LandingRests ==
  ASSUME TypeOK, NEW s \in Nat
  PROVE  reduceWrite(write, Event("refresh-landed", s)) \in {write, IdleWrite} \cap WriteMachine
BY IdleIsTyped, RefreshLands, TypeOKInParts

LEMMA InvalidationsPreservePhase ==
  ASSUME PhaseInv, \/ \E c \in Contents : ForeignWrite(c)
                   \/ Converge \/ Invalidate \/ FetchRead \/ FetchLand \/ Tick
  PROVE  PhaseInv'
<1> USE TypeOKInParts, TypeOKInPartsNext, ConstantsTyped DEF PhaseInv
<1>1. UNCHANGED edits /\ write' \in {write, IdleWrite}
  BY RearmedRests DEF ForeignWrite, Converge, Invalidate, FetchRead, FetchLand, Tick, client
<1>2. AttemptNamed' /\ PhaseFitsEdit'
  BY <1>1, MachineRests
<1>3. ASSUME NEW c \in Contents, ForeignWrite(c) PROVE TypeOK'
  BY <1>3 DEF ForeignWrite, client
<1>4. CASE Converge
  BY <1>2, <1>4 DEF Converge, client
<1>5. CASE Invalidate
  BY <1>2, <1>5 DEF Invalidate, client, server
<1>6. CASE FetchRead
  <2>1. [at |-> "read", truth |-> [rev |-> disk, vals |-> projection]] \in FetchRec
    BY DEF FetchRec, Truth
  <2> QED BY <1>2, <1>6, <2>1 DEF FetchRead, client, server
<1>7. CASE FetchLand
  <2>1. fetch.truth \in Truth /\ [fetch EXCEPT !.at = "none"] \in FetchRec
    BY DEF FetchRec
  <2> QED BY <1>1, <1>2, <1>7, <2>1 DEF FetchLand, server
<1>8. CASE Tick
  <2>1. attempts + 1 \in 0 .. MaxAttempts
    BY <1>8 DEF Tick
  <2> QED BY <1>2, <1>8, <2>1 DEF Tick, client, server
<1> QED BY <1>2, <1>3, <1>4, <1>5, <1>6, <1>7, <1>8

LEMMA DraftingPreservesPhase ==
  ASSUME PhaseInv, \/ \E c \in Contents : Type(c)
                   \/ Open \/ TypeBad \/ SetMode \/ Rebind \/ ShellReset \/ Land \/ GiveUp
  PROVE  PhaseInv'
<1> USE TypeOKInParts, TypeOKInPartsNext, ConstantsTyped DEF PhaseInv
<1>1. ASSUME NEW c \in Contents, Type(c) PROVE PhaseInv'
  <2>1. write' \in {write, IdleWrite}
    BY <1>1, RearmedRests DEF Type
  <2>2. [draft EXCEPT !.now = c, !.bad = FALSE] \in DraftRec
    BY DEF DraftRec
  <2>3. TypeOK'
    BY <1>1, <2>1, <2>2 DEF Type, server
  <2> QED BY <1>1, <2>1, <2>3, MachineRests DEF Type
<1>2. CASE Open
  <2>1. write' \in {write, IdleWrite}
    BY <1>2, RearmedRests DEF Open
  <2>2. Opened(payload) \in DraftRec
    BY DEF Opened, DraftRec, Truth
  <2>3. TypeOK'
    BY <1>2, <2>1, <2>2 DEF Open, server
  <2> QED BY <1>2, <2>1, <2>3, MachineRests DEF Open
<1>3. CASE TypeBad \/ SetMode
  <2>1. [draft EXCEPT !.bad = TRUE] \in DraftRec /\ [draft EXCEPT !.bad = FALSE] \in DraftRec
    BY DEF DraftRec
  <2>2. TypeOK'
    BY <1>3, <2>1 DEF TypeBad, SetMode, server
  <2> QED BY <1>3, <2>2, MachineRests DEF TypeBad, SetMode
<1>4. CASE Rebind
  <2>1. TypeOK' /\ write' = IdleWrite
    BY <1>4, ResetRests DEF Rebind, server
  <2> QED BY <1>4, <2>1, MachineRests DEF Rebind
<1>5. CASE ShellReset
  <2>1. TypeOK' /\ write' = IdleWrite
    BY <1>5, ResetRests DEF ShellReset, server
  <2> QED BY <1>5, <2>1, MachineRests DEF ShellReset
<1>6. CASE Land
  <2>1. write' \in {write, IdleWrite}
    BY <1>6, LandingRests, RearmedRests DEF Land, WriteMachine
  <2>2. TypeOK'
    BY <1>6, <2>1 DEF Land, server
  <2> QED BY <1>6, <2>1, <2>2, MachineRests DEF Land
<1>7. CASE GiveUp
  <2>1. write.seq \in Nat
    BY DEF WriteMachine
  <2>2. write' \in {write, IdleWrite} /\ attempts' \in 0 .. MaxAttempts
    BY <1>7, <2>1, LandingRests, DispatchTyped DEF GiveUp
  <2>3. TypeOK'
    BY <1>7, <2>2 DEF GiveUp, server
  <2> QED BY <1>7, <2>2, <2>3, MachineRests DEF GiveUp
<1> QED BY <1>1, <1>2, <1>3, <1>4, <1>5, <1>6, <1>7

LEMMA SubmitRefusedPreservesPhase ==
  ASSUME PhaseInv, SubmitRefused
  PROVE  PhaseInv'
<1> USE TypeOKInParts, TypeOKInPartsNext, ConstantsTyped DEF PhaseInv
<1> DEFINE sent == reduceWrite(write, Event("submitted", seqMint + 1))
<1>1. seqMint + 1 \in Seqs /\ seqMint + 1 \in Nat /\ seqMint' \in 0 .. MaxSeq
  BY DEF SubmitRefused, Seqs
<1>2. write.phase = "idle" /\ write \in WriteMachine
  BY DEF SubmitRefused
<1>3. sent \in {write, [phase |-> "pending", seq |-> seqMint + 1, code |-> "none"]}
  BY <1>1, <1>2, SubmissionMoves
<1>4. sent \in WriteMachine
  BY <1>1, <1>2, <1>3 DEF WriteMachine, Phases, Codes
<1>5. "refused" \in Codes
  BY DEF Codes
<1>6. write' \in {sent, [phase |-> "rejected", seq |-> seqMint + 1, code |-> "refused"]}
  <2>1. write' = reduceWrite(sent, Rejected(seqMint + 1, "refused"))
    BY DEF SubmitRefused, reduceBoth
  <2> HIDE DEF sent
  <2> QED BY <1>1, <1>4, <1>5, <2>1, RefusalMoves
<1>7. write' \in {write, [phase |-> "rejected", seq |-> seqMint + 1, code |-> "refused"]}
  <2>1. CASE sent = write
    BY <1>6, <2>1
  <2>2. CASE sent = [phase |-> "pending", seq |-> seqMint + 1, code |-> "none"]
    <3>1. write' = reduceWrite(sent, Rejected(seqMint + 1, "refused"))
      BY DEF SubmitRefused, reduceBoth
    <3>2. sent.seq = seqMint + 1 /\ sent.phase = "pending"
      BY <2>2
    <3> HIDE DEF sent
    <3> QED BY <1>1, <1>4, <1>5, <3>1, <3>2, RefusalMoves
  <2> QED BY <1>3, <2>1, <2>2
<1>8. write' \in WriteMachine
  BY <1>1, <1>2, <1>7 DEF WriteMachine, Phases, Codes
<1>9. TypeOK'
  BY <1>1, <1>8 DEF SubmitRefused, server
<1>10. AttemptNamed' /\ PhaseFitsEdit'
  BY <1>1, <1>2, <1>7 DEF SubmitRefused, AttemptNamed, PhaseFitsEdit
<1> QED BY <1>9, <1>10

LEMMA SubmitPreservesPhase ==
  ASSUME PhaseInv, Submit
  PROVE  PhaseInv'
<1> USE TypeOKInParts, TypeOKInPartsNext, ConstantsTyped DEF PhaseInv
<1> DEFINE s == seqMint + 1
           sent == [server |-> "sent", answer |-> "lost", client |-> "waiting",
                    kind |-> "uncertain", base |-> draft.base.rev, text |-> draft.now]
<1>1. s \in Seqs /\ s \in Nat /\ seqMint' \in 0 .. MaxSeq
  BY DEF Submit, Seqs
<1>2. write.phase = "idle" /\ write \in WriteMachine
  BY DEF Submit
<1>3. reduceWrite(write, Event("submitted", s))
         \in {write, [phase |-> "pending", seq |-> s, code |-> "none"]} \cap WriteMachine
  <2>1. [phase |-> "pending", seq |-> s, code |-> "none"] \in WriteMachine
    BY <1>1 DEF WriteMachine, Phases, Codes
  <2> QED BY <1>1, <1>2, <2>1, SubmissionMoves
<1>4. /\ write' \in {write, [phase |-> "pending", seq |-> s, code |-> "none"]}
      /\ write' \in WriteMachine /\ attempts' \in 0 .. MaxAttempts
  BY <1>3, DispatchTyped DEF Submit
<1>5. sent \in EditRec
  BY DEF EditRec, DraftRec, Truth, Answers
<1>6. edits' = [edits EXCEPT ![s] = sent]
  BY DEF Submit
<1>7. awaited' \in AwaitedRec
  BY DEF Submit, AwaitedRec, DraftRec
<1>8. TypeOK'
  BY <1>1, <1>4, <1>5, <1>6, <1>7 DEF Submit, server
<1>9. AttemptNamed' /\ PhaseFitsEdit'
  BY <1>1, <1>2, <1>4, <1>6 DEF AttemptNamed, PhaseFitsEdit
<1> QED BY <1>8, <1>9

LEMMA ExecutePreservesPhase ==
  ASSUME PhaseInv, NEW s \in Seqs, Execute(s)
  PROVE  PhaseInv'
<1> USE TypeOKInParts, TypeOKInPartsNext, ConstantsTyped DEF PhaseInv
<1>1. PICK answer \in {"committed", "conflict", "refused", "failed"} :
        /\ edits' = [edits EXCEPT ![s].server = "done", ![s].base = Start,
                       ![s].answer = IF edits[s].client = "waiting" THEN answer ELSE "lost"]
        /\ disk' \in CASE answer = "committed" -> {edits[s].text}
                       [] answer = "failed" /\ disk = edits[s].base -> {disk, edits[s].text}
                       [] OTHER -> {disk}
  BY DEF Execute
<1>2. disk' \in {disk, edits[s].text}
  BY <1>1
<1>3. disk' \in Contents
  BY <1>2 DEF EditRec
<1>4. edits' \in [Seqs -> EditRec]
  <2> DEFINE heard == IF edits[s].client = "waiting" THEN answer ELSE "lost"
  <2>1. heard \in Answers
    BY DEF Answers
  <2>2. edits' = [edits EXCEPT ![s].server = "done", ![s].base = Start, ![s].answer = heard]
    BY <1>1
  <2>3. [edits[s] EXCEPT !.server = "done", !.base = Start, !.answer = heard] \in EditRec
    <3> HIDE DEF heard
    <3> QED BY <2>1 DEF EditRec
  <2>4. edits' = [edits EXCEPT ![s] = [edits[s] EXCEPT !.server = "done", !.base = Start,
                                                       !.answer = heard]]
    BY <2>2
  <2> QED BY <2>3, <2>4
<1>5. \A x \in Seqs : edits'[x].client = edits[x].client /\ edits'[x].kind = edits[x].kind
  BY <1>1 DEF EditRec
<1>6. TypeOK'
  BY <1>3, <1>4 DEF Execute, client
<1>7. AttemptNamed' /\ PhaseFitsEdit'
  BY <1>5 DEF Execute, client, AttemptNamed, PhaseFitsEdit
<1> QED BY <1>6, <1>7

LEMMA SettlePreservesPhase ==
  ASSUME PhaseInv, NEW s \in Seqs, Settle(s)
  PROVE  PhaseInv'
<1> USE TypeOKInParts, TypeOKInPartsNext, ConstantsTyped DEF PhaseInv
<1>1. PICK answer \in Answers :
        /\ Dispatch(SettleEvent(s, answer))
        /\ edits' = [edits EXCEPT ![s].client = "settled", ![s].answer = "lost",
                       ![s].kind = IF answer = "committed" THEN "committed" ELSE "uncertain"]
  BY DEF Settle, EditRec, Answers
<1>2. s \in Nat /\ edits[s].client = "waiting"
  BY DEF Settle, Seqs
<1>3. PICK code \in Codes : reduceWrite(write, SettleEvent(s, answer)) =
                              IF s = write.seq /\ write.phase = "pending"
                              THEN [phase |-> AnsweredPhase(answer), seq |-> s, code |-> code]
                              ELSE write
  BY <1>2, AnswerSettles
<1>4. AnsweredPhase(answer) \in {"committed", "rejected", "irreversible-postcommit"}
  BY DEF AnsweredPhase
<1>5. reduceWrite(write, SettleEvent(s, answer)) \in WriteMachine
  BY <1>2, <1>3, <1>4 DEF WriteMachine, Phases
<1>6. /\ write' = reduceWrite(write, SettleEvent(s, answer))
      /\ write' \in WriteMachine /\ attempts' \in 0 .. MaxAttempts
  BY <1>1, <1>5, DispatchTyped
<1>7. edits' \in [Seqs -> EditRec]
  <2> DEFINE kind == IF answer = "committed" THEN "committed" ELSE "uncertain"
  <2>1. kind \in {"committed", "uncertain"} /\ "lost" \in Answers
    BY DEF Answers
  <2>2. edits' = [edits EXCEPT ![s].client = "settled", ![s].answer = "lost", ![s].kind = kind]
    BY <1>1
  <2>3. [edits[s] EXCEPT !.client = "settled", !.answer = "lost", !.kind = kind] \in EditRec
    <3> HIDE DEF kind
    <3> QED BY <2>1 DEF EditRec
  <2>4. edits' = [edits EXCEPT ![s] = [edits[s] EXCEPT !.client = "settled", !.answer = "lost",
                                                       !.kind = kind]]
    BY <2>2
  <2> QED BY <2>3, <2>4
<1>8. TypeOK'
  BY <1>6, <1>7 DEF Settle, server
<1>9. /\ edits'[s].client = "settled"
      /\ edits'[s].kind = IF answer = "committed" THEN "committed" ELSE "uncertain"
      /\ \A x \in Seqs \ {s} : edits'[x] = edits[x]
  BY <1>1 DEF EditRec
<1>10. CASE s = write.seq /\ write.phase = "pending"
  <2>1. write'.phase = AnsweredPhase(answer) /\ write'.seq = s
    BY <1>3, <1>6, <1>10
  <2>2. /\ write'.phase = "committed" => answer = "committed"
        /\ write'.phase = "irreversible-postcommit" => answer # "committed"
    BY <2>1 DEF AnsweredPhase
  <2>3. AttemptNamed' /\ PhaseFitsEdit'
    BY <1>4, <1>9, <2>1, <2>2 DEF AttemptNamed, PhaseFitsEdit
  <2> QED BY <1>8, <2>3
<1>11. CASE ~(s = write.seq /\ write.phase = "pending")
  <2>1. write' = write
    BY <1>3, <1>6, <1>11
  <2>2. AttemptNamed' /\ PhaseFitsEdit'
    BY <1>2, <1>9, <1>11, <2>1 DEF AttemptNamed, PhaseFitsEdit, WriteMachine, Phases
  <2> QED BY <1>8, <2>2
<1> QED BY <1>10, <1>11

LEMMA RefreshBegunPreservesPhase ==
  ASSUME PhaseInv, NEW s \in Seqs, RefreshBegun(s)
  PROVE  PhaseInv'
<1> USE TypeOKInParts, TypeOKInPartsNext, ConstantsTyped DEF PhaseInv
<1>1. s \in Nat /\ edits[s].client = "settled"
  BY DEF RefreshBegun, Seqs
<1>2. reduceWrite(write, Event("refresh-begun", s)) =
        IF s = write.seq /\ write.phase \in {"committed", "irreversible-postcommit"}
        THEN [write EXCEPT !.phase = "refresh-required"] ELSE write
  BY <1>1, RefreshBegins
<1>3. reduceWrite(write, Event("refresh-begun", s)) \in WriteMachine
  BY <1>2 DEF WriteMachine, Phases
<1>4. /\ write' = reduceWrite(write, Event("refresh-begun", s))
      /\ write' \in WriteMachine /\ attempts' \in 0 .. MaxAttempts
  BY <1>3, DispatchTyped DEF RefreshBegun
<1>5. edits' = [edits EXCEPT ![s].client = "refetching"]
  BY DEF RefreshBegun
<1>6. edits' \in [Seqs -> EditRec]
  BY <1>5 DEF EditRec
<1>7. TypeOK'
  BY <1>4, <1>6 DEF RefreshBegun, server
<1>8. /\ edits'[s].client = "refetching"
      /\ \A x \in Seqs \ {s} : edits'[x] = edits[x]
  BY <1>5 DEF EditRec
<1>9. AttemptNamed' /\ PhaseFitsEdit'
  BY <1>1, <1>2, <1>4, <1>8 DEF AttemptNamed, PhaseFitsEdit, WriteMachine, Phases
<1> QED BY <1>7, <1>9

LEMMA RefreshDonePreservesPhase ==
  ASSUME PhaseInv, NEW s \in Seqs, RefreshDone(s)
  PROVE  PhaseInv'
<1> USE TypeOKInParts, TypeOKInPartsNext, ConstantsTyped DEF PhaseInv
<1>1. s \in Nat /\ edits[s].client = "refetching"
  BY DEF RefreshDone, Seqs
<1>2. reduceWrite(write, Event("refresh-landed", s)) =
        IF s = write.seq /\ write.phase = "refresh-required" THEN IdleWrite ELSE write
  BY <1>1, RefreshLands
<1>3. /\ write' \in WriteMachine /\ attempts' \in 0 .. MaxAttempts
      /\ IF edits[s].kind = "uncertain" /\ s = write.seq /\ write.phase = "refresh-required"
         THEN write' = IdleWrite ELSE write' = write
  <2>1. CASE edits[s].kind = "uncertain"
    BY <1>2, <2>1, DispatchTyped DEF RefreshDone
  <2>2. CASE edits[s].kind # "uncertain"
    BY <2>2 DEF RefreshDone
  <2> QED BY <2>1, <2>2
<1>4. edits' = [edits EXCEPT ![s].client = "done"]
  BY DEF RefreshDone
<1>5. edits' \in [Seqs -> EditRec]
  BY <1>4 DEF EditRec
<1>6. TypeOK'
  BY <1>3, <1>5 DEF RefreshDone, server
<1>7. /\ edits'[s].client = "done" /\ edits'[s].kind = edits[s].kind
      /\ edits[s].kind \in {"committed", "uncertain"}
      /\ \A x \in Seqs \ {s} : edits'[x] = edits[x]
  BY <1>4 DEF EditRec
<1>8. AttemptNamed' /\ PhaseFitsEdit'
  BY <1>1, <1>3, <1>7 DEF AttemptNamed, PhaseFitsEdit, WriteMachine, Phases, IdleWrite
<1> QED BY <1>6, <1>8

LEMMA InitEstablishesPhase == Init => PhaseInv
<1> SUFFICES ASSUME Init PROVE PhaseInv
  OBVIOUS
<1>1. TypeOK
  <2>1. errored \in BOOLEAN /\ current \in BOOLEAN
    BY DEF Init
  <2>2. edits \in [Seqs -> EditRec]
    BY ConstantsTyped DEF Init
  <2> QED BY <2>1, <2>2, TypeOKInParts, ConstantsTyped DEF Init
<1>2. AttemptNamed /\ PhaseFitsEdit
  BY DEF Init, AttemptNamed, PhaseFitsEdit, IdleWrite
<1> QED BY <1>1, <1>2 DEF PhaseInv

LEMMA StepPreservesPhase == PhaseInv /\ [Next]_vars => PhaseInv'
<1> SUFFICES ASSUME PhaseInv, [Next]_vars PROVE PhaseInv'
  OBVIOUS
<1>1. CASE \/ \E c \in Contents : ForeignWrite(c)
           \/ Converge \/ Invalidate \/ FetchRead \/ FetchLand \/ Tick
  BY <1>1, InvalidationsPreservePhase
<1>2. CASE \/ \E c \in Contents : Type(c)
           \/ Open \/ TypeBad \/ SetMode \/ Rebind \/ ShellReset \/ Land \/ GiveUp
  BY <1>2, DraftingPreservesPhase
<1>3. CASE SubmitRefused \/ Submit
  BY <1>3, SubmitRefusedPreservesPhase, SubmitPreservesPhase
<1>4. CASE Answering
  BY <1>4, ExecutePreservesPhase, SettlePreservesPhase, RefreshBegunPreservesPhase,
     RefreshDonePreservesPhase DEF Answering
<1>5. CASE UNCHANGED vars
  BY <1>5, TypeOKInParts, TypeOKInPartsNext
     DEF vars, server, client, bounds, PhaseInv, AttemptNamed, PhaseFitsEdit
<1> QED BY <1>1, <1>2, <1>3, <1>4, <1>5 DEF Next, UserStep, Refreshing

-----------------------------------------------------------------------------
(* A form nobody disturbs reopens on what it committed.                    *)

\* What OneWriter says while nobody else wrote.
CopiesWritten ==
    /\ disk \in Written /\ projection \in Written
    /\ payload \in WrittenTruth /\ fetch.truth \in WrittenTruth /\ draft.base \in WrittenTruth
    /\ awaited.set => /\ awaited.truth = NoTruth
                      /\ seqMint \in Seqs /\ edits[seqMint].server # "unused"

LEMMA OneWriterInParts == OneWriter <=> (Undisturbed => CopiesWritten)
BY DEF OneWriter, CopiesWritten

LEMMA OneWriterInPartsNext == OneWriter' <=> (Undisturbed' => CopiesWritten')
BY DEF OneWriter, CopiesWritten

LEMMA FirstTextWritten == NoTruth \in WrittenTruth /\ Start \in Written
BY DEF NoTruth, WrittenTruth, Written

\* A step that records no attempt and forgets none.
RecordsStay ==
    /\ seqMint' = seqMint /\ foreign' \in {foreign, foreign + 1}
    /\ \A s \in Seqs : /\ edits'[s].server = "unused" <=> edits[s].server = "unused"
                       /\ edits'[s].text = edits[s].text

LEMMA RecordsStaying ==
  ASSUME EntryInv, RecordsStay
  PROVE  /\ foreign' \in Nat /\ EditsMinted'
         /\ Written' = Written /\ WrittenTruth' = WrittenTruth
         /\ Undisturbed' => Undisturbed /\ CopiesWritten /\ foreign' = foreign
<1>1. foreign' \in Nat /\ (foreign' = 0 => foreign = 0 /\ foreign' = foreign)
  BY DEF EntryInv, RecordsStay
<1>2. EditsMinted' /\ (Undisturbed' => Undisturbed)
  BY <1>1 DEF EntryInv, RecordsStay, EditsMinted, Undisturbed
<1>3. Written' = Written
  BY DEF RecordsStay, Written
<1>4. WrittenTruth' = WrittenTruth
  BY <1>3 DEF WrittenTruth
<1>5. Undisturbed' => foreign' = foreign
  BY <1>1 DEF Undisturbed
<1> QED BY <1>1, <1>2, <1>3, <1>4, <1>5, OneWriterInParts DEF EntryInv

LEMMA ServerPreservesCopies ==
  ASSUME EntryInv, PhaseInv',
         \/ \E c \in Contents : ForeignWrite(c)
         \/ Converge \/ Invalidate \/ FetchRead \/ FetchLand \/ Tick
  PROVE  EntryInv'
<1>1. RecordsStay
  BY DEF ForeignWrite, Converge, Invalidate, FetchRead, FetchLand, Tick, client, bounds,
         RecordsStay
<1> SUFFICES ASSUME Undisturbed' PROVE CopiesWritten'
  BY <1>1, RecordsStaying, OneWriterInPartsNext DEF EntryInv
<1>2. CopiesWritten /\ foreign' = foreign /\ Written' = Written /\ WrittenTruth' = WrittenTruth
  BY <1>1, RecordsStaying
<1>3. UNCHANGED <<draft, awaited, seqMint, edits>>
  BY DEF ForeignWrite, Converge, Invalidate, FetchRead, FetchLand, Tick, client
<1> USE FirstTextWritten, TypeOKInParts DEF CopiesWritten, EntryInv, PhaseInv
<1>4. disk' \in Written /\ projection' \in Written
  BY <1>2 DEF ForeignWrite, Converge, Invalidate, FetchRead, FetchLand, Tick, server
<1>5. fetch'.truth \in WrittenTruth
  <2>1. CASE FetchRead
    BY <1>2, <2>1 DEF FetchRead, WrittenTruth
  <2>2. CASE FetchLand
    BY <1>2, <2>2 DEF FetchLand, FetchRec
  <2>3. CASE ~FetchRead /\ ~FetchLand
    BY <1>2, <2>3 DEF ForeignWrite, Converge, Invalidate, Invalidated, Tick
  <2> QED BY <2>1, <2>2, <2>3
<1>6. payload' \in WrittenTruth
  BY <1>2 DEF ForeignWrite, Converge, Invalidate, FetchRead, FetchLand, Tick
<1> QED BY <1>2, <1>3, <1>4, <1>5, <1>6

LEMMA FormPreservesCopies ==
  ASSUME EntryInv, PhaseInv',
         \/ \E c \in Contents : Type(c)
         \/ Open \/ TypeBad \/ SetMode \/ Rebind \/ ShellReset \/ Land \/ GiveUp
  PROVE  EntryInv'
<1>1. RecordsStay
  BY DEF Type, Open, TypeBad, SetMode, Rebind, ShellReset, Land, GiveUp, bounds,
         RecordsStay
<1> SUFFICES ASSUME Undisturbed' PROVE CopiesWritten'
  BY <1>1, RecordsStaying, OneWriterInPartsNext DEF EntryInv
<1>2. CopiesWritten /\ Written' = Written /\ WrittenTruth' = WrittenTruth
  BY <1>1, RecordsStaying
<1>3. UNCHANGED <<disk, projection, payload, seqMint, edits>>
  BY DEF Type, Open, TypeBad, SetMode, Rebind, ShellReset, Land, GiveUp, server
<1> USE FirstTextWritten, TypeOKInParts DEF CopiesWritten, EntryInv, PhaseInv
<1>4. draft'.base \in WrittenTruth
  <2>1. draft' \in {draft, Closed, Opened(payload)} \/ draft'.base = draft.base
    BY DEF Type, Open, TypeBad, SetMode, Rebind, ShellReset, Land, GiveUp, DraftRec
  <2> QED BY <1>2, <2>1 DEF Closed, Opened
<1>5. fetch'.truth \in WrittenTruth
  <2>1. fetch' \in {fetch, [at |-> "none", truth |-> NoTruth]}
    BY DEF Type, Open, TypeBad, SetMode, Rebind, ShellReset, Land, GiveUp
  <2> QED BY <1>2, <2>1
<1>6. awaited' \in {awaited, NoAwaited}
  BY DEF Type, Open, TypeBad, SetMode, Rebind, ShellReset, Land, GiveUp
<1> QED BY <1>2, <1>3, <1>4, <1>5, <1>6 DEF NoAwaited

LEMMA SubmitPreservesCopies ==
  ASSUME EntryInv, PhaseInv', SubmitRefused \/ Submit
  PROVE  EntryInv'
<1> USE TypeOKInParts, ConstantsTyped DEF EntryInv, PhaseInv
<1> DEFINE s == seqMint + 1
           sent == [server |-> "sent", answer |-> "lost", client |-> "waiting",
                    kind |-> "uncertain", base |-> draft.base.rev, text |-> draft.now]
<1>1. s \in Seqs /\ seqMint' = s /\ \A t \in Seqs : t <= seqMint => t # s /\ t <= s
  BY DEF SubmitRefused, Submit, Seqs
<1>2. foreign' = foreign
  BY DEF SubmitRefused, Submit, bounds
<1>3. edits' \in {edits, [edits EXCEPT ![s] = sent]}
  BY DEF SubmitRefused, Submit
<1>4. \A t \in Seqs : t # s => edits'[t] = edits[t]
  BY <1>1, <1>3
<1>5. edits[s].server = "unused"
  BY <1>1 DEF EditsMinted, Seqs
<1>6. EditsMinted'
  BY <1>1, <1>4 DEF EditsMinted, Seqs
<1>7. SUFFICES ASSUME Undisturbed' PROVE CopiesWritten'
  BY <1>2, <1>6, OneWriterInPartsNext
<1>8. \A t \in Seqs : edits[t].server = "unused"
  BY <1>1, <1>4, <1>5, <1>7 DEF Undisturbed
<1>9. Undisturbed /\ CopiesWritten
  <2>1. Undisturbed
    BY <1>2, <1>7, <1>8 DEF Undisturbed
  <2> QED BY <2>1, OneWriterInParts
<1>10. Written = {Start}
  BY <1>8 DEF Written
<1>11. \A v \in WrittenTruth : v = NoTruth
  BY <1>10 DEF WrittenTruth, NoTruth
<1>12. UNCHANGED <<disk, projection, payload, fetch, draft>>
  BY DEF SubmitRefused, Submit, server
<1>13. Start \in Written' /\ NoTruth \in WrittenTruth'
  BY DEF Written, WrittenTruth, NoTruth
<1>14. awaited'.set => /\ awaited'.truth = NoTruth
                       /\ seqMint' \in Seqs /\ edits'[seqMint'].server # "unused"
  <2>1. CASE SubmitRefused
    <3>1. ~awaited.set
      BY <1>8, <1>9 DEF CopiesWritten
    <3> QED BY <2>1, <3>1 DEF SubmitRefused
  <2>2. CASE Submit
    <3>1. awaited'.truth = NoTruth
      BY <2>2, <1>9, <1>11 DEF Submit, CopiesWritten
    <3>2. edits'[s].server = "sent"
      BY <2>2, <1>1 DEF Submit
    <3> QED BY <1>1, <3>1, <3>2
  <2> QED BY <2>1, <2>2
<1> QED BY <1>9, <1>10, <1>11, <1>12, <1>13, <1>14 DEF CopiesWritten

LEMMA AnsweringPreservesCopies ==
  ASSUME EntryInv, PhaseInv', NEW s \in Seqs,
         Execute(s) \/ Settle(s) \/ RefreshBegun(s) \/ RefreshDone(s)
  PROVE  EntryInv'
<1> USE TypeOKInParts DEF EntryInv, PhaseInv
<1>1. RecordsStay
  <2>1. \A x \in Seqs : /\ edits'[x].server = "unused" <=> edits[x].server = "unused"
                        /\ edits'[x].text = edits[x].text
    BY DEF Execute, Settle, RefreshBegun, RefreshDone, EditRec
  <2>2. seqMint' = seqMint /\ foreign' = foreign
    BY DEF Execute, Settle, RefreshBegun, RefreshDone, client, bounds
  <2> QED BY <2>1, <2>2 DEF RecordsStay
<1> SUFFICES ASSUME Undisturbed' PROVE CopiesWritten'
  BY <1>1, RecordsStaying, OneWriterInPartsNext
<1>2. CopiesWritten /\ Written' = Written /\ WrittenTruth' = WrittenTruth
  BY <1>1, RecordsStaying
<1> USE FirstTextWritten DEF CopiesWritten
<1>3. disk' \in Written
  <2>1. CASE Execute(s)
    <3>1. disk' \in {disk, edits[s].text} /\ edits[s].server = "sent"
      BY <2>1 DEF Execute
    <3>2. edits[s].text \in Written
      BY <3>1 DEF Written
    <3> QED BY <1>2, <3>1, <3>2
  <2>2. CASE ~Execute(s)
    BY <1>2, <2>2 DEF Settle, RefreshBegun, RefreshDone, server
  <2> QED BY <2>1, <2>2
<1>4. UNCHANGED <<projection, payload, draft, awaited, seqMint>>
  BY DEF Execute, Settle, RefreshBegun, RefreshDone, client, server
<1>5. fetch'.truth \in WrittenTruth
  BY <1>2 DEF Execute, Settle, RefreshBegun, RefreshDone, Invalidated
<1>6. \A x \in Seqs : edits'[x].server = "unused" <=> edits[x].server = "unused"
  BY <1>1 DEF RecordsStay
<1> QED BY <1>2, <1>3, <1>4, <1>5, <1>6

LEMMA InitEstablishesCopies == Init => EntryInv
<1> SUFFICES ASSUME Init PROVE EntryInv
  OBVIOUS
<1>1. PhaseInv /\ foreign \in Nat
  BY InitEstablishesPhase DEF Init
<1>2. EditsMinted
  BY DEF Init, EditsMinted, UnusedEdit
<1>3. CopiesWritten
  BY FirstTextWritten DEF Init, CopiesWritten, Closed, NoAwaited
<1> QED BY <1>1, <1>2, <1>3, OneWriterInParts DEF EntryInv

LEMMA StepPreservesCopies == EntryInv /\ [Next]_vars => EntryInv'
<1> SUFFICES ASSUME EntryInv, [Next]_vars PROVE EntryInv'
  OBVIOUS
<1>1. PhaseInv'
  BY StepPreservesPhase DEF EntryInv
<1>2. CASE UNCHANGED vars
  <2>1. RecordsStay
    BY <1>2 DEF vars, client, bounds, RecordsStay
  <2>2. Undisturbed' => CopiesWritten'
    BY <1>2, <2>1, RecordsStaying DEF vars, server, client, bounds, CopiesWritten
  <2> QED BY <1>1, <2>1, <2>2, RecordsStaying, OneWriterInPartsNext DEF EntryInv
<1> QED
  BY <1>1, <1>2, ServerPreservesCopies, FormPreservesCopies, SubmitPreservesCopies,
     AnsweringPreservesCopies DEF Next, UserStep, Answering, Refreshing

\* The form's strengthened invariant holds in every state.
THEOREM EntryInvariant == Spec => []EntryInv
<1> QED BY InitEstablishesCopies, StepPreservesCopies, PTL DEF Spec

\* The file, its projection, the draft, the attempts and the write loop stay in
\* their types (TypeOK).
THEOREM EntryTypeCorrect == Spec => []TypeOK
<1>1. EntryInv => TypeOK
  BY DEF EntryInv, PhaseInv
<1> QED BY <1>1, EntryInvariant, PTL

\* The badge never speaks of another attempt than the one it names: whatever
\* answers arrive late, twice or never, the phase the write loop shows fits what
\* became of that attempt (reduceWrite, settleDispatch).
THEOREM EntryPhaseFitsEdit == Spec => []PhaseFitsEdit
<1>1. EntryInv => PhaseFitsEdit
  BY DEF EntryInv, PhaseInv
<1> QED BY <1>1, EntryInvariant, PTL

\* A form that nobody else disturbs reopens on what it committed, never on the
\* truth from before its write, whatever fetches were under way when it settled
\* (the refresh that awaits its landing, use-entry-write.ts and use-entry-form.ts).
THEOREM EntryReopensOnCommit == Spec => ReopensOnCommit
<1>1. Spec => []EntryInv
  BY EntryInvariant
<1>2. EntryInv /\ Land /\ foreign = 0 /\ awaited.truth.rev = awaited.truth.vals
        /\ (\A s \in Seqs : edits[s].server # "unused" => s = seqMint)
        => payload.rev = edits[seqMint].text /\ payload.vals = edits[seqMint].text
  <2> SUFFICES ASSUME EntryInv, Land, foreign = 0,
                      \A s \in Seqs : edits[s].server # "unused" => s = seqMint
               PROVE  payload.rev = edits[seqMint].text /\ payload.vals = edits[seqMint].text
    OBVIOUS
  <2>1. CopiesWritten
    BY OneWriterInParts DEF EntryInv, Undisturbed
  <2>2. awaited.truth = NoTruth /\ payload.rev # awaited.truth.rev
        /\ payload.vals # awaited.truth.vals
    BY <2>1 DEF Land, Landed, CopiesWritten, liveRevision, servedProjectionMoved
  <2>3. payload.rev # Start /\ payload.vals # Start
    BY <2>2 DEF NoTruth
  <2>4. payload.rev \in Written /\ payload.vals \in Written
    BY <2>1 DEF CopiesWritten, WrittenTruth
  <2>5. \A v \in Written : v = Start \/ v = edits[seqMint].text
    BY DEF Written
  <2> QED BY <2>3, <2>4, <2>5
<1> QED BY <1>1, <1>2, PTL DEF ReopensOnCommit

-----------------------------------------------------------------------------
(* The inspection views.                                                   *)

\* The saves the watcher still owes, counted.
Owing(f) == IF f \in owed THEN 1 ELSE 0

\* A revision is counted for a save at most once, so that both stay bounded.
RevisionsCounted ==
    /\ files["styles"] + files["content"] <= MaxSave
    /\ Revision + Owing("styles") + Owing("content") <= files["styles"] + files["content"]

\* What a revision noted of the styles file was on disk then.
ToldIsPast == \A i \in 1 .. Len(told) : told[i] <= files["styles"]

\* An inspection's reading is complete when its phase says so, no older than
\* its stamp, paired when it was verified, and granted over its own bytes.
JobIsTrue(j) ==
    /\ j.phase = "free" \/ j.fam \in Families
    /\ j.base <= Revision
    /\ j.phase \in {"verify", "enrich", "reply"} => 
         /\ j.src \in Versions
         /\ j.fam = "styles" /\ j.base > 0 => j.src >= told[j.base]
    /\ j.phase \in {"enrich", "reply"} /\ j.fam = "styles" => Paired(j.compiled, j.src)
    /\ IF j.phase = "reply" THEN j.raw \in {None, j.src} ELSE j.phase # "failed" => j.raw = None

ShownIsStamped == \A f \in Families : Shown(f) => view[f].data.base <= Revision

ViewsInv ==
    /\ ViewsTypeOK /\ RevisionsCounted /\ ToldIsPast
    /\ \A s \in Slots : JobIsTrue(job[s])
    /\ ShownIsStamped /\ ServedIsCoherent /\ StampIsHonest
-----------------------------------------------------------------------------
(* Types.                                                                  *)

JobRec == [fam : Families \cup {"none"}, base : 0..MaxSave,
           phase : {"free", "import", "walk", "verify", "enrich", "reply", "failed"},
           compiled : Versions \cup {None}, src : Versions \cup {None},
           raw : Versions \cup {None}]
ViewRec == [data : Payload \cup {None}, fetching : BOOLEAN,
            slot : 0..MaxJob, failed : BOOLEAN, missed : BOOLEAN]

LEMMA ViewsBounds ==
    /\ MaxSave \in Nat /\ MaxFault \in Nat /\ MaxJob \in Nat /\ None \notin Nat
    /\ 0 \in Versions /\ None \notin Versions
    /\ \A s \in Slots : s \in 0..MaxJob /\ s \in 0..TheView /\ s # TheView /\ s # Nobody
    /\ Nobody \in 0..TheView /\ TheView \in 0..TheView /\ 0 \in 0..MaxJob
    /\ Families = {"styles", "content"} /\ \A v \in Versions : v \in Nat
<1>1. MaxSave \in Nat /\ MaxFault \in Nat /\ MaxJob \in Nat /\ None \notin Nat
  BY ViewsAssumption
<1>2. 0 \in Versions /\ None \notin Versions /\ \A v \in Versions : v \in Nat
  BY <1>1 DEF Versions
<1> QED BY <1>1, <1>2 DEF Slots, TheView, Nobody, Families

LEMMA ViewsTypeInParts ==
  ViewsTypeOK <=>
    /\ files \in [Families -> Versions] /\ owed \subseteq Families
    /\ graph \in Versions \cup {None}
    /\ told \in Seq(Versions) /\ Revision <= MaxSave
    /\ worker \in {"running", "stopped"}
    /\ pending \subseteq Families /\ timer \in BOOLEAN
    /\ wire \in Seq(SUBSET Families)
    /\ job \in [Slots -> JobRec] /\ live \in [Families -> 0..TheView]
    /\ view \in [Families -> ViewRec] /\ faults \in 0..MaxFault
BY DEF ViewsTypeOK, JobRec, ViewRec

LEMMA ViewsTypeInPartsNext ==
  ViewsTypeOK' <=>
    /\ files' \in [Families -> Versions] /\ owed' \subseteq Families
    /\ graph' \in Versions \cup {None}
    /\ told' \in Seq(Versions) /\ Revision' <= MaxSave
    /\ worker' \in {"running", "stopped"}
    /\ pending' \subseteq Families /\ timer' \in BOOLEAN
    /\ wire' \in Seq(SUBSET Families)
    /\ job' \in [Slots -> JobRec] /\ live' \in [Families -> 0..TheView]
    /\ view' \in [Families -> ViewRec] /\ faults' \in 0..MaxFault
BY DEF ViewsTypeOK, JobRec, ViewRec

-----------------------------------------------------------------------------
(* Slots.                                                                  *)

LEMMA LeastOfNats ==
  ASSUME NEW T, T \subseteq Nat, T # {}
  PROVE  \E x \in T : \A y \in T : x <= y
<1>1. PICK x \in T : \A y \in T : ~(<<y, x>> \in OpToRel(<, Nat))
  BY NatLessThanWellFounded, WFMin
<1>2. \A y \in T : x <= y
  <2> TAKE y \in T
  <2>1. x \in Nat /\ y \in Nat
    OBVIOUS
  <2>2. ~(y < x)
    BY <1>1, <2>1 DEF OpToRel
  <2> QED BY <2>1, <2>2
<1> QED BY <1>2

LEMMA NextSlotIsFree == Free # {} => NextSlot \in Slots /\ job[NextSlot].phase = "free"
<1> SUFFICES ASSUME Free # {} PROVE NextSlot \in Slots /\ job[NextSlot].phase = "free"
  OBVIOUS
<1>1. Free \subseteq Slots /\ Free \subseteq Nat
  BY DEF Free, Slots
<1>2. \E s \in Free : \A t \in Free : s <= t
  BY <1>1, LeastOfNats
<1>3. NextSlot \in Free
  BY <1>2 DEF NextSlot
<1> QED BY <1>1, <1>3 DEF Free

LEMMA FamiliesArePaired ==
    /\ IsFiniteSet(Families) /\ Cardinality(Families) = 2
    /\ IsFiniteSet(Free)
<1>1. IsFiniteSet({"styles"}) /\ Cardinality({"styles"}) = 1
  BY FS_Singleton
<1>2. Families = {"styles"} \cup {"content"}
  BY DEF Families
<1>3. IsFiniteSet(Families) /\ Cardinality(Families) = 2
  BY <1>1, <1>2, FS_AddElement
<1>4. IsFiniteSet(Slots)
  BY ViewsBounds, FS_Interval DEF Slots
<1>5. Free \subseteq Slots
  BY DEF Free
<1> QED BY <1>3, <1>4, <1>5, FS_Subset

\* Room for the refetches is room for one each.
LEMMA RefetchesHaveSlots ==
  ASSUME ViewsTypeOK, wire # <<>>, Cardinality(Restarted) <= Cardinality(Free)
  PROVE  SlotOf \in [Restarted -> Free] /\ Restarted \subseteq Mounted /\ Mounted \subseteq Families
<1> DEFINE apart(slot) == \A f, g \in Restarted : slot[f] = slot[g] => f = g
<1>1. /\ Restarted \subseteq Mounted /\ Mounted \subseteq Families
      /\ Restarted \subseteq Families /\ IsFiniteSet(Restarted)
  <2>1. Head(wire) \subseteq Families
    BY ViewsTypeInParts
  <2>2. Restarted \subseteq Mounted /\ Mounted \subseteq Families
    BY <2>1 DEF Restarted, Mounted
  <2> QED BY <2>2, FamiliesArePaired, FS_Subset
<1>2. SUFFICES \E slot \in [Restarted -> Free] : apart(slot)
  BY <1>1 DEF SlotOf
<1>3. CASE Free = {}
  <2>1. Cardinality(Restarted) <= 0 /\ Cardinality(Restarted) \in Nat
    BY <1>1, <1>3, FS_EmptySet, FS_CardinalityType
  <2>2. Restarted = {}
    BY <1>1, <2>1, FS_EmptySet
  <2>3. [f \in Restarted |-> f] \in [Restarted -> Free]
    BY <2>2
  <2> QED BY <2>2, <2>3
<1>4. CASE \E a : Free = {a}
  <2>1. PICK a : Free = {a}
    BY <1>4
  <2>2. Cardinality(Restarted) <= 1 /\ Cardinality(Restarted) \in Nat
    BY <1>1, <2>1, FS_Singleton, FS_CardinalityType
  <2>3. \A f, g \in Restarted : f = g
    <3>1. CASE Cardinality(Restarted) = 0
      BY <1>1, <3>1, FS_EmptySet
    <3>2. CASE Cardinality(Restarted) = 1
      BY <1>1, <3>2, FS_Singleton
    <3> QED BY <2>2, <3>1, <3>2
  <2>4. [f \in Restarted |-> a] \in [Restarted -> Free]
    BY <2>1
  <2> QED BY <2>3, <2>4
<1>5. CASE Free # {} /\ ~ \E a : Free = {a}
  <2>1. PICK a \in Free, b \in Free : a # b
    <3>1. PICK a \in Free : TRUE
      BY <1>5
    <3>2. Free # {a}
      BY <1>5
    <3> QED BY <3>1, <3>2
  <2> DEFINE slot == [f \in Restarted |-> IF f = "styles" THEN a ELSE b]
  <2>2. slot \in [Restarted -> Free]
    BY <2>1
  <2>3. apart(slot)
    BY <1>1, <2>1 DEF Families
  <2> QED BY <2>2, <2>3
<1> QED BY <1>3, <1>4, <1>5

-----------------------------------------------------------------------------
(* Steps.                                                                  *)

LEMMA InitEstablishesViews == ViewsInit => ViewsInv
<1> SUFFICES ASSUME ViewsInit PROVE ViewsInv
  OBVIOUS
<1> USE ViewsBounds
<1>1. NoJob \in JobRec /\ NoView \in ViewRec
  BY DEF NoJob, NoView, JobRec, ViewRec
<1>2. told = <<>> /\ told \in Seq(Versions) /\ wire \in Seq(SUBSET Families) /\ Revision = 0
  BY EmptySeq DEF ViewsInit, Revision
<1>3. /\ files \in [Families -> Versions] /\ live \in [Families -> 0..TheView]
      /\ job \in [Slots -> JobRec] /\ view \in [Families -> ViewRec]
  BY <1>1 DEF ViewsInit
<1>4. ViewsTypeOK
  <2>1. graph \in Versions \cup {None} /\ Revision <= MaxSave /\ faults \in 0..MaxFault
    BY <1>2 DEF ViewsInit
  <2>2. /\ owed \subseteq Families /\ pending \subseteq Families /\ timer \in BOOLEAN
        /\ worker \in {"running", "stopped"}
    BY DEF ViewsInit
  <2> QED BY <1>2, <1>3, <2>1, <2>2, ViewsTypeInParts
<1>5. RevisionsCounted /\ ToldIsPast
  BY <1>2 DEF ViewsInit, RevisionsCounted, ToldIsPast, Owing
<1>6. \A s \in Slots : JobIsTrue(job[s])
  BY <1>2 DEF ViewsInit, JobIsTrue, NoJob
<1>7. ShownIsStamped /\ ServedIsCoherent /\ StampIsHonest
  BY DEF ViewsInit, ShownIsStamped, ServedIsCoherent, StampIsHonest, Shown, NoView
<1> QED BY <1>4, <1>5, <1>6, <1>7 DEF ViewsInv

\* The files, the revisions and what is shown stay; the inspections are true.
ViewStays == \A f \in Families : view'[f].data = view[f].data
TruthStays == UNCHANGED <<files, owed, told>>

LEMMA TruthStaying ==
  ASSUME ViewsInv, TruthStays
  PROVE  /\ RevisionsCounted' /\ ToldIsPast' /\ Revision' = Revision
         /\ \A j : JobIsTrue(j)' <=> JobIsTrue(j)
         /\ ViewStays => ShownIsStamped' /\ ServedIsCoherent' /\ StampIsHonest'
<1>1. RevisionsCounted' /\ ToldIsPast' /\ Revision' = Revision
  BY DEF ViewsInv, TruthStays, RevisionsCounted, ToldIsPast, Revision, Owing
<1>2. \A j : JobIsTrue(j)' <=> JobIsTrue(j)
  BY <1>1 DEF TruthStays, JobIsTrue
<1>3. ViewStays => ShownIsStamped' /\ ServedIsCoherent' /\ StampIsHonest'
  BY <1>1
     DEF ViewsInv, TruthStays, ViewStays, ShownIsStamped, ServedIsCoherent, StampIsHonest,
              Shown, Families
<1> QED BY <1>1, <1>2, <1>3

LEMMA JobsTyped ==
  ASSUME ViewsInv, NEW s \in Slots
  PROVE  job[s] \in JobRec /\ JobIsTrue(job[s]) /\ job \in [Slots -> JobRec]
BY ViewsTypeInParts DEF ViewsInv

\* One inspection moves on, and its new state is true.
LEMMA OneJobMoves ==
  ASSUME ViewsInv, TruthStays, NEW s \in Slots, NEW j \in JobRec, JobIsTrue(j),
         job' = [job EXCEPT ![s] = j]
  PROVE  job' \in [Slots -> JobRec] /\ \A x \in Slots : JobIsTrue(job[x])'
<1>1. job' \in [Slots -> JobRec]
  BY JobsTyped
<1>2. \A x \in Slots : JobIsTrue(job'[x])
  BY JobsTyped
<1>3. \A x \in Slots : JobIsTrue(job[x])'
  BY <1>2, TruthStaying DEF JobIsTrue, TruthStays, Revision
<1> QED BY <1>1, <1>3

LEMMA StartedIsTrue ==
  ASSUME ViewsInv, NEW f \in Families
  PROVE  Started(f) \in JobRec /\ JobIsTrue(Started(f))
<1>1. told \in Seq(Versions) /\ Revision \in 0..MaxSave
  BY ViewsBounds, ViewsTypeInParts DEF ViewsInv, Revision
<1>2. Started(f) \in JobRec
  BY <1>1, ViewsBounds DEF Started, NoJob, JobRec
<1>3. JobIsTrue(Started(f))
  BY <1>1, ViewsBounds DEF Started, NoJob, JobIsTrue
<1> QED BY <1>2, <1>3

LEMMA BoundIsNat == MaxSave \in Nat
BY ViewsAssumption

LEMMA OwingIsNat ==
  /\ Owing("styles") \in Nat /\ Owing("content") \in Nat
  /\ Owing("styles")' \in Nat /\ Owing("content")' \in Nat
<1>1. \A f \in Families : Owing(f) \in {0, 1} /\ Owing(f)' \in {0, 1}
  BY DEF Owing
<1> QED BY <1>1 DEF Families

LEMMA OneMoreOwed ==
  ASSUME NEW f \in Families, owed' = owed \cup {f}
  PROVE  Owing("styles")' + Owing("content")' <= Owing("styles") + Owing("content") + 1
<1>1. CASE f = "styles"
  <2>1. "content" \in owed' <=> "content" \in owed
    BY <1>1
  <2> QED BY <2>1 DEF Owing
<1>2. CASE f = "content"
  <2>1. "styles" \in owed' <=> "styles" \in owed
    BY <1>2
  <2> QED BY <2>1 DEF Owing
<1> QED BY <1>1, <1>2 DEF Families

LEMMA OneLessOwed ==
  ASSUME NEW f \in Families, owed' = owed \ {f}, f \in owed
  PROVE  Owing("styles") + Owing("content") = Owing("styles")' + Owing("content")' + 1
<1>1. CASE f = "styles"
  <2>1. ("content" \in owed' <=> "content" \in owed) /\ "styles" \in owed /\ "styles" \notin owed'
    BY <1>1
  <2> QED BY <2>1 DEF Owing
<1>2. CASE f = "content"
  <2>1. ("styles" \in owed' <=> "styles" \in owed) /\ "content" \in owed /\ "content" \notin owed'
    BY <1>2
  <2> QED BY <2>1 DEF Owing
<1> QED BY <1>1, <1>2 DEF Families

LEMMA SaveIsCounted ==
  ASSUME RevisionsCounted, files["styles"] \in Nat, files["content"] \in Nat, Revision \in Nat,
         files["styles"] + files["content"] < MaxSave, Revision' = Revision,
         files'["styles"] + files'["content"] = files["styles"] + files["content"] + 1,
         Owing("styles")' + Owing("content")' <= Owing("styles") + Owing("content") + 1
  PROVE  RevisionsCounted'
BY BoundIsNat, OwingIsNat DEF RevisionsCounted

LEMMA RevisionIsCounted ==
  ASSUME RevisionsCounted, Revision \in Nat, Revision' = Revision + 1, files' = files,
         Owing("styles") + Owing("content") = Owing("styles")' + Owing("content")' + 1
  PROVE  RevisionsCounted'
BY OwingIsNat DEF RevisionsCounted

LEMMA RevisionsBounded ==
  ASSUME RevisionsCounted', Revision' \in Nat,
         files'["styles"] \in Nat, files'["content"] \in Nat
  PROVE  Revision' <= MaxSave
BY BoundIsNat, OwingIsNat DEF RevisionsCounted

LEMMA SavePreserves ==
  ASSUME ViewsInv, NEW f \in Families, Save(f)
  PROVE  ViewsInv'
<1> USE ViewsBounds
<1>1. files' = [files EXCEPT ![f] = @ + 1] /\ files \in [Families -> Versions]
  BY ViewsTypeInParts DEF ViewsInv, Save
<1>2. /\ files["styles"] \in Nat /\ files["content"] \in Nat /\ files[f] \in Nat
      /\ files["styles"] + files["content"] < MaxSave
  BY <1>1 DEF Save
<1>3. /\ files'["styles"] >= files["styles"] /\ files' \in [Families -> Versions]
      /\ files'["styles"] + files'["content"] = files["styles"] + files["content"] + 1
  <2>1. files[f] + 1 \in Versions
    BY <1>2 DEF Versions
  <2> QED BY <1>1, <1>2, <2>1
<1>4. UNCHANGED <<told, graph, worker, pending, timer, wire, job, live, view, faults>>
  BY DEF Save, serverVars
<1>5. ViewsTypeOK'
  BY <1>3, <1>4, ViewsTypeInParts, ViewsTypeInPartsNext DEF Save, ViewsInv, Revision
<1>6. told \in Seq(Versions) /\ Revision \in Nat
  BY ViewsTypeInParts DEF ViewsInv, Revision
<1>7. RevisionsCounted'
  <2>1. Owing("styles")' + Owing("content")' <= Owing("styles") + Owing("content") + 1
    <3>1. owed' = owed \cup {f}
      BY DEF Save
    <3> QED BY <3>1, OneMoreOwed
  <2>2. Revision' = Revision
    BY <1>4 DEF Revision
  <2>3. RevisionsCounted
    BY DEF ViewsInv
  <2> QED BY <1>2, <1>3, <1>6, <2>1, <2>2, <2>3, SaveIsCounted
<1>8. ToldIsPast'
  BY <1>2, <1>3, <1>4, <1>6 DEF ViewsInv, ToldIsPast
<1>9. \A s \in Slots : JobIsTrue(job[s])'
  BY <1>4 DEF ViewsInv, JobIsTrue, Revision
<1>10. ShownIsStamped' /\ ServedIsCoherent' /\ StampIsHonest'
  BY <1>4 DEF ViewsInv, ShownIsStamped, ServedIsCoherent, StampIsHonest, Shown, Revision
<1> QED BY <1>5, <1>7, <1>8, <1>9, <1>10 DEF ViewsInv

LEMMA DeliverPreserves ==
  ASSUME ViewsInv, NEW f \in Families, Deliver(f)
  PROVE  ViewsInv'
<1> USE ViewsBounds
<1>1. /\ told \in Seq(Versions) /\ files \in [Families -> Versions] /\ Revision \in Nat
      /\ files["styles"] \in Versions
  BY ViewsTypeInParts DEF ViewsInv, Revision
<1>2. told' = Append(told, files["styles"]) /\ files' = files
  BY DEF Deliver
<1>3. /\ told' \in Seq(Versions) /\ Len(told') = Len(told) + 1
      /\ told'[Len(told) + 1] = files["styles"]
      /\ \A i \in 1 .. Len(told) : told'[i] = told[i]
  BY <1>1, <1>2, AppendProperties
<1>4. Revision' = Revision + 1
  BY <1>3 DEF Revision
<1>5. UNCHANGED <<worker, wire, job, live, view, faults>>
  BY DEF Deliver
<1>6. RevisionsCounted'
  <2>1. Owing("styles") + Owing("content") = Owing("styles")' + Owing("content")' + 1
    <3>1. owed' = owed \ {f} /\ f \in owed
      BY DEF Deliver
    <3> QED BY <3>1, OneLessOwed
  <2>2. RevisionsCounted
    BY DEF ViewsInv
  <2> QED BY <1>1, <1>2, <1>4, <2>1, <2>2, RevisionIsCounted
<1>7. ViewsTypeOK'
  <2>1. Revision' <= MaxSave
    <3>1. files'["styles"] \in Nat /\ files'["content"] \in Nat /\ Revision' \in Nat
      BY <1>1, <1>2, <1>4
    <3> QED BY <1>6, <3>1, RevisionsBounded
  <2>2. pending' \subseteq Families /\ timer' \in BOOLEAN
    BY ViewsTypeInParts DEF ViewsInv, Deliver, JoinWindow
  <2>3. owed' \subseteq Families /\ graph' \in Versions \cup {None}
    BY ViewsTypeInParts DEF ViewsInv, Deliver
  <2> QED BY <1>2, <1>3, <1>5, <2>1, <2>2, <2>3, ViewsTypeInParts, ViewsTypeInPartsNext
             DEF ViewsInv
<1>8. ToldIsPast'
  BY <1>1, <1>2, <1>3 DEF ViewsInv, ToldIsPast
<1>9. \A n \in Nat : n > 0 /\ n <= Revision => told'[n] = told[n] /\ n <= Revision'
  BY <1>1, <1>3, <1>4 DEF Revision
<1>10. ASSUME NEW s \in Slots PROVE JobIsTrue(job[s])'
  <2>1. job[s].base \in Nat /\ job[s].base <= Revision /\ JobIsTrue(job[s])
    BY JobsTyped DEF JobRec, JobIsTrue
  <2>2. job[s].base <= Revision'
    BY <1>1, <1>4, <2>1
  <2>3. job[s].base > 0 => told'[job[s].base] = told[job[s].base]
    BY <1>9, <2>1
  <2> QED BY <1>5, <2>1, <2>2, <2>3 DEF JobIsTrue
<1>11. \A x \in Families : Shown(x) => view[x].data.base \in Nat /\ view[x].data.base <= Revision
  BY ViewsTypeInParts DEF ViewsInv, ShownIsStamped, Shown, ViewRec, Payload
<1>12. ShownIsStamped'
  BY <1>1, <1>4, <1>5, <1>11 DEF ShownIsStamped, Shown
<1>13. ServedIsCoherent'
  BY <1>5 DEF ViewsInv, ServedIsCoherent, Shown
<1>14. StampIsHonest'
  <2>1. Shown("styles") /\ view["styles"].data.base > 0
          => told'[view["styles"].data.base] = told[view["styles"].data.base]
    BY <1>9, <1>11
  <2> QED BY <1>5, <2>1 DEF ViewsInv, StampIsHonest, Shown
<1> QED BY <1>6, <1>7, <1>8, <1>10, <1>12, <1>13, <1>14 DEF ViewsInv

LEMMA FailedIsTrue ==
  ASSUME ViewsInv, NEW s \in Slots, job[s].phase # "free"
  PROVE  /\ [job[s] EXCEPT !.phase = "failed"] \in JobRec
         /\ JobIsTrue([job[s] EXCEPT !.phase = "failed"])
<1> DEFINE j == [job[s] EXCEPT !.phase = "failed"]
<1>1. job[s] \in JobRec /\ JobIsTrue(job[s])
  BY JobsTyped
<1>2. /\ j.phase = "failed" /\ j.fam = job[s].fam /\ j.base = job[s].base
      /\ j \in JobRec
  BY <1>1 DEF JobRec
<1>3. job[s].fam \in Families /\ job[s].base <= Revision
  BY <1>1 DEF JobIsTrue
<1> HIDE DEF j
<1>4. JobIsTrue(j)
  BY <1>2, <1>3 DEF JobIsTrue
<1> QED BY <1>2, <1>4 DEF j

LEMMA ServerPreserves ==
  ASSUME ViewsInv, FlushInvalidations \/ CloseWorker
  PROVE  ViewsInv'
<1> USE ViewsBounds
<1>1. TruthStays /\ UNCHANGED <<graph, live, view, faults>>
  BY DEF FlushInvalidations, CloseWorker, TruthStays
<1>2. wire' \in Seq(SUBSET Families)
  <2>1. wire \in Seq(SUBSET Families) /\ pending \in SUBSET Families
    BY ViewsTypeInParts DEF ViewsInv
  <2>2. Append(wire, pending) \in Seq(SUBSET Families)
    BY <2>1, AppendProperties
  <2> QED BY <2>1, <2>2 DEF FlushInvalidations, CloseWorker
<1>3. job' \in [Slots -> JobRec] /\ \A s \in Slots : JobIsTrue(job'[s])
  <2>1. CASE FlushInvalidations
    <3>1. job' = job
      BY <2>1 DEF FlushInvalidations
    <3>2. job \in [Slots -> JobRec]
      BY ViewsTypeInParts DEF ViewsInv
    <3> QED BY <3>1, <3>2, JobsTyped
  <2>2. CASE CloseWorker
    <3>1. job' = [s \in Slots |-> IF InWorker(s) THEN [job[s] EXCEPT !.phase = "failed"]
                                  ELSE job[s]]
      BY <2>2 DEF CloseWorker
    <3>2. ASSUME NEW s \in Slots, InWorker(s)
          PROVE  /\ [job[s] EXCEPT !.phase = "failed"] \in JobRec
                 /\ JobIsTrue([job[s] EXCEPT !.phase = "failed"])
      <4>1. job[s].phase # "free"
        BY <3>2 DEF InWorker
      <4> QED BY <4>1, FailedIsTrue
    <3> QED BY <3>1, <3>2, JobsTyped
  <2> QED BY <2>1, <2>2
<1>4. ViewsTypeOK'
  <2>1. Revision' <= MaxSave
    BY <1>1, ViewsTypeInParts DEF ViewsInv, TruthStays, Revision
  <2> QED BY <1>1, <1>2, <1>3, <2>1, ViewsTypeInParts, ViewsTypeInPartsNext
          DEF ViewsInv, TruthStays, FlushInvalidations, CloseWorker
<1>5. \A s \in Slots : JobIsTrue(job[s])'
  BY <1>1, <1>3, TruthStaying DEF JobIsTrue, TruthStays, Revision
<1> QED BY <1>1, <1>4, <1>5, TruthStaying DEF ViewsInv, ViewStays

\* A step of the shell starts inspections and shows nothing new.
LEMMA QueriesPreserve ==
  ASSUME ViewsInv, TruthStays, ViewStays, UNCHANGED <<serverVars, live, faults>>,
         wire' \in {wire, Tail(wire)}, wire' # wire => wire # <<>>,
         view' \in [Families -> ViewRec], job' \in [Slots -> JobRec],
         \A s \in Slots : JobIsTrue(job[s])'
  PROVE  ViewsInv'
<1>1. wire' \in Seq(SUBSET Families)
  <2>1. wire \in Seq(SUBSET Families)
    BY ViewsTypeInParts DEF ViewsInv
  <2>2. wire # <<>> => Tail(wire) \in Seq(SUBSET Families)
    BY <2>1, HeadTailProperties
  <2> QED BY <2>1, <2>2
<1>2. Revision' <= MaxSave
  BY ViewsTypeInParts DEF ViewsInv, TruthStays, Revision
<1>3. ViewsTypeOK'
  BY <1>1, <1>2, ViewsTypeInParts, ViewsTypeInPartsNext
     DEF ViewsInv, TruthStays, serverVars
<1> QED BY <1>3, TruthStaying DEF ViewsInv

LEMMA RefetchedTyped ==
  ASSUME ViewsInv, NEW f \in Families, NEW s \in 0..MaxJob
  PROVE  Refetched(f, s) \in ViewRec /\ Refetched(f, s).data = view[f].data
<1>1. view[f] \in ViewRec
  BY ViewsTypeInParts DEF ViewsInv
<1> QED BY <1>1 DEF Refetched, ViewRec

LEMMA MountPreserves ==
  ASSUME ViewsInv, NEW f \in Families, Mount(f)
  PROVE  ViewsInv'
<1> USE ViewsBounds
<1>1. TruthStays /\ UNCHANGED <<serverVars, wire, live, faults>>
  BY DEF Mount, TruthStays, serverVars
<1>2. NextSlot \in Slots
  BY NextSlotIsFree DEF Mount
<1>3. job' \in [Slots -> JobRec] /\ \A x \in Slots : JobIsTrue(job[x])'
  BY <1>1, <1>2, StartedIsTrue, OneJobMoves DEF Mount
<1>4. view' \in [Families -> ViewRec] /\ ViewStays
  <2>1. view \in [Families -> ViewRec]
    BY ViewsTypeInParts DEF ViewsInv
  <2>2. /\ Refetched(f, NextSlot) \in ViewRec
        /\ Refetched(f, NextSlot).data = view[f].data
    BY <1>2, RefetchedTyped
  <2> QED BY <2>1, <2>2 DEF Mount, ViewStays
<1> QED BY <1>1, <1>3, <1>4, QueriesPreserve

LEMMA HearInvalidationPreserves ==
  ASSUME ViewsInv, HearInvalidation
  PROVE  ViewsInv'
<1> USE ViewsBounds
<1>1. TruthStays /\ UNCHANGED <<serverVars, live, faults>> /\ wire' = Tail(wire) /\ wire # <<>>
  BY DEF HearInvalidation, TruthStays, serverVars
<1>2. SlotOf \in [Restarted -> Free] /\ Restarted \subseteq Families /\ Mounted \subseteq Families
  BY RefetchesHaveSlots DEF ViewsInv, HearInvalidation
<1>3. \A f \in Restarted : SlotOf[f] \in 0..MaxJob
  BY <1>2 DEF Free
<1>4. ASSUME NEW s \in Slots
      PROVE  job'[s] \in JobRec /\ JobIsTrue(job'[s])
  <2>1. CASE \E f \in Restarted : SlotOf[f] = s
    <3>1. (CHOOSE f \in Restarted : SlotOf[f] = s) \in Families
      BY <1>2, <2>1
    <3> QED BY <2>1, <3>1, StartedIsTrue DEF HearInvalidation
  <2>2. CASE ~ \E f \in Restarted : SlotOf[f] = s
    <3>1. job'[s] = job[s]
      BY <2>2 DEF HearInvalidation
    <3> QED BY <3>1, JobsTyped
  <2> QED BY <2>1, <2>2
<1>5. job' \in [Slots -> JobRec] /\ \A s \in Slots : JobIsTrue(job[s])'
  <2>1. job' \in [Slots -> JobRec]
    BY <1>4 DEF HearInvalidation
  <2> QED BY <2>1, <1>1, <1>4, TruthStaying DEF JobIsTrue, TruthStays, Revision
<1>6. view' \in [Families -> ViewRec] /\ ViewStays
  <2>1. view \in [Families -> ViewRec]
    BY ViewsTypeInParts DEF ViewsInv
  <2>2. \A f \in Families :
          view'[f] = IF f \notin Mounted THEN view[f]
                     ELSE Refetched(f, IF f \in Restarted THEN SlotOf[f] ELSE 0)
    BY DEF HearInvalidation
  <2>3. \A f \in Families : view'[f] \in ViewRec /\ view'[f].data = view[f].data
    BY <1>3, <2>1, <2>2, RefetchedTyped
  <2>4. view' = [f \in Families |-> view'[f]]
    BY DEF HearInvalidation
  <2> QED BY <2>3, <2>4 DEF ViewStays
<1> QED BY <1>1, <1>5, <1>6, QueriesPreserve

LEMMA SettlingPreserves ==
  ASSUME ViewsInv, RetryTick \/ SettleDeadline
  PROVE  ViewsInv'
<1> USE ViewsBounds
<1>1. TruthStays /\ UNCHANGED <<serverVars, wire, live, faults>>
  BY DEF RetryTick, SettleDeadline, TruthStays, serverVars
<1>2. job' \in [Slots -> JobRec] /\ \A x \in Slots : JobIsTrue(job[x])'
  <2>1. CASE RetryTick
    <3>1. NextSlot \in Slots /\ "styles" \in Families
      BY <2>1, NextSlotIsFree DEF RetryTick
    <3> QED BY <1>1, <2>1, <3>1, StartedIsTrue, OneJobMoves DEF RetryTick
  <2>2. CASE SettleDeadline
    <3>1. job' = job
      BY <2>2 DEF SettleDeadline
    <3>2. job \in [Slots -> JobRec] /\ \A x \in Slots : JobIsTrue(job[x])
      BY ViewsTypeInParts DEF ViewsInv
    <3>3. \A x \in Slots : JobIsTrue(job'[x])
      BY <3>1, <3>2
    <3> QED BY <1>1, <3>1, <3>2, <3>3, TruthStaying DEF JobIsTrue, TruthStays, Revision
  <2> QED BY <2>1, <2>2
<1>3. view' \in [Families -> ViewRec] /\ ViewStays
  <2>1. view \in [Families -> ViewRec] /\ view["styles"] \in ViewRec
    BY ViewsTypeInParts DEF ViewsInv
  <2>2. NextSlot \in Slots \/ SettleDeadline
    BY NextSlotIsFree DEF RetryTick
  <2>3. PICK v \in ViewRec : view' = [view EXCEPT !["styles"] = v] /\ v.data = view["styles"].data
    <3>1. CASE RetryTick
      <4>1. NextSlot \in 0..MaxJob
        BY <3>1, NextSlotIsFree DEF RetryTick
      <4>2. [view["styles"] EXCEPT !.slot = NextSlot] \in ViewRec
        BY <2>1, <4>1 DEF ViewRec
      <4>3. [view["styles"] EXCEPT !.slot = NextSlot].data = view["styles"].data
        BY <2>1 DEF ViewRec
      <4> QED BY <3>1, <4>2, <4>3 DEF RetryTick
    <3>2. CASE SettleDeadline
      <4>1. [view["styles"] EXCEPT !.fetching = FALSE, !.failed = TRUE] \in ViewRec
        BY <2>1 DEF ViewRec
      <4>2. [view["styles"] EXCEPT !.fetching = FALSE, !.failed = TRUE].data = view["styles"].data
        BY <2>1 DEF ViewRec
      <4> QED BY <3>2, <4>1, <4>2 DEF SettleDeadline
    <3> QED BY <3>1, <3>2
  <2> QED BY <2>1, <2>3 DEF ViewStays
<1> QED BY <1>1, <1>2, <1>3, QueriesPreserve

-----------------------------------------------------------------------------
(* The inspection.                                                         *)

\* An inspection's step shows nothing new.
LEMMA WorkPreserves ==
  ASSUME ViewsInv, TruthStays, NEW s \in Slots, NEW j \in JobRec, JobIsTrue(j),
         job' = [job EXCEPT ![s] = j], UNCHANGED <<worker, pending, timer, wire, view>>,
         graph' \in Versions \cup {None}, live' \in [Families -> 0..TheView],
         faults' \in 0..MaxFault
  PROVE  ViewsInv'
<1>1. job' \in [Slots -> JobRec] /\ \A x \in Slots : JobIsTrue(job[x])'
  BY OneJobMoves
<1>2. Revision' <= MaxSave
  BY ViewsTypeInParts DEF ViewsInv, TruthStays, Revision
<1>3. ViewsTypeOK'
  BY <1>1, <1>2, ViewsTypeInParts, ViewsTypeInPartsNext DEF ViewsInv, TruthStays
<1>4. ViewStays
  BY DEF ViewStays
<1> QED BY <1>1, <1>3, <1>4, TruthStaying DEF ViewsInv

LEMMA ServerTyped ==
  ASSUME ViewsInv
  PROVE  /\ graph \in Versions \cup {None} /\ live \in [Families -> 0..TheView]
         /\ faults \in 0..MaxFault /\ files \in [Families -> Versions]
         /\ view \in [Families -> ViewRec] /\ files["styles"] \in Versions
         /\ told \in Seq(Versions) /\ Revision \in Nat
BY ViewsTypeInParts DEF ViewsInv, Revision, Families

LEMMA ImportPreserves ==
  ASSUME ViewsInv, NEW s \in Slots, ImportRouteCssSet(s)
  PROVE  ViewsInv'
<1> DEFINE compiled == IF graph = None THEN files["styles"] ELSE graph
           j == [job[s] EXCEPT !.compiled = compiled, !.phase = "walk"]
<1>1. TruthStays /\ UNCHANGED <<worker, pending, timer, wire, live, view, faults>>
  BY DEF ImportRouteCssSet, TruthStays
<1>2. compiled \in Versions /\ graph' = compiled
  BY ServerTyped DEF ImportRouteCssSet
<1>3. job[s] \in JobRec /\ JobIsTrue(job[s]) /\ job[s].phase = "import"
  BY JobsTyped DEF ImportRouteCssSet
<1>4. job' = [job EXCEPT ![s] = j]
  BY DEF ImportRouteCssSet
<1> HIDE DEF compiled
<1>5. /\ j \in JobRec /\ j.phase = "walk" /\ j.fam = job[s].fam /\ j.base = job[s].base
      /\ j.raw = job[s].raw
  BY <1>2, <1>3 DEF JobRec
<1>6. job[s].fam \in Families /\ job[s].base <= Revision /\ job[s].raw = None
  BY <1>3 DEF JobIsTrue
<1> HIDE DEF j
<1>7. JobIsTrue(j)
  BY <1>5, <1>6 DEF JobIsTrue
<1> QED BY <1>1, <1>2, <1>4, <1>5, <1>7, ServerTyped, WorkPreserves

LEMMA ReadPreserves ==
  ASSUME ViewsInv, NEW s \in Slots, ReadSources(s)
  PROVE  ViewsInv'
<1> DEFINE next == IF job[s].fam = "styles" THEN "verify" ELSE "enrich"
           j == [job[s] EXCEPT !.src = files[job[s].fam], !.phase = next]
<1>1. TruthStays /\ UNCHANGED <<graph, worker, pending, timer, wire, live, view, faults>>
  BY DEF ReadSources, TruthStays, serverVars
<1>2. job[s] \in JobRec /\ JobIsTrue(job[s]) /\ job[s].phase = "walk"
  BY JobsTyped DEF ReadSources
<1>3. job[s].fam \in Families /\ job[s].base <= Revision /\ job[s].raw = None
  BY <1>2 DEF JobIsTrue
<1>4. job' = [job EXCEPT ![s] = j]
  BY DEF ReadSources
<1>5. files[job[s].fam] \in Versions /\ next \in {"verify", "enrich"}
      /\ (next = "enrich" => job[s].fam # "styles")
  BY <1>3, ServerTyped
<1> HIDE DEF next
<1>6. /\ j \in JobRec /\ j.phase = next /\ j.fam = job[s].fam /\ j.base = job[s].base
      /\ j.raw = job[s].raw /\ j.src = files[job[s].fam]
  BY <1>2, <1>5 DEF JobRec
<1>7. job[s].fam = "styles" /\ job[s].base > 0 => files["styles"] >= told[job[s].base]
  <2> SUFFICES ASSUME job[s].base > 0 PROVE files["styles"] >= told[job[s].base]
    OBVIOUS
  <2>1. job[s].base \in 1 .. Len(told)
    BY <1>2, <1>3, ServerTyped DEF JobRec, Revision
  <2>2. told[job[s].base] \in Nat /\ files["styles"] \in Nat
    <3>1. told[job[s].base] \in Versions /\ files["styles"] \in Versions
      BY <2>1, ServerTyped
    <3> QED BY <3>1, BoundIsNat DEF Versions
  <2>3. told[job[s].base] <= files["styles"]
    BY <2>1 DEF ViewsInv, ToldIsPast
  <2> QED BY <2>2, <2>3
<1> HIDE DEF j
<1>8. JobIsTrue(j)
  BY <1>3, <1>5, <1>6, <1>7 DEF JobIsTrue
<1> QED BY <1>1, <1>4, <1>6, <1>8, ServerTyped, WorkPreserves

LEMMA VerifyPreserves ==
  ASSUME ViewsInv, NEW s \in Slots, VerifyPass(s)
  PROVE  ViewsInv'
<1> DEFINE next == IF Paired(job[s].compiled, job[s].src) /\ job[s].base = Revision
                   THEN "enrich" ELSE "failed"
           j == [job[s] EXCEPT !.phase = next]
<1>1. TruthStays /\ UNCHANGED <<graph, worker, pending, timer, wire, live, view, faults>>
  BY DEF VerifyPass, TruthStays, serverVars
<1>2. job[s] \in JobRec /\ JobIsTrue(job[s]) /\ job[s].phase = "verify"
  BY JobsTyped DEF VerifyPass
<1>3. job' = [job EXCEPT ![s] = j]
  BY DEF VerifyPass
<1>4. next \in {"enrich", "failed"} /\ (next = "enrich" => Paired(job[s].compiled, job[s].src))
  OBVIOUS
<1> HIDE DEF next
<1>5. /\ j \in JobRec /\ j.phase = next /\ j.fam = job[s].fam /\ j.base = job[s].base
      /\ j.raw = job[s].raw /\ j.src = job[s].src /\ j.compiled = job[s].compiled
  BY <1>2, <1>4 DEF JobRec
<1>6. /\ job[s].fam \in Families /\ job[s].base <= Revision /\ job[s].raw = None
      /\ job[s].src \in Versions
      /\ job[s].fam = "styles" /\ job[s].base > 0 => job[s].src >= told[job[s].base]
  BY <1>2 DEF JobIsTrue
<1> HIDE DEF j
<1>7. JobIsTrue(j)
  BY <1>4, <1>5, <1>6 DEF JobIsTrue
<1> QED BY <1>1, <1>3, <1>5, <1>7, ServerTyped, WorkPreserves

LEMMA EnrichPreserves ==
  ASSUME ViewsInv, NEW s \in Slots, Enrich(s)
  PROVE  ViewsInv'
<1> DEFINE fresh == job[s].src = files[job[s].fam]
           proof == IF fresh THEN job[s].src ELSE None
           j == [job[s] EXCEPT !.phase = "reply", !.raw = proof]
<1>1. TruthStays /\ UNCHANGED <<graph, worker, pending, timer, wire, view, faults>>
  BY DEF Enrich, TruthStays, serverVars
<1>2. job[s] \in JobRec /\ JobIsTrue(job[s]) /\ job[s].phase = "enrich"
  BY JobsTyped DEF Enrich
<1>3. job' = [job EXCEPT ![s] = j]
  BY DEF Enrich
<1>4. /\ job[s].fam \in Families /\ job[s].base <= Revision /\ job[s].src \in Versions
      /\ job[s].fam = "styles" /\ job[s].base > 0 => job[s].src >= told[job[s].base]
      /\ job[s].fam = "styles" => Paired(job[s].compiled, job[s].src)
  BY <1>2 DEF JobIsTrue
<1>5. proof \in {None, job[s].src} /\ proof \in Versions \cup {None}
  BY <1>4
<1>6. live' \in [Families -> 0..TheView]
  <2>1. s \in 0..TheView
    BY ViewsBounds
  <2> QED BY <2>1, ServerTyped DEF Enrich
<1> HIDE DEF proof
<1>7. /\ j \in JobRec /\ j.phase = "reply" /\ j.fam = job[s].fam /\ j.base = job[s].base
      /\ j.raw = proof /\ j.src = job[s].src /\ j.compiled = job[s].compiled
  BY <1>2, <1>5 DEF JobRec
<1> HIDE DEF j
<1>8. JobIsTrue(j)
  BY <1>4, <1>5, <1>7 DEF JobIsTrue
<1> QED BY <1>1, <1>3, <1>6, <1>7, <1>8, ServerTyped, WorkPreserves

LEMMA FaultPreserves ==
  ASSUME ViewsInv, NEW s \in Slots, PlaneFails(s)
  PROVE  ViewsInv'
<1>1. TruthStays /\ UNCHANGED <<graph, worker, pending, timer, wire, live, view>>
  BY DEF PlaneFails, TruthStays, serverVars
<1>2. job[s].phase # "free"
  BY DEF PlaneFails, InWorker
<1>3. faults' \in 0..MaxFault
  BY ServerTyped, ViewsBounds DEF PlaneFails
<1>4. job' = [job EXCEPT ![s] = [job[s] EXCEPT !.phase = "failed"]]
  BY DEF PlaneFails
<1> QED BY <1>1, <1>2, <1>3, <1>4, FailedIsTrue, ServerTyped, WorkPreserves

LEMMA NoJobIsTrue == ViewsInv => NoJob \in JobRec /\ JobIsTrue(NoJob)
BY ViewsBounds, ServerTyped DEF NoJob, JobRec, JobIsTrue

LEMMA RefusedPreserves ==
  ASSUME ViewsInv, NEW s \in Slots, Refused(s)
  PROVE  ViewsInv'
<1> DEFINE f == job[s].fam
           cleared == [view[f] EXCEPT !.slot = 0]
           failed == [view[f] EXCEPT !.slot = 0, !.fetching = FALSE, !.failed = TRUE]
<1>1. TruthStays /\ UNCHANGED <<serverVars, wire, live, faults>>
  BY DEF Refused, TruthStays, serverVars
<1>2. job' \in [Slots -> JobRec] /\ \A x \in Slots : JobIsTrue(job[x])'
  BY <1>1, NoJobIsTrue, OneJobMoves DEF Refused
<1>3. f \in Families
  BY JobsTyped DEF Refused, JobIsTrue
<1>4. view[f] \in ViewRec
  BY <1>3, ServerTyped
<1>5. cleared \in ViewRec /\ cleared.data = view[f].data
  BY <1>4, ViewsBounds DEF ViewRec
<1>6. failed \in ViewRec /\ failed.data = view[f].data
  BY <1>4, ViewsBounds DEF ViewRec
<1>7. \/ view' = view
      \/ view' = [view EXCEPT ![f] = cleared]
      \/ view' = [view EXCEPT ![f] = failed]
  BY DEF Refused
<1> HIDE DEF cleared, failed
<1>8. view' \in [Families -> ViewRec] /\ ViewStays
  BY <1>3, <1>5, <1>6, <1>7, ServerTyped DEF ViewStays
<1> QED BY <1>1, <1>2, <1>8, QueriesPreserve

\* What is shown is what the inspection answered.
LEMMA LandPreserves ==
  ASSUME ViewsInv, NEW s \in Slots, LandAnswer(s)
  PROVE  ViewsInv'
<1> DEFINE f == job[s].fam
           v == [view[f] EXCEPT !.data = Served(s), !.fetching = FALSE, !.slot = 0]
<1>1. TruthStays /\ UNCHANGED <<serverVars, wire, faults>>
  BY DEF LandAnswer, TruthStays, serverVars
<1>2. job' \in [Slots -> JobRec] /\ \A x \in Slots : JobIsTrue(job[x])'
  BY <1>1, NoJobIsTrue, OneJobMoves DEF LandAnswer
<1>3. job[s] \in JobRec /\ JobIsTrue(job[s]) /\ job[s].phase = "reply"
  BY JobsTyped DEF LandAnswer
<1>4. /\ f \in Families /\ job[s].src \in Versions /\ job[s].base <= Revision
      /\ f = "styles" /\ job[s].base > 0 => job[s].src >= told[job[s].base]
      /\ f = "styles" => Paired(job[s].compiled, job[s].src)
      /\ job[s].raw \in {None, job[s].src}
  BY <1>3 DEF JobIsTrue
<1>5. Served(s) \in Payload
  BY <1>3, <1>4 DEF Served, Payload, JobRec
<1>6. view[f] \in ViewRec
  BY <1>4, ServerTyped
<1>7. v \in ViewRec /\ v.data = Served(s)
  BY <1>5, <1>6, ViewsBounds DEF ViewRec
<1> HIDE DEF v
<1>8. view' = view \/ view' = [view EXCEPT ![f] = v]
  BY DEF LandAnswer, v
<1>9. view' \in [Families -> ViewRec]
  BY <1>4, <1>7, <1>8, ServerTyped
<1>10. live' \in [Families -> 0..TheView]
  BY ServerTyped, ViewsBounds DEF LandAnswer, Orphaned
<1>11. ViewsTypeOK'
  <2>1. Revision' <= MaxSave
    BY <1>1, ViewsTypeInParts DEF ViewsInv, TruthStays, Revision
  <2> QED BY <1>1, <1>2, <1>9, <1>10, <2>1, ViewsTypeInParts, ViewsTypeInPartsNext
          DEF ViewsInv, TruthStays, serverVars
<1>12. CASE view' = view
  BY <1>1, <1>2, <1>11, <1>12, TruthStaying DEF ViewsInv, ViewStays
<1>13. CASE view' = [view EXCEPT ![f] = v]
  <2>1. \A g \in Families : g # f => view'[g] = view[g]
    BY <1>13, ServerTyped
  <2>2. view'[f].data = Served(s)
    BY <1>4, <1>7, <1>13, ServerTyped
  <2>3. /\ Served(s).base = job[s].base /\ Served(s).compiled = job[s].compiled
        /\ Served(s).src = job[s].src /\ Served(s).raw = job[s].raw
    BY DEF Served
  <2>4. UNCHANGED told /\ Revision' = Revision
    BY <1>1 DEF TruthStays, Revision
  <2>5. ShownIsStamped'
    BY <1>4, <2>1, <2>2, <2>3, <2>4 DEF ViewsInv, ShownIsStamped, Shown
  <2>6. ServedIsCoherent'
    BY <1>4, <2>1, <2>2, <2>3 DEF ViewsInv, ServedIsCoherent, Shown
  <2>7. StampIsHonest'
    BY <1>4, <2>1, <2>2, <2>3, <2>4 DEF ViewsInv, StampIsHonest, Shown, Families
  <2> QED BY <1>1, <1>2, <1>11, <2>5, <2>6, <2>7, TruthStaying DEF ViewsInv
<1> QED BY <1>8, <1>12, <1>13

-----------------------------------------------------------------------------

LEMMA ViewsStay == ViewsInv /\ UNCHANGED viewsVars => ViewsInv'
<1> SUFFICES ASSUME ViewsInv, UNCHANGED viewsVars PROVE ViewsInv'
  OBVIOUS
<1>1. TruthStays /\ UNCHANGED <<serverVars, live, faults, wire, job, view>>
  BY DEF viewsVars, serverVars, TruthStays
<1>2. job \in [Slots -> JobRec] /\ \A x \in Slots : JobIsTrue(job[x])
  BY ViewsTypeInParts DEF ViewsInv
<1>3. job' \in [Slots -> JobRec] /\ \A x \in Slots : JobIsTrue(job[x])'
  BY <1>1, <1>2, TruthStaying DEF JobIsTrue, TruthStays, Revision
<1>4. view' \in [Families -> ViewRec] /\ ViewStays
  BY <1>1, ServerTyped DEF ViewStays
<1> QED BY <1>1, <1>3, <1>4, QueriesPreserve

LEMMA ViewsStepPreserves == ViewsInv /\ [ViewsNext]_viewsVars => ViewsInv'
<1> SUFFICES ASSUME ViewsInv, ViewsNext \/ UNCHANGED viewsVars PROVE ViewsInv'
  OBVIOUS
<1>1. ASSUME NEW f \in Families, Save(f) PROVE ViewsInv'
  BY <1>1, SavePreserves
<1>2. ASSUME NEW f \in Families, Deliver(f) PROVE ViewsInv'
  BY <1>2, DeliverPreserves
<1>3. ASSUME NEW f \in Families, Mount(f) PROVE ViewsInv'
  BY <1>3, MountPreserves
<1>4. CASE FlushInvalidations \/ CloseWorker
  BY <1>4, ServerPreserves
<1>5. CASE HearInvalidation
  BY <1>5, HearInvalidationPreserves
<1>6. CASE RetryTick \/ SettleDeadline
  BY <1>6, SettlingPreserves
<1>7. ASSUME NEW s \in Slots, JobStep(s) PROVE ViewsInv'
  BY <1>7, ImportPreserves, ReadPreserves, VerifyPreserves, EnrichPreserves,
     LandPreserves,
     RefusedPreserves DEF JobStep
<1>8. ASSUME NEW s \in Slots, PlaneFails(s) PROVE ViewsInv'
  BY <1>8, FaultPreserves
<1>9. CASE UNCHANGED viewsVars
  BY <1>9, ViewsStay
<1> QED BY <1>1, <1>2, <1>3, <1>4, <1>5, <1>6, <1>7, <1>8, <1>9 DEF ViewsNext

\* The strengthened invariant of the views holds in every state.
THEOREM ViewsInvariant == ViewsSpec => []ViewsInv
<1> QED BY InitEstablishesViews, ViewsStepPreserves, PTL DEF ViewsSpec

\* The dev server, the worker, the inspections and the shell's queries stay in
\* their types (ViewsTypeOK).
THEOREM ViewsTypeCorrect == ViewsSpec => []ViewsTypeOK
<1>1. ViewsInv => ViewsTypeOK
  BY DEF ViewsInv
<1> QED BY <1>1, ViewsInvariant, PTL

\* What is served and shown is one world, and no newer than it says: the compiled
\* selectors pair with the source's, a grant covers the bytes the ranges were
\* computed over, and a styles payload reflects every save its revision counts
\* (converged-styles-inspection.ts, parity.ts, enrichStylesFile).
THEOREM ViewsServedIsTrue == ViewsSpec => []ServedIsTrue
<1>1. ViewsInv => ServedIsTrue
  BY DEF ViewsInv, ServedIsTrue
<1> QED BY <1>1, ViewsInvariant, PTL

=============================================================================
