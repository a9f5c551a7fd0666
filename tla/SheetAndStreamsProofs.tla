----------------------- MODULE SheetAndStreamsProofs -----------------------
(***************************************************************************)
(* Proofs about the styles sidebar's automatic writes (CssAutoWrite) and   *)
(* about the event streams and their admission (EventStream).  The two     *)
(* specifications are independent; the first half of the module is about   *)
(* the one, the second about the other.                                    *)
(***************************************************************************)
EXTENDS CssAutoWrite, EventStream, SequenceTheorems, TLAPS

\* Nothing is remembered once the session is over.
ResetIsFinal == ~current => ~anchor.set /\ undo = <<>>

\* A plan's span holds, in the text of its grant, what the planner found there:
\* a declaration, unless it is an undo's, and the wanted rule's when the records
\* were of that text.
PlanTrue(e) ==
    /\ e.raw = e.base
    /\ e.plan.at.to <= Len(e.base)
    /\ e.plan.found = Cut(e.base, e.plan.at)
    /\ ~e.plan.undo => \E k \in Keys : DeclaredBy(e.base, k, e.plan.at)
    /\ e.plan.matched => DeclaredBy(e.base, e.plan.key, e.plan.at)

CssInv ==
    /\ TypeOK /\ AnchorTrue /\ ResetIsFinal
    /\ PlanTrue(edit) /\ PlanTrue(late)

-----------------------------------------------------------------------------
(* Types.                                                                  *)

SheetFetchRec == [at : {"none", "sent", "read"}, rec : Texts, facts : BOOLEAN, live : BOOLEAN]
AnchorRec == [set : BOOLEAN, raw : Texts, base : Texts, live : BOOLEAN]
IntentRec == [set : BOOLEAN, value : Values]
RunnerRec == [at : {"none", "quiet", "sent", "settled", "refetching"}, task : Tasks]
SheetEditRec == [server : {"none", "sent", "done"}, plan : Splices, raw : Texts, base : Texts,
                 answer : Answers, live : BOOLEAN, nextLive : BOOLEAN]
PayloadRec == [seen : BOOLEAN, rec : Texts, facts : BOOLEAN]
SheetAwaitedRec == [set : BOOLEAN, raw : Texts, served : BOOLEAN]

LEMMA CssTypeInParts ==
  TypeOK <=> /\ disk \in Texts /\ payload \in PayloadRec
             /\ fetch \in SheetFetchRec /\ anchor \in AnchorRec
             /\ undo \in Seq(Entries) /\ queue \in Seq(Tasks) /\ timers \subseteq Keys
             /\ intents \in [Keys -> IntentRec] /\ runner \in RunnerRec
             /\ edit \in SheetEditRec /\ late \in SheetEditRec
             /\ write \in WriteMachine /\ seqMint \in Nat /\ awaited \in SheetAwaitedRec
             /\ attempts \in 0 .. MaxAttempts /\ current \in BOOLEAN
BY DEF TypeOK, PayloadRec, SheetFetchRec, AnchorRec, IntentRec, RunnerRec, SheetEditRec,
       SheetAwaitedRec

\* The same of the next state.
LEMMA CssTypeInPartsNext ==
  TypeOK' <=> /\ disk' \in Texts /\ payload' \in PayloadRec
              /\ fetch' \in SheetFetchRec /\ anchor' \in AnchorRec
              /\ undo' \in Seq(Entries) /\ queue' \in Seq(Tasks) /\ timers' \subseteq Keys
              /\ intents' \in [Keys -> IntentRec] /\ runner' \in RunnerRec
              /\ edit' \in SheetEditRec /\ late' \in SheetEditRec
              /\ write' \in WriteMachine /\ seqMint' \in Nat /\ awaited' \in SheetAwaitedRec
              /\ attempts' \in 0 .. MaxAttempts /\ current' \in BOOLEAN
BY DEF TypeOK, PayloadRec, SheetFetchRec, AnchorRec, IntentRec, RunnerRec, SheetEditRec,
       SheetAwaitedRec

LEMMA CssConstantsTyped ==
    /\ Start \in Texts /\ MaxAttempts \in Nat /\ AnyKey \in Keys /\ NoEntry \in Entries
    /\ NoIntent \in IntentRec /\ NoAnchor \in AnchorRec /\ NoAwaited \in SheetAwaitedRec
    /\ NoFetch \in SheetFetchRec /\ Invalidated \in SheetFetchRec
    /\ Rest \in RunnerRec /\ NoEdit \in SheetEditRec /\ IdleWrite \in WriteMachine
<1>1. Start \in Texts /\ MaxAttempts \in Nat /\ Keys # {} /\ Values # {}
  BY CssAssumption
<1>2. AnyKey \in Keys /\ AnyValue \in Values
  BY <1>1 DEF AnyKey, AnyValue
<1>3. <<>> \in Texts /\ NoSpan \in Spans
  BY EmptySeq DEF Texts, NoSpan, Spans
<1>4. NoEntry \in Entries /\ NoSplice \in Splices
  BY <1>2, <1>3 DEF NoEntry, Entries, NoSplice, Splices
<1>5. NoIntent \in IntentRec
  BY <1>2 DEF NoIntent, IntentRec
<1>6. NoAnchor \in AnchorRec /\ NoAwaited \in SheetAwaitedRec
  BY <1>1 DEF NoAnchor, AnchorRec, NoAwaited, SheetAwaitedRec
<1>7. NoFetch \in SheetFetchRec /\ Invalidated \in SheetFetchRec
  BY <1>1 DEF NoFetch, Invalidated, SheetFetchRec
<1>8. Rest \in RunnerRec
  <2>1. FireTask(AnyKey) \in Tasks
    BY <1>2, <1>4 DEF FireTask, Tasks
  <2> QED BY <2>1 DEF Rest, RunnerRec
<1>9. NoEdit \in SheetEditRec
  BY <1>1, <1>4 DEF NoEdit, SheetEditRec, Answers
<1>10. IdleWrite \in WriteMachine
  BY DEF IdleWrite, WriteMachine, Phases, Codes
<1> QED BY <1>1, <1>2, <1>4, <1>5, <1>6, <1>7, <1>8, <1>9, <1>10

LEMMA FireTaskTyped == \A k \in Keys : FireTask(k) \in Tasks
BY CssConstantsTyped DEF FireTask, Tasks

LEMMA NoEditIsTrue == PlanTrue(NoEdit)
<1>1. Start \in Seq(Cells)
  BY CssConstantsTyped DEF Texts
<1>2. SubSeq(Start, 1, 0) = <<>> /\ 0 <= Len(Start)
  BY <1>1, LenProperties, SubSeqProperties, EmptySeq
<1> QED BY <1>2 DEF PlanTrue, NoEdit, NoSplice, NoSpan, Cut

-----------------------------------------------------------------------------
(* Texts.                                                                  *)

LEMMA CutTyped ==
  ASSUME NEW text \in Texts, NEW at \in Spans, at.to <= Len(text)
  PROVE  Cut(text, at) \in Texts
BY SubSeqProperties, LenProperties DEF Texts, Spans, Cut

LEMMA DeclarationTyped == \A v \in Values : Declaration(v) \in Texts
<1> TAKE v \in Values
<1>1. Width[v] \in Nat
  BY CssAssumption
<1>2. Declaration(v) \in [1 .. Width[v] -> Cells]
  BY <1>1 DEF Declaration, Cells
<1> QED BY <1>1, <1>2, SeqDef DEF Texts

LEMMA SpliceTyped ==
  ASSUME NEW text \in Texts, NEW plan \in Splices, plan.at.to <= Len(text)
  PROVE  spliceText(text, plan) \in Texts
<1> DEFINE a == plan.at.from
           b == plan.at.to
<1>1. a \in Nat \ {0} /\ b \in Nat /\ a <= b + 1 /\ plan.put \in Seq(Cells)
  BY DEF Splices, Spans, Texts
<1>2. text \in Seq(Cells) /\ Len(text) \in Nat /\ b <= Len(text)
  BY LenProperties DEF Texts
<1> HIDE DEF a, b
<1>3. SubSeq(text, 1, a - 1) \in Seq(Cells)
  <2>1. 1 \in 1 .. Len(text) + 1 /\ a - 1 \in 1 - 1 .. Len(text)
    BY <1>1, <1>2
  <2> QED BY <1>2, <2>1, SubSeqProperties
<1>4. SubSeq(text, b + 1, Len(text)) \in Seq(Cells)
  <2>1. b + 1 \in 1 .. Len(text) + 1 /\ Len(text) \in (b + 1) - 1 .. Len(text)
    BY <1>1, <1>2
  <2> QED BY <1>2, <2>1, SubSeqProperties
<1>5. spliceText(text, plan) = (SubSeq(text, 1, a - 1) \o plan.put) \o SubSeq(text, b + 1, Len(text))
  BY DEF spliceText, a, b
<1>6. SubSeq(text, 1, a - 1) \o plan.put \in Seq(Cells)
  BY <1>1, <1>3, ConcatProperties
<1>7. (SubSeq(text, 1, a - 1) \o plan.put) \o SubSeq(text, b + 1, Len(text)) \in Seq(Cells)
  BY <1>4, <1>6, ConcatProperties
<1> QED BY <1>5, <1>7 DEF Texts

LEMMA EditTextTyped ==
  ASSUME NEW e \in SheetEditRec, PlanTrue(e)
  PROVE  /\ EditText(e) \in Texts /\ spliceText(e.raw, e.plan) = EditText(e)
         /\ e.plan \in Splices /\ e.base \in Texts
<1>1. e.plan \in Splices /\ e.base \in Texts
  BY DEF SheetEditRec
<1>2. e.raw = e.base /\ e.plan.at.to <= Len(e.base)
  BY DEF PlanTrue
<1> QED BY <1>1, <1>2, SpliceTyped DEF EditText

LEMMA InverseTyped ==
  ASSUME NEW plan \in Splices
  PROVE  invertSplice(plan) \in Entries
<1>1. /\ plan.at.from \in Nat \ {0} /\ plan.put \in Texts /\ plan.found \in Texts
      /\ Len(plan.put) \in Nat
  BY LenProperties DEF Splices, Spans, Texts
<1>2. [from |-> plan.at.from, to |-> plan.at.from + Len(plan.put) - 1] \in Spans
  BY <1>1 DEF Spans
<1> QED BY <1>1, <1>2 DEF invertSplice, Entries

-----------------------------------------------------------------------------
(* The write-loop machine.                                                 *)

LEMMA LoopEventTyped ==
  ASSUME NEW w \in WriteMachine, NEW s \in Nat,
         NEW type \in {"submitted", "refresh-begun", "refresh-landed"}
  PROVE  reduceWrite(w, Event(type, s)) \in WriteMachine
<1>1. IdleWrite \in WriteMachine
  BY CssConstantsTyped
<1>2. [phase |-> "pending", seq |-> s, code |-> "none"] \in WriteMachine
  BY DEF WriteMachine, Phases, Codes
<1>3. [w EXCEPT !.phase = "refresh-required"] \in WriteMachine
  BY DEF WriteMachine, Phases
<1>4. /\ Event(type, s).type = type /\ Event(type, s).seq = s
  BY DEF Event
<1>5. reduceWrite(w, Event(type, s)) \in
        {w, IdleWrite, [phase |-> "pending", seq |-> s, code |-> "none"],
         [w EXCEPT !.phase = "refresh-required"]}
  BY <1>4 DEF reduceWrite
<1> QED BY <1>1, <1>2, <1>3, <1>5

LEMMA LoopAnswerTyped ==
  ASSUME NEW w \in WriteMachine, NEW s \in Nat, NEW code \in Codes, NEW e,
         e.type \in DOMAIN SettledPhase, e.seq = s, e.code = code
  PROVE  reduceWrite(w, e) \in WriteMachine
<1>1. e.type \in {"committed", "uncertain", "rejected", "conflict"}
  BY DEF SettledPhase
<1>2. reduceWrite(w, e) \in {w, [phase |-> SettledPhase[e.type], seq |-> s, code |-> code]}
  BY <1>1 DEF reduceWrite
<1>3. SettledPhase[e.type] \in Phases
  BY <1>1 DEF SettledPhase, Phases
<1>4. [phase |-> SettledPhase[e.type], seq |-> s, code |-> code] \in WriteMachine
  BY <1>3 DEF WriteMachine
<1> QED BY <1>2, <1>4

LEMMA LoopSettleTyped ==
  ASSUME NEW w \in WriteMachine, NEW s \in Nat, NEW answer
  PROVE  reduceWrite(w, SettleEvent(s, answer)) \in WriteMachine
<1> DEFINE e == SettleEvent(s, answer)
<1>1. e.seq = s /\ e.code \in Codes /\ e.type = classifySettle(answer)
  BY DEF SettleEvent, Codes
<1>2. e.type \in DOMAIN SettledPhase
  <2>1. classifySettle(answer) \in {"committed", "uncertain", "rejected", "conflict"}
    BY DEF classifySettle
  <2> QED BY <1>1, <2>1 DEF SettledPhase
<1> HIDE DEF e
<1> QED BY <1>1, <1>2, LoopAnswerTyped DEF e

LEMMA MachineTyped ==
  ASSUME TypeOK, NEW w \in WriteMachine, Machine(w)
  PROVE  write' \in WriteMachine /\ attempts' \in 0 .. MaxAttempts
BY CssTypeInParts, CssConstantsTyped DEF Machine

LEMMA RearmedTyped == \A w \in WriteMachine : Rearmed(w) \in WriteMachine
BY CssConstantsTyped DEF Rearmed

LEMMA RefuseTyped ==
  ASSUME TypeOK, NEW w \in WriteMachine, NEW code \in Codes, Refuse(w, code)
  PROVE  write' \in WriteMachine /\ attempts' \in 0 .. MaxAttempts /\ seqMint' \in Nat
<1>1. seqMint \in Nat /\ seqMint + 1 \in Nat /\ seqMint' = seqMint + 1
  BY CssTypeInParts DEF Refuse
<1> DEFINE sent == reduceWrite(w, Event("submitted", seqMint + 1))
<1>2. sent \in WriteMachine
  BY <1>1, LoopEventTyped
<1>3. /\ Rejected(seqMint + 1, code).type \in DOMAIN SettledPhase
      /\ Rejected(seqMint + 1, code).seq = seqMint + 1 /\ Rejected(seqMint + 1, code).code = code
  BY DEF Rejected, SettledPhase
<1> HIDE DEF sent
<1>4. reduceWrite(sent, Rejected(seqMint + 1, code)) \in WriteMachine
  BY <1>1, <1>2, <1>3, LoopAnswerTyped
<1>5. Machine(reduceWrite(sent, Rejected(seqMint + 1, code)))
  BY DEF Refuse, reduceBoth, sent
<1> QED BY <1>1, <1>4, <1>5, MachineTyped

-----------------------------------------------------------------------------
(* Steps.                                                                  *)

LEMMA CssInitially == Init => CssInv
<1> SUFFICES ASSUME Init PROVE CssInv
  OBVIOUS
<1>1. TypeOK
  <2>1. [set |-> TRUE, raw |-> Start, base |-> Start, live |-> TRUE] \in AnchorRec
    BY CssConstantsTyped DEF AnchorRec
  <2>2. [seen |-> TRUE, rec |-> Start, facts |-> TRUE] \in PayloadRec
    BY CssConstantsTyped DEF PayloadRec
  <2>3. <<>> \in Seq(Entries) /\ <<>> \in Seq(Tasks)
    BY EmptySeq
  <2>4. [k \in Keys |-> NoIntent] \in [Keys -> IntentRec]
    BY CssConstantsTyped
  <2> QED BY <2>1, <2>2, <2>3, <2>4, CssConstantsTyped, CssTypeInParts DEF Init
<1>2. AnchorTrue /\ ResetIsFinal
  BY DEF Init, AnchorTrue, ResetIsFinal
<1>3. PlanTrue(edit) /\ PlanTrue(late)
  BY NoEditIsTrue DEF Init
<1> QED BY <1>1, <1>2, <1>3 DEF CssInv

\* A step that leaves the stores and the splices alone.
StoresStay == UNCHANGED <<stores, edit, late, current>>

LEMMA StoresStaying ==
  ASSUME CssInv, StoresStay, TypeOK'
  PROVE  CssInv'
BY DEF CssInv, StoresStay, stores, AnchorTrue, ResetIsFinal, PlanTrue

LEMMA OutsidePreserves ==
  ASSUME CssInv, \/ \E text \in Outside : ForeignWrite(text)
                 \/ Invalidate \/ FetchFail
  PROVE  CssInv'
<1> USE CssTypeInParts, CssTypeInPartsNext, CssConstantsTyped DEF CssInv
<1>1. ASSUME NEW text \in Outside, ForeignWrite(text) PROVE TypeOK'
  <2>1. disk' \in Texts
    BY <1>1, CssAssumption DEF ForeignWrite
  <2> QED BY <1>1, <2>1 DEF ForeignWrite, stores, loop, pending
<1>2. ASSUME Invalidate PROVE TypeOK'
  <2>1. UNCHANGED <<disk, payload, stores, pending, runner, edit, late, loop, current>>
    BY <1>2 DEF Invalidate
  <2> QED BY <1>2, <2>1 DEF Invalidate, stores, loop, pending
<1>3. ASSUME FetchFail PROVE TypeOK'
  <2>1. UNCHANGED <<disk, stores, pending, runner, edit, late, loop, current>>
    BY <1>3 DEF FetchFail
  <2>2. payload' \in PayloadRec
    BY <1>3 DEF FetchFail, PayloadRec
  <2> QED BY <1>3, <2>1, <2>2 DEF FetchFail, stores, loop, pending
<1>4. StoresStay
  BY DEF ForeignWrite, Invalidate, FetchFail, StoresStay
<1> QED BY <1>1, <1>2, <1>3, <1>4, StoresStaying

LEMMA FetchReadPreserves ==
  ASSUME CssInv, FetchRead
  PROVE  CssInv'
<1> USE CssTypeInParts, CssTypeInPartsNext, CssConstantsTyped DEF CssInv
<1>1. PICK facts \in BOOLEAN, rec \in {disk, payload.rec} :
        /\ fetch' = [at |-> "read", rec |-> rec, facts |-> facts, live |-> facts]
        /\ anchor' = [anchor EXCEPT !.live = @ /\ ~facts]
        /\ edit' = [edit EXCEPT !.live = @ /\ ~facts, !.nextLive = @ /\ ~facts]
        /\ late' = IF facts THEN NoEdit ELSE late
  BY DEF FetchRead
<1>2. fetch' \in SheetFetchRec
  BY <1>1 DEF SheetFetchRec, PayloadRec
<1>3. anchor' \in AnchorRec /\ anchor'.set = anchor.set /\ anchor'.raw = anchor.raw
      /\ anchor'.base = anchor.base
  BY <1>1 DEF AnchorRec
<1>4. edit' \in SheetEditRec /\ edit'.plan = edit.plan /\ edit'.raw = edit.raw
      /\ edit'.base = edit.base
  BY <1>1 DEF SheetEditRec
<1>5. late' \in SheetEditRec /\ PlanTrue(late)'
  BY <1>1, NoEditIsTrue DEF PlanTrue
<1>6. TypeOK'
  BY <1>2, <1>3, <1>4, <1>5 DEF FetchRead, pending, loop
<1>7. AnchorTrue' /\ ResetIsFinal'
  BY <1>3 DEF FetchRead, AnchorTrue, ResetIsFinal
<1>8. PlanTrue(edit)'
  BY <1>4 DEF PlanTrue
<1> QED BY <1>5, <1>6, <1>7, <1>8

LEMMA FetchLandPreserves ==
  ASSUME CssInv, FetchLand
  PROVE  CssInv'
<1> USE CssTypeInParts, CssTypeInPartsNext, CssConstantsTyped DEF CssInv
<1>1. fetch.rec \in Texts /\ fetch.facts \in BOOLEAN /\ fetch.live \in BOOLEAN
  BY DEF SheetFetchRec
<1>2. payload' \in PayloadRec
  BY <1>1 DEF FetchLand, PayloadRec
<1>3. awaited' \in SheetAwaitedRec
  BY DEF FetchLand, SheetAwaitedRec
<1>4. anchor' \in AnchorRec
  BY <1>1 DEF FetchLand, AnchorRec
<1>5. TypeOK'
  BY <1>2, <1>3, <1>4 DEF FetchLand, pending
<1>6. AnchorTrue' /\ ResetIsFinal'
  BY DEF FetchLand, AnchorTrue, ResetIsFinal
<1>7. PlanTrue(edit)' /\ PlanTrue(late)'
  BY DEF FetchLand, PlanTrue
<1> QED BY <1>5, <1>6, <1>7

LEMMA ShellResetPreserves ==
  ASSUME CssInv, ShellReset
  PROVE  CssInv'
<1> USE CssTypeInParts, CssTypeInPartsNext, CssConstantsTyped DEF CssInv
<1>1. write' \in WriteMachine /\ attempts' \in 0 .. MaxAttempts
  BY MachineTyped DEF ShellReset
<1>2. undo' \in Seq(Entries)
  BY EmptySeq DEF ShellReset
<1>3. TypeOK'
  BY <1>1, <1>2 DEF ShellReset, pending
<1>4. AnchorTrue' /\ ResetIsFinal'
  BY DEF ShellReset, NoAnchor, AnchorTrue, ResetIsFinal
<1>5. PlanTrue(edit)' /\ PlanTrue(late)'
  BY DEF ShellReset, PlanTrue
<1> QED BY <1>3, <1>4, <1>5

LEMMA SchedulingPreserves ==
  ASSUME CssInv, \/ \E e \in Edits : Schedule(e[1], e[2])
                 \/ \E k \in Keys : Fire(k)
                 \/ Unmount
  PROVE  CssInv'
<1> USE CssTypeInParts, CssTypeInPartsNext, CssConstantsTyped DEF CssInv
<1>1. ASSUME NEW e \in Edits, Schedule(e[1], e[2]) PROVE TypeOK' /\ StoresStay
  <2> e[1] \in Keys /\ e[2] \in Values
    BY CssAssumption
  <2>1. write' \in WriteMachine /\ attempts' \in 0 .. MaxAttempts
    BY <1>1, RearmedTyped, MachineTyped DEF Schedule
  <2>2. intents' \in [Keys -> IntentRec]
    BY <1>1 DEF Schedule, Intent, IntentRec
  <2> QED BY <1>1, <2>1, <2>2 DEF Schedule, stores, StoresStay
<1>2. ASSUME NEW k \in Keys, Fire(k) PROVE TypeOK' /\ StoresStay
  <2>1. queue' \in Seq(Tasks)
    BY <1>2, FireTaskTyped, AppendProperties DEF Fire
  <2> QED BY <1>2, <2>1 DEF Fire, stores, loop, StoresStay
<1>3. CASE Unmount
  <2>1. TypeOK' /\ StoresStay
    BY <1>3 DEF Unmount, stores, loop, StoresStay
  <2> QED BY <2>1, StoresStaying
<1> QED BY <1>1, <1>2, <1>3, StoresStaying

LEMMA UndoPreserves ==
  ASSUME CssInv, Undo
  PROVE  CssInv'
<1> USE CssTypeInParts, CssTypeInPartsNext, CssConstantsTyped DEF CssInv
<1>1. undo \in Seq(Entries) /\ undo # <<>> /\ Len(undo) \in Nat /\ Len(undo) > 0
  <2>1. undo \in Seq(Entries) /\ undo # <<>>
    BY DEF Undo
  <2> QED BY <2>1, EmptySeq, LenProperties
<1>2. undo' \in Seq(Entries)
  <2>1. undo' = SubSeq(undo, 1, Len(undo) - 1)
    BY DEF Undo
  <2> QED BY <1>1, <2>1, SubSeqProperties
<1>3. queue' \in Seq(Tasks)
  <2>1. undo[Len(undo)] \in Entries
    BY <1>1, ElementOfSeq
  <2>2. UndoTask(undo[Len(undo)]) \in Tasks
    BY <2>1, CssConstantsTyped DEF UndoTask, Tasks
  <2> QED BY <2>2, AppendProperties DEF Undo
<1>4. TypeOK'
  BY <1>2, <1>3 DEF Undo, loop
<1>5. AnchorTrue' /\ ResetIsFinal'
  BY <1>1 DEF Undo, AnchorTrue, ResetIsFinal
<1>6. PlanTrue(edit)' /\ PlanTrue(late)'
  BY DEF Undo, PlanTrue
<1> QED BY <1>4, <1>5, <1>6

-----------------------------------------------------------------------------
(* The queue's task.                                                       *)

LEMMA TaskTyped ==
  ASSUME CssInv
  PROVE  /\ runner.task \in Tasks /\ runner.task.entry \in Entries /\ WantedKey \in Keys
         /\ WantedValue \in Values
<1>1. runner \in RunnerRec /\ intents \in [Keys -> IntentRec]
  BY CssTypeInParts DEF CssInv
<1>2. runner.task \in Tasks /\ runner.task.entry \in Entries /\ WantedKey \in Keys
  BY <1>1 DEF RunnerRec, Tasks, WantedKey
<1>3. intents[WantedKey].value \in Values
  BY <1>1, <1>2 DEF IntentRec
<1> QED BY <1>2, <1>3 DEF WantedValue

LEMMA TakenTyped == CssInv /\ Taken => intents' \in [Keys -> IntentRec]
BY TaskTyped, CssTypeInParts, CssConstantsTyped DEF CssInv, Taken

LEMMA TurnsPreserve ==
  ASSUME CssInv, StartTask \/ NothingLeft \/ RefuseBusy
  PROVE  CssInv'
<1> USE CssTypeInParts, CssTypeInPartsNext, CssConstantsTyped DEF CssInv
<1>1. CASE StartTask
  <2>1. write' \in WriteMachine /\ attempts' \in 0 .. MaxAttempts
    BY <1>1, RearmedTyped, MachineTyped DEF StartTask
  <2>2. queue' \in Seq(Tasks) /\ Head(queue) \in Tasks
    BY <1>1, HeadTailProperties DEF StartTask
  <2>3. runner' \in RunnerRec
    BY <1>1, <2>2 DEF StartTask, RunnerRec
  <2> QED BY <1>1, <2>1, <2>2, <2>3, StoresStaying DEF StartTask, stores, StoresStay
<1>2. CASE NothingLeft
  BY <1>2, StoresStaying DEF NothingLeft, stores, pending, loop, StoresStay
<1>3. CASE RefuseBusy
  <2>1. write' \in WriteMachine /\ attempts' \in 0 .. MaxAttempts /\ seqMint' \in Nat
    BY <1>3, RefuseTyped DEF RefuseBusy, Codes
  <2>2. intents' \in [Keys -> IntentRec]
    BY <1>3, TakenTyped DEF RefuseBusy
  <2> QED BY <1>3, <2>1, <2>2, StoresStaying DEF RefuseBusy, stores, StoresStay
<1> QED BY <1>1, <1>2, <1>3

LEMMA RefusalsPreserve ==
  ASSUME CssInv, RefuseIntent \/ RefuseUndo
  PROVE  CssInv'
<1> USE CssTypeInParts, CssTypeInPartsNext, CssConstantsTyped DEF CssInv
<1>1. write' \in WriteMachine /\ attempts' \in 0 .. MaxAttempts /\ seqMint' \in Nat
  BY RefuseTyped DEF RefuseIntent, RefuseUndo, Codes
<1>2. intents' \in [Keys -> IntentRec]
  BY TakenTyped DEF RefuseIntent, RefuseUndo
<1>3. undo' \in {undo, <<>>} /\ fetch' \in {fetch, Invalidated}
  BY DEF RefuseIntent, RefuseUndo, Reload
<1>4. <<>> \in Seq(Entries)
  BY EmptySeq
<1>5. runner' = Rest
  BY DEF RefuseIntent, RefuseUndo
<1>6. UNCHANGED <<disk, payload, anchor, timers, queue, edit, late, awaited, current>>
  BY DEF RefuseIntent, RefuseUndo
<1>7. TypeOK'
  BY <1>1, <1>2, <1>3, <1>4, <1>5, <1>6
<1>8. AnchorTrue' /\ ResetIsFinal'
  BY <1>3, <1>6 DEF AnchorTrue, ResetIsFinal
<1>9. PlanTrue(edit)' /\ PlanTrue(late)'
  BY <1>6 DEF PlanTrue
<1> QED BY <1>7, <1>8, <1>9

\* What a record of the anchor's own text locates is the wanted rule's declaration.
LEMMA MatchedRecords ==
  ASSUME WantedKey \in Keys, NEW text \in Texts,
         NEW r \in Records(text), NEW at \in Located(text, r)
  PROVE  DeclaredBy(text, WantedKey, at)
<1>1. /\ r.from \in 1 .. Len(text) /\ r.to \in 1 .. Len(text)
      /\ text[r.from] = Selector(WantedKey)
  BY DEF Records
<1>2. /\ at.from \in r.from + 1 .. r.to /\ at.to \in r.from + 1 .. r.to
      /\ \A j \in r.from .. at.from - 2 : text[j] \notin Heads \cup {Closing}
  BY DEF Located
<1>3. PICK k \in Keys : DeclaredBy(text, k, at)
  BY DEF Located
<1>4. r.from \in Nat /\ at.from \in Nat /\ at.from >= r.from + 1
  BY <1>1, <1>2
<1>5. at.from - 1 = r.from
  <2>1. CASE at.from - 2 >= r.from
    <3>1. r.from \in r.from .. at.from - 2
      BY <1>4, <2>1
    <3>2. text[r.from] \notin Heads
      BY <1>2, <3>1
    <3> QED BY <1>1, <3>2 DEF Heads
  <2>2. CASE at.from - 2 < r.from
    BY <1>4, <2>2
  <2> QED BY <1>4, <2>1, <2>2
<1> QED BY <1>1, <1>3, <1>5 DEF DeclaredBy

LEMMA IntentPlansTrue ==
  ASSUME CssInv, anchor.set, NEW plan \in IntentPlans
  PROVE  /\ plan \in Splices /\ ~plan.undo
         /\ plan.at.to <= Len(anchor.raw) /\ plan.found = Cut(anchor.raw, plan.at)
         /\ \E k \in Keys : DeclaredBy(anchor.raw, k, plan.at)
         /\ plan.matched => DeclaredBy(anchor.raw, plan.key, plan.at)
<1> DEFINE PlanOf(at) ==
      [undo |-> FALSE, key |-> WantedKey, at |-> at, put |-> Declaration(WantedValue),
       found |-> Cut(anchor.raw, at), matched |-> payload.rec = anchor.raw]
<1>a. PICK r \in Records(payload.rec) : \E at \in Located(anchor.raw, r) : plan = PlanOf(at)
  BY DEF IntentPlans
<1>1. PICK at \in Located(anchor.raw, r) : plan = PlanOf(at)
  BY <1>a
<1>2. anchor.raw \in Texts /\ payload.rec \in Texts
  BY CssTypeInParts DEF CssInv, AnchorRec, PayloadRec
<1>3. Len(anchor.raw) \in Nat /\ Len(payload.rec) \in Nat
  BY <1>2, LenProperties DEF Texts
<1>4. r.from \in 1 .. Len(payload.rec) /\ r.to \in 1 .. Len(payload.rec)
  BY DEF Records
<1>5. /\ at \in [from : r.from + 1 .. r.to, to : r.from + 1 .. r.to]
      /\ \E k \in Keys : DeclaredBy(anchor.raw, k, at)
  BY DEF Located
<1>6. at.from <= at.to /\ at.to < Len(anchor.raw)
  BY <1>5 DEF DeclaredBy
<1>7. at \in Spans
  <2>1. at = [from |-> at.from, to |-> at.to]
    BY <1>5
  <2>2. at.from \in Nat \ {0} /\ at.to \in Nat
    BY <1>3, <1>4, <1>5
  <2> QED BY <1>6, <2>1, <2>2 DEF Spans
<1>8. at.to <= Len(anchor.raw)
  BY <1>3, <1>6, <1>7 DEF Spans
<1>9. plan \in Splices
  BY <1>1, <1>2, <1>7, <1>8, CutTyped, DeclarationTyped, TaskTyped DEF Splices
<1>10. plan.matched => DeclaredBy(anchor.raw, WantedKey, at)
  BY <1>1, <1>2, MatchedRecords, TaskTyped
<1> QED BY <1>1, <1>5, <1>8, <1>9, <1>10

LEMMA UndoPlansTrue ==
  ASSUME CssInv, anchor.set, NEW plan \in UndoPlans
  PROVE  /\ plan \in Splices /\ plan.undo /\ ~plan.matched
         /\ plan.at.to <= Len(anchor.raw) /\ plan.found = Cut(anchor.raw, plan.at)
<1> DEFINE entry == runner.task.entry
<1>1. /\ plan = [undo |-> TRUE, key |-> WantedKey, at |-> entry.at, put |-> entry.put,
                 found |-> entry.found, matched |-> FALSE]
      /\ entry.at.to <= Len(anchor.raw) /\ Cut(anchor.raw, entry.at) = entry.found
  BY DEF UndoPlans
<1>2. entry \in Entries /\ WantedKey \in Keys
  BY TaskTyped
<1> HIDE DEF entry
<1>3. plan \in Splices
  BY <1>1, <1>2 DEF Splices, Entries
<1> QED BY <1>1, <1>3

LEMMA SubmitPreserves ==
  ASSUME CssInv, Submit
  PROVE  CssInv'
<1> USE CssTypeInParts, CssTypeInPartsNext, CssConstantsTyped DEF CssInv
<1>1. write' \in WriteMachine /\ attempts' \in 0 .. MaxAttempts /\ seqMint' \in Nat
  <2>1. seqMint + 1 \in Nat
    OBVIOUS
  <2> QED BY <2>1, LoopEventTyped, MachineTyped DEF Submit
<1>2. intents' \in [Keys -> IntentRec]
  BY TakenTyped DEF Submit
<1>3. PICK plan \in Plans :
        edit' = [server |-> "sent", plan |-> plan, raw |-> anchor.raw, base |-> anchor.base,
                 answer |-> "lost", live |-> anchor.live, nextLive |-> FALSE]
  BY DEF Submit
<1>4. anchor.set /\ plan \in IntentPlans \cup UndoPlans
  BY DEF Plans
<1>5. anchor.raw \in Texts /\ anchor.base = anchor.raw /\ anchor.live \in BOOLEAN
  BY <1>4 DEF AnchorRec, AnchorTrue
<1>6. /\ plan \in Splices
      /\ plan.at.to <= Len(anchor.raw) /\ plan.found = Cut(anchor.raw, plan.at)
      /\ ~plan.undo => \E k \in Keys : DeclaredBy(anchor.raw, k, plan.at)
      /\ plan.matched => DeclaredBy(anchor.raw, plan.key, plan.at)
  BY <1>4, IntentPlansTrue, UndoPlansTrue
<1>7. awaited' \in SheetAwaitedRec
  BY <1>5 DEF Submit, SheetAwaitedRec
<1>8. runner' \in RunnerRec
  BY DEF Submit, RunnerRec
<1>9. edit' \in SheetEditRec
  BY <1>3, <1>5, <1>6 DEF SheetEditRec, Answers
<1>10. PlanTrue(edit)'
  BY <1>3, <1>5, <1>6 DEF PlanTrue
<1>11. TypeOK'
  BY <1>1, <1>2, <1>7, <1>8, <1>9 DEF Submit, stores
<1>12. AnchorTrue' /\ ResetIsFinal' /\ PlanTrue(late)'
  BY DEF Submit, stores, AnchorTrue, ResetIsFinal, PlanTrue
<1> QED BY <1>10, <1>11, <1>12

\* The server changes the file to the planned text, from its baseline, or not.
LEMMA ExecuteWrites ==
  ASSUME NEW answer, Execute(answer)
  PROVE  disk' \in {disk, EditText(edit)} /\ (disk' # disk => disk = edit.base)
BY DEF Execute

LEMMA ExecutePreserves ==
  ASSUME CssInv, NEW answer \in Answers, Execute(answer)
  PROVE  CssInv'
<1> USE CssTypeInParts, CssTypeInPartsNext, CssConstantsTyped DEF CssInv
<1> DEFINE committed == answer = "committed"
<1>1. /\ edit' = [edit EXCEPT !.server = "done", !.answer = answer, !.live = FALSE,
                     !.nextLive = committed]
      /\ anchor' = [anchor EXCEPT !.live = @ /\ ~committed]
      /\ fetch' = [fetch EXCEPT !.live = @ /\ ~committed]
      /\ late' = IF committed THEN NoEdit ELSE late
      /\ UNCHANGED <<payload, undo, pending, runner, loop, current, bounds>>
  BY DEF Execute
<1>2. edit' \in SheetEditRec /\ edit'.plan = edit.plan /\ edit'.raw = edit.raw
      /\ edit'.base = edit.base
  BY <1>1 DEF SheetEditRec
<1>3. anchor' \in AnchorRec /\ anchor'.set = anchor.set /\ anchor'.raw = anchor.raw
      /\ anchor'.base = anchor.base
  BY <1>1 DEF AnchorRec
<1>4. fetch' \in SheetFetchRec
  BY <1>1 DEF SheetFetchRec
<1>5. late' \in SheetEditRec /\ PlanTrue(late)'
  BY <1>1, NoEditIsTrue DEF PlanTrue
<1>6. disk' \in Texts
  BY ExecuteWrites, EditTextTyped
<1>7. TypeOK'
  BY <1>1, <1>2, <1>3, <1>4, <1>5, <1>6 DEF pending, loop
<1>8. AnchorTrue' /\ ResetIsFinal'
  BY <1>1, <1>3 DEF AnchorTrue, ResetIsFinal
<1>9. PlanTrue(edit)'
  BY <1>2 DEF PlanTrue
<1> QED BY <1>5, <1>7, <1>8, <1>9

LEMMA ExecuteLatePreserves ==
  ASSUME CssInv, ExecuteLate
  PROVE  CssInv'
<1> USE CssTypeInParts, CssTypeInPartsNext, CssConstantsTyped DEF CssInv
<1>1. edit' \in SheetEditRec /\ edit'.plan = edit.plan /\ edit'.raw = edit.raw
      /\ edit'.base = edit.base
  BY DEF ExecuteLate, SheetEditRec
<1>2. anchor' \in AnchorRec /\ anchor'.set = anchor.set /\ anchor'.raw = anchor.raw
      /\ anchor'.base = anchor.base
  BY DEF ExecuteLate, AnchorRec
<1>3. fetch' \in SheetFetchRec
  BY DEF ExecuteLate, SheetFetchRec
<1>4. disk' \in Texts
  BY EditTextTyped DEF ExecuteLate
<1>5. late' \in SheetEditRec /\ PlanTrue(late)'
  BY NoEditIsTrue DEF ExecuteLate, PlanTrue
<1>6. TypeOK'
  BY <1>1, <1>2, <1>3, <1>4, <1>5 DEF ExecuteLate, pending, loop
<1>7. AnchorTrue' /\ ResetIsFinal'
  BY <1>2 DEF ExecuteLate, AnchorTrue, ResetIsFinal
<1>8. PlanTrue(edit)'
  BY <1>1 DEF PlanTrue
<1> QED BY <1>5, <1>6, <1>7, <1>8

LEMMA SettleCommittedPreserves ==
  ASSUME CssInv, SettleCommitted
  PROVE  CssInv'
<1> USE CssTypeInParts, CssTypeInPartsNext, CssConstantsTyped DEF CssInv
<1>1. write' \in WriteMachine /\ attempts' \in 0 .. MaxAttempts
  BY LoopSettleTyped, MachineTyped DEF SettleCommitted
<1>2. edit.nextLive \in BOOLEAN /\ edit.plan \in Splices
  BY DEF SheetEditRec
<1>3. Noted \in AnchorRec /\ Noted.raw = Noted.base
  BY <1>2, EditTextTyped DEF Noted, AnchorRec
<1>4. anchor' \in AnchorRec
  BY <1>3 DEF SettleCommitted
<1>5. undo' \in Seq(Entries)
  <2>1. invertSplice(edit.plan) \in Entries
    BY <1>2, InverseTyped
  <2> QED BY <2>1, AppendProperties DEF SettleCommitted
<1>6. runner' \in RunnerRec
  BY DEF SettleCommitted, RunnerRec
<1>7. TypeOK'
  BY <1>1, <1>4, <1>5, <1>6 DEF SettleCommitted, pending
<1>8. AnchorTrue' /\ ResetIsFinal'
  BY <1>3 DEF SettleCommitted, StoresBound, AnchorTrue, ResetIsFinal
<1>9. PlanTrue(edit)' /\ PlanTrue(late)'
  BY DEF SettleCommitted, PlanTrue
<1> QED BY <1>7, <1>8, <1>9

LEMMA SettleRefusedPreserves ==
  ASSUME CssInv, SettleRefused
  PROVE  CssInv'
<1> USE CssTypeInParts, CssTypeInPartsNext, CssConstantsTyped DEF CssInv
<1>1. write' \in WriteMachine /\ attempts' \in 0 .. MaxAttempts
  BY LoopSettleTyped, MachineTyped DEF SettleRefused
<1>2. undo' \in Seq(Entries)
  BY EmptySeq DEF SettleRefused
<1>3. TypeOK'
  BY <1>1, <1>2 DEF SettleRefused, pending
<1>4. AnchorTrue' /\ ResetIsFinal'
  BY DEF SettleRefused, AnchorTrue, ResetIsFinal
<1>5. PlanTrue(edit)' /\ PlanTrue(late)'
  BY NoEditIsTrue DEF SettleRefused, PlanTrue
<1> QED BY <1>3, <1>4, <1>5

LEMMA SettleUncertainPreserves ==
  ASSUME CssInv, SettleUncertain
  PROVE  CssInv'
<1> USE CssTypeInParts, CssTypeInPartsNext, CssConstantsTyped DEF CssInv
<1>1. write' \in WriteMachine /\ attempts' \in 0 .. MaxAttempts
  BY LoopSettleTyped, MachineTyped DEF SettleUncertain
<1>2. late' \in {edit, late} /\ edit' = NoEdit
  BY DEF SettleUncertain
<1>3. runner' \in RunnerRec
  BY DEF SettleUncertain, RunnerRec
<1>4. TypeOK'
  BY <1>1, <1>2, <1>3 DEF SettleUncertain, stores, pending
<1>5. AnchorTrue' /\ ResetIsFinal'
  BY DEF SettleUncertain, stores, AnchorTrue, ResetIsFinal
<1>6. PlanTrue(edit)' /\ PlanTrue(late)'
  BY <1>2, NoEditIsTrue DEF PlanTrue
<1> QED BY <1>4, <1>5, <1>6

LEMMA RefreshPreserves ==
  ASSUME CssInv, RefreshBegun \/ RefreshDone
  PROVE  CssInv'
<1> USE CssTypeInParts, CssTypeInPartsNext, CssConstantsTyped DEF CssInv
<1>1. reduceWrite(write, Event("refresh-begun", seqMint)) \in WriteMachine
      /\ reduceWrite(write, Event("refresh-landed", seqMint)) \in WriteMachine
  BY LoopEventTyped
<1>2. write' \in WriteMachine /\ attempts' \in 0 .. MaxAttempts
  BY <1>1, MachineTyped DEF RefreshBegun, RefreshDone
<1>3. runner' \in RunnerRec /\ fetch' \in SheetFetchRec
  BY DEF RefreshBegun, RefreshDone, RunnerRec
<1>4. edit' \in {edit, NoEdit} /\ UNCHANGED <<stores, late, current>>
  BY DEF RefreshBegun, RefreshDone
<1>5. TypeOK'
  BY <1>2, <1>3, <1>4 DEF RefreshBegun, RefreshDone, stores, pending
<1>6. AnchorTrue' /\ ResetIsFinal'
  BY <1>4 DEF stores, AnchorTrue, ResetIsFinal
<1>7. PlanTrue(edit)' /\ PlanTrue(late)'
  BY <1>4, NoEditIsTrue DEF PlanTrue
<1> QED BY <1>5, <1>6, <1>7

LEMMA LandingPreserves ==
  ASSUME CssInv, Land \/ Tick \/ GiveUp
  PROVE  CssInv'
<1> USE CssTypeInParts, CssTypeInPartsNext, CssConstantsTyped DEF CssInv
<1>1. reduceWrite(write, Event("refresh-landed", write.seq)) \in WriteMachine
  <2>1. write.seq \in Nat
    BY DEF WriteMachine
  <2> QED BY <2>1, LoopEventTyped
<1>2. CASE Land
  <2>1. TypeOK' /\ StoresStay
    BY <1>1, <1>2 DEF Land, stores, pending, StoresStay
  <2> QED BY <2>1, StoresStaying
<1>3. CASE Tick
  <2>1. attempts' \in 0 .. MaxAttempts
    BY <1>3 DEF Tick
  <2>2. TypeOK' /\ StoresStay
    BY <1>3, <2>1 DEF Tick, stores, pending, StoresStay
  <2> QED BY <2>2, StoresStaying
<1>4. CASE GiveUp
  <2>1. write' \in WriteMachine /\ attempts' \in 0 .. MaxAttempts
    BY <1>1, <1>4, MachineTyped DEF GiveUp
  <2>2. TypeOK' /\ StoresStay
    BY <1>4, <2>1 DEF GiveUp, stores, pending, StoresStay
  <2> QED BY <2>2, StoresStaying
<1> QED BY <1>2, <1>3, <1>4

LEMMA CssStutters == CssInv /\ UNCHANGED vars => CssInv'
<1> SUFFICES ASSUME CssInv, UNCHANGED vars PROVE CssInv'
  OBVIOUS
<1>1. TypeOK' /\ StoresStay
  BY CssTypeInParts, CssTypeInPartsNext
     DEF CssInv, vars, stores, pending, loop, StoresStay
<1> QED BY <1>1, StoresStaying

LEMMA CssStepPreserves == CssInv /\ [Next]_vars => CssInv'
<1> SUFFICES ASSUME CssInv, Next \/ UNCHANGED vars PROVE CssInv'
  OBVIOUS
<1>1. CASE UserStep
  BY <1>1, SchedulingPreserves, UndoPreserves, ShellResetPreserves DEF UserStep
<1>2. CASE \E k \in Keys : Fire(k)
  BY <1>2, SchedulingPreserves
<1>3. CASE TaskStep
  BY <1>3, TurnsPreserve, RefusalsPreserve, SubmitPreserves,
     SettleCommittedPreserves,
     SettleRefusedPreserves, SettleUncertainPreserves, RefreshPreserves DEF TaskStep
<1>4. CASE \E answer \in Answers \ {"lost"} : Execute(answer)
  BY <1>4, ExecutePreserves
<1>5. CASE ExecuteLate
  BY <1>5, ExecuteLatePreserves
<1>6. CASE \/ \E text \in Outside : ForeignWrite(text)
           \/ Invalidate
  BY <1>6, OutsidePreserves
<1>7. CASE FetchStep
  BY <1>7, FetchReadPreserves, FetchLandPreserves, OutsidePreserves DEF FetchStep
<1>8. CASE Land \/ Tick \/ GiveUp
  BY <1>8, LandingPreserves
<1>9. CASE UNCHANGED vars
  BY <1>9, CssStutters
<1> QED BY <1>1, <1>2, <1>3, <1>4, <1>5, <1>6, <1>7, <1>8, <1>9 DEF Next

-----------------------------------------------------------------------------

\* The sidebar's inductive invariant holds in every state.
THEOREM CssInvariant == Spec => []CssInv
<1> QED BY CssInitially, CssStepPreserves, PTL DEF Spec

\* The stores, the queue, the task and the write loop stay in their types (TypeOK).
THEOREM CssTypeCorrect == Spec => []TypeOK
<1>1. CssInv => TypeOK
  BY DEF CssInv
<1> QED BY <1>1, CssInvariant, PTL

\* What the shell remembers between edits is true while the session lasts: the
\* anchor's text is the one its grant's baseline names; after the session no
\* text, grant or undo entry remains and no splice can be planned (anchor and undo
\* stores, submitSplice, the shell reset).
THEOREM CssStoresTrue == Spec => []StoresTrue
<1>1. CssInv => StoresTrue
  BY DEF CssInv, StoresTrue, NothingAfterReset, ResetIsFinal, Plans
<1> QED BY <1>1, CssInvariant, PTL

\* A commit replaces the bytes its splice was planned over: one rule's declaration,
\* and the edited rule's when the records were of the anchor's text, whatever
\* fetches, foreign writes, lost answers and late executions come between the plan
\* and it (planDeclarationSplice, submitSplice, the splice oracle of
\* continueCommitted).
THEOREM CssOneRulePerCommit == Spec => OneRulePerCommit
<1> DEFINE OneRule ==
      /\ (\E answer \in Answers : Execute(answer)) /\ disk' # disk => SplicesItsOwn(edit)
      /\ ExecuteLate /\ disk' # disk => SplicesItsOwn(late)
<1>1. ASSUME NEW e, PlanTrue(e), disk = e.base, disk' = EditText(e)
      PROVE  SplicesItsOwn(e)
  BY <1>1 DEF PlanTrue, EditText, SplicesItsOwn
<1>2. CssInv => OneRule
  <2> SUFFICES ASSUME CssInv PROVE OneRule
    OBVIOUS
  <2>1. ASSUME NEW answer \in Answers, Execute(answer), disk' # disk PROVE SplicesItsOwn(edit)
    BY <1>1, <2>1, ExecuteWrites DEF CssInv
  <2>2. ASSUME ExecuteLate, disk' # disk PROVE SplicesItsOwn(late)
    BY <1>1, <2>2 DEF CssInv, ExecuteLate
  <2> QED BY <2>1, <2>2
<1>3. CssInv /\ [Next]_vars => [OneRule]_vars
  BY <1>2
<1> QED BY <1>3, CssInvariant, PTL DEF Spec, OneRulePerCommit

-----------------------------------------------------------------------------
(* The event streams.                                                      *)

\* A generation is a session of the past or the present: minted, and no longer
\* an attempt.
Held(g) == g <= nextGen /\ (attempt # 0 => g # attempt)

Minted ==
  /\ attempt \in {0, nextGen} /\ \A g \in 1..nextGen : projOf[g] \in Projects
  /\ Held(active) /\ seat \in {0, active}
  /\ \A g \in revoked \cup bound : Held(g)
  /\ \A t \in Tabs : Held(tab[t].doc)

\* A session is revoked while its transition runs, and its host is retired then.
TransitionRevokes ==
  /\ active \in revoked <=> trans # NoTransition
  /\ trans # NoTransition => active = trans.old /\ routed[projOf[active]] = 0

\* One binding at most, installed with its lease; the seat comes after both.
BoundIsRouted ==
  /\ \A g, h \in bound : g = h
  /\ \A g \in bound : routed[projOf[g]] = g \/ (g = active /\ g \in revoked)
  /\ seat # 0 => seat \in bound

\* A document of the active session holds the cookie the session's commit minted.
JarsFit ==
  /\ active # 0 => hostCap[projOf[active]] = active
  /\ \A t \in Shells :
       /\ tab[t].loop # "none" => tab[t].doc # 0
       /\ active # 0 /\ tab[t].doc = active => jar[projOf[active]] = active
  /\ \A t \in Launchers : tab[t].doc = 0

\* A registered stream is of a session not revoked, under an installed binding.
LiveIsHeld ==
  \A id \in live :
    /\ conn[id].sess = conn[id].cap /\ conn[id].sess \notin revoked
    /\ conn[id].host = "launcher" \/ conn[id].cap \in bound

\* The sink tolerates Pending frames and ends the connection with the next.
Tolerated == \A id \in ConnIds : conn[id].ended \/ conn[id].out <= Pending

StreamInv ==
  /\ StreamTypeOK /\ Minted /\ TransitionRevokes /\ BoundIsRouted
  /\ JarsFit /\ LiveIsHeld /\ Tolerated

-----------------------------------------------------------------------------
(* Types.                                                                  *)

TransRec == [old : Gens0, goal : {"none", "switch", "deactivation"}, by : Shells \cup {None}]

LEMMA StreamTypeInParts ==
  StreamTypeOK <=>
    /\ active \in Gens0 /\ attempt \in Gens0 /\ nextGen \in Gens0
    /\ projOf \in [Gens -> Projects \cup {None}]
    /\ lastPair \in Gens0 /\ trans \in TransRec
    /\ seat \in Gens0 /\ bound \subseteq Gens /\ running \subseteq Gens
    /\ hostCap \in [Projects -> Gens0] /\ routed \in [Projects -> Gens0]
    /\ revoked \subseteq Gens /\ watermark \in Gens0
    /\ live \subseteq ConnIds /\ conn \in [ConnIds -> Conn]
    /\ tab \in [Tabs -> Tab] /\ jar \in [Projects -> Gens0]
BY DEF StreamTypeOK, TransRec

\* The same of the next state.
LEMMA StreamTypeInPartsNext ==
  StreamTypeOK' <=>
    /\ active' \in Gens0 /\ attempt' \in Gens0 /\ nextGen' \in Gens0
    /\ projOf' \in [Gens -> Projects \cup {None}]
    /\ lastPair' \in Gens0 /\ trans' \in TransRec
    /\ seat' \in Gens0 /\ bound' \subseteq Gens /\ running' \subseteq Gens
    /\ hostCap' \in [Projects -> Gens0] /\ routed' \in [Projects -> Gens0]
    /\ revoked' \subseteq Gens /\ watermark' \in Gens0
    /\ live' \subseteq ConnIds /\ conn' \in [ConnIds -> Conn]
    /\ tab' \in [Tabs -> Tab] /\ jar' \in [Projects -> Gens0]
BY DEF StreamTypeOK, TransRec

LEMMA GenerationsTyped ==
  /\ MaxGen \in Nat /\ Pending \in Nat
  /\ 0 \in Gens0 /\ Gens \subseteq Gens0 /\ 0 \notin Gens /\ \A g \in Gens0 : g # 0 => g \in Gens
BY StreamAssumption DEF Gens, Gens0

LEMMA MintedFacts ==
  ASSUME StreamInv
  PROVE  /\ nextGen \in Nat /\ nextGen <= MaxGen
         /\ \A g \in Gens0 : g \in Nat /\ g <= MaxGen
         /\ \A g \in Gens0 : g # 0 /\ g <= nextGen => projOf[g] \in Projects
         /\ active # 0 => active \in Gens /\ projOf[active] \in Projects
         /\ attempt # 0 => attempt \in Gens /\ projOf[attempt] \in Projects /\ attempt # active
<1>1. nextGen \in Gens0 /\ active \in Gens0 /\ attempt \in Gens0
  BY StreamTypeInParts DEF StreamInv
<1>2. nextGen \in Nat /\ nextGen <= MaxGen /\ \A g \in Gens0 : g \in Nat /\ g <= MaxGen
  BY <1>1, GenerationsTyped DEF Gens0
<1>3. \A g \in Gens0 : g # 0 /\ g <= nextGen => projOf[g] \in Projects
  BY <1>2 DEF StreamInv, Minted
<1>4. active <= nextGen /\ (attempt # 0 => attempt = nextGen /\ attempt # active)
  BY DEF StreamInv, Minted, Held
<1> QED BY <1>1, <1>2, <1>3, <1>4, GenerationsTyped

-----------------------------------------------------------------------------
(* Connections.                                                            *)

\* What the sink's tolerance leaves.
Calm(c) == c.ended \/ c.out <= Pending
CalmConns(cs) == cs \in [ConnIds -> Conn] /\ \A id \in ConnIds : Calm(cs[id])
SameOwner(c, d) == c.cap = d.cap /\ c.sess = d.sess /\ c.host = d.host

\* No frame of a revoked generation was written.
Silent == \A id \in ConnIds : conn'[id].out > conn[id].out => watermark' \notin revoked'

LEMMA ConnsAreCalm == StreamInv => CalmConns(conn)
BY StreamTypeInParts DEF StreamInv, Tolerated, CalmConns, Calm

LEMMA NoConnIsCalm == NoConn \in Conn /\ Calm(NoConn) /\ NoConn.out = 0
BY GenerationsTyped DEF NoConn, Conn, Calm

LEMMA SinkTolerates ==
  ASSUME NEW c \in Conn, Calm(c)
  PROVE  Sunk(c) \in Conn /\ Calm(Sunk(c)) /\ SameOwner(Sunk(c), c)
<1>1. CASE c.ended \/ c.gone
  BY <1>1 DEF Sunk, SameOwner
<1>2. CASE ~c.ended /\ ~c.gone
  <2> DEFINE n == c.out + 1
             full == c.out >= Pending
             d == [c EXCEPT !.out = n, !.ended = full]
  <2>1. c.out \in Nat /\ c.out <= Pending /\ Pending \in Nat
    BY <1>2, GenerationsTyped DEF Conn, Calm
  <2>2. n \in 0..Pending + 1 /\ full \in BOOLEAN /\ (full \/ n <= Pending)
    BY <2>1
  <2>3. Sunk(c) = d
    BY <1>2 DEF Sunk
  <2> HIDE DEF n, full
  <2>4. /\ d \in Conn /\ d.out = n /\ d.ended = full
        /\ d.cap = c.cap /\ d.sess = c.sess /\ d.host = c.host
    BY <2>2 DEF Conn
  <2> HIDE DEF d
  <2> QED BY <2>2, <2>3, <2>4 DEF Calm, SameOwner
<1> QED BY <1>1, <1>2

LEMMA EndingIsCalm ==
  ASSUME NEW c \in Conn, Calm(c)
  PROVE  EndOne(c) \in Conn /\ Calm(EndOne(c)) /\ EndOne(c).out <= c.out
<1>1. c.out \in Nat
  BY GenerationsTyped DEF Conn
<1>2. CASE c.gone
  BY <1>1, <1>2, NoConnIsCalm DEF EndOne
<1>3. CASE ~c.gone
  <2> DEFINE d == [c EXCEPT !.ended = TRUE]
  <2>1. d \in Conn /\ d.out = c.out /\ d.ended
    BY DEF Conn
  <2>2. EndOne(c) = d
    BY <1>3 DEF EndOne
  <2> HIDE DEF d
  <2> QED BY <1>1, <2>1, <2>2 DEF Calm
<1> QED BY <1>2, <1>3

LEMMA EndedConns ==
  ASSUME NEW cs, CalmConns(cs), NEW ids
  PROVE  /\ CalmConns(Ended(cs, ids))
         /\ \A id \in ConnIds : /\ Ended(cs, ids)[id].out <= cs[id].out
                                /\ id \notin ids => Ended(cs, ids)[id] = cs[id]
<1>1. \A id \in ConnIds : Ended(cs, ids)[id] = IF id \in ids THEN EndOne(cs[id]) ELSE cs[id]
  BY DEF Ended
<1>2. \A id \in ConnIds : cs[id] \in Conn /\ Calm(cs[id]) /\ cs[id].out \in Nat
  BY GenerationsTyped DEF CalmConns, Conn
<1>3. \A id \in ConnIds : /\ Ended(cs, ids)[id] \in Conn /\ Calm(Ended(cs, ids)[id])
                          /\ Ended(cs, ids)[id].out <= cs[id].out
  BY <1>1, <1>2, EndingIsCalm
<1>4. Ended(cs, ids) = [id \in ConnIds |-> Ended(cs, ids)[id]]
  BY DEF Ended
<1> QED BY <1>1, <1>3, <1>4 DEF CalmConns

\* A publication writes frames of a generation that is not revoked.
LEMMA PublishedConns ==
  ASSUME NEW cs, CalmConns(cs), NEW ids, NEW gone, NEW kind, NEW gen \in Gens0,
         watermark \in Gens0, Publish(cs, ids, gone, kind, gen)
  PROVE  /\ CalmConns(conn') /\ watermark' \in Gens0
         /\ \A id \in ConnIds : /\ SameOwner(conn'[id], cs[id])
                                /\ conn'[id].out > cs[id].out => watermark' \notin gone
<1>1. CASE gen = 0 \/ StalePublication(gone, gen)
  <2>1. conn' = cs /\ watermark' = watermark
    BY <1>1 DEF Publish
  <2>2. \A id \in ConnIds : cs[id].out \in Nat
    BY GenerationsTyped DEF CalmConns, Conn
  <2>3. \A id \in ConnIds : ~(cs[id].out > cs[id].out)
    BY <2>2
  <2> QED BY <2>1, <2>3 DEF SameOwner
<1>2. CASE gen # 0 /\ ~StalePublication(gone, gen)
  <2>1. /\ conn' = [id \in ConnIds |-> IF id \in ids /\ Addressed(cs[id], kind, gen)
                                       THEN Sunk(cs[id]) ELSE cs[id]]
        /\ watermark' = gen
    BY <1>2 DEF Publish
  <2>2. gen \notin gone
    BY <1>2 DEF StalePublication
  <2>3. \A id \in ConnIds : cs[id] \in Conn /\ Calm(cs[id])
    BY DEF CalmConns
  <2>4. \A id \in ConnIds : /\ conn'[id] \in Conn /\ Calm(conn'[id])
                            /\ SameOwner(conn'[id], cs[id])
    BY <2>1, <2>3, SinkTolerates DEF SameOwner
  <2>5. conn' = [id \in ConnIds |-> conn'[id]]
    BY <2>1
  <2> QED BY <2>1, <2>2, <2>4, <2>5 DEF CalmConns
<1> QED BY <1>1, <1>2

LEMMA PublishedState ==
  ASSUME NEW cs, CalmConns(cs), NEW ids, NEW gone, NEW act \in Gens0, NEW att \in Gens0,
         watermark \in Gens0, lastPair \in Gens0, PublishState(cs, ids, gone, act, att)
  PROVE  /\ CalmConns(conn') /\ watermark' \in Gens0 /\ lastPair' \in Gens0
         /\ \A id \in ConnIds : /\ SameOwner(conn'[id], cs[id])
                                /\ conn'[id].out > cs[id].out => watermark' \notin gone
<1> DEFINE pair == CASE act # 0 -> act [] att # 0 -> att [] OTHER -> lastPair
<1>1. pair \in {act, att, lastPair}
  OBVIOUS
<1>2. pair \in Gens0
  BY <1>1
<1> HIDE DEF pair
<1>3. lastPair' = pair /\ Publish(cs, ids, gone, "state", pair)
  BY DEF PublishState, pair
<1> QED BY <1>2, <1>3, PublishedConns

LEMMA AbandonedConns ==
  ASSUME NEW t, CalmConns(conn)
  PROVE  /\ CalmConns(Abandoned(conn, t))
         /\ \A id \in ConnIds : /\ Abandoned(conn, t)[id].out <= conn[id].out
                                /\ id \in live => SameOwner(Abandoned(conn, t)[id], conn[id])
<1> DEFINE cs == Abandoned(conn, t)
<1>1. \A id \in ConnIds : conn[id] \in Conn /\ Calm(conn[id]) /\ conn[id].out \in Nat
  BY GenerationsTyped DEF CalmConns, Conn
<1>2. \A id \in ConnIds :
        cs[id] = IF id = tab[t].conn
                 THEN IF id \in live THEN [conn[id] EXCEPT !.gone = TRUE, !.out = 0] ELSE NoConn
                 ELSE conn[id]
  BY DEF Abandoned
<1>3. ASSUME NEW id \in ConnIds
      PROVE  /\ cs[id] \in Conn /\ Calm(cs[id]) /\ cs[id].out <= conn[id].out
             /\ id \in live => SameOwner(cs[id], conn[id])
  <2>1. CASE id # tab[t].conn
    <3>1. cs[id] = conn[id]
      BY <1>2, <2>1
    <3>2. conn[id].out <= conn[id].out
      BY <1>1
    <3> HIDE DEF cs
    <3> QED BY <1>1, <3>1, <3>2 DEF SameOwner
  <2>2. CASE id = tab[t].conn /\ id \notin live
    <3>1. cs[id] = NoConn
      BY <1>2, <2>2
    <3> HIDE DEF cs
    <3> QED BY <1>1, <2>2, <3>1, NoConnIsCalm
  <2>3. CASE id = tab[t].conn /\ id \in live
    <3> DEFINE d == [conn[id] EXCEPT !.gone = TRUE, !.out = 0]
    <3>1. conn[id] \in Conn /\ 0 \in 0..Pending + 1
      BY <1>1, GenerationsTyped
    <3>2. /\ d \in Conn /\ d.out = 0 /\ d.cap = conn[id].cap /\ d.sess = conn[id].sess
          /\ d.host = conn[id].host
      BY <3>1 DEF Conn
    <3>3. cs[id] = d
      BY <1>2, <2>3
    <3> HIDE DEF d, cs
    <3> QED BY <1>1, <3>2, <3>3, GenerationsTyped DEF Calm, SameOwner
  <2> QED BY <2>1, <2>2, <2>3
<1>4. cs = [id \in ConnIds |-> cs[id]]
  BY DEF Abandoned
<1> QED BY <1>3, <1>4 DEF CalmConns

\* Streams that stay registered stay held.
LEMMA LiveStaysHeld ==
  ASSUME LiveIsHeld, live' \subseteq live, UNCHANGED revoked, bound \subseteq bound',
         \A id \in live' : SameOwner(conn'[id], conn[id])
  PROVE  LiveIsHeld'
BY DEF LiveIsHeld, SameOwner

\* A step after which no connection holds more frames than before.
LEMMA FewerFrames ==
  ASSUME CalmConns(conn), CalmConns(conn'), \A id \in ConnIds : conn'[id].out <= conn[id].out
  PROVE  Silent
<1>1. \A id \in ConnIds : conn[id].out \in Nat /\ conn'[id].out \in Nat
  BY GenerationsTyped DEF CalmConns, Conn
<1> QED BY <1>1 DEF Silent

-----------------------------------------------------------------------------
(* The session's steps.                                                    *)

LEMMA StreamInitially == StreamInit => StreamInv
<1> SUFFICES ASSUME StreamInit PROVE StreamInv
  OBVIOUS
<1>1. NoTransition \in TransRec /\ NoTransition.old = 0
  BY GenerationsTyped DEF NoTransition, TransRec
<1>2. Closed \in Tab /\ Closed.doc = 0 /\ Closed.loop = "none"
  BY GenerationsTyped DEF Closed, Tab
<1>3. conn \in [ConnIds -> Conn] /\ \A id \in ConnIds : Calm(conn[id])
  BY NoConnIsCalm DEF StreamInit
<1>4. tab \in [Tabs -> Tab] /\ \A t \in Tabs : tab[t] = Closed
  BY <1>2 DEF StreamInit
<1>5. /\ hostCap \in [Projects -> Gens0] /\ routed \in [Projects -> Gens0]
      /\ jar \in [Projects -> Gens0] /\ projOf \in [Gens -> Projects \cup {None}]
  BY GenerationsTyped DEF StreamInit
<1>6. StreamTypeOK
  BY <1>1, <1>3, <1>4, <1>5, GenerationsTyped, StreamTypeInParts DEF StreamInit
<1>7. Minted
  BY <1>2, <1>4 DEF StreamInit, Minted, Held
<1>8. TransitionRevokes /\ BoundIsRouted
  BY DEF StreamInit, TransitionRevokes, BoundIsRouted
<1>9. JarsFit
  BY <1>2, <1>4 DEF StreamInit, JarsFit, Tabs
<1>10. LiveIsHeld /\ Tolerated
  BY <1>3 DEF StreamInit, LiveIsHeld, Tolerated, Calm
<1> QED BY <1>6, <1>7, <1>8, <1>9, <1>10 DEF StreamInv

\* What a session step's publication leaves: the connections calm, the pair and
\* the watermark typed, nothing revoked written.
LEMMA StateStep ==
  ASSUME StreamInv, NEW act \in Gens0, NEW att \in Gens0,
         PublishState(conn, live', revoked', act, att)
  PROVE  /\ conn' \in [ConnIds -> Conn] /\ Tolerated' /\ Silent
         /\ watermark' \in Gens0 /\ lastPair' \in Gens0
         /\ \A id \in ConnIds : SameOwner(conn'[id], conn[id])
<1>1. CalmConns(conn) /\ watermark \in Gens0 /\ lastPair \in Gens0
  BY ConnsAreCalm, StreamTypeInParts DEF StreamInv
<1>2. /\ CalmConns(conn') /\ watermark' \in Gens0 /\ lastPair' \in Gens0
      /\ \A id \in ConnIds : /\ SameOwner(conn'[id], conn[id])
                             /\ conn'[id].out > conn[id].out => watermark' \notin revoked'
  BY <1>1, PublishedState
<1> QED BY <1>2 DEF CalmConns, Calm, Tolerated, Silent

LEMMA BeginPreserves ==
  ASSUME StreamInv, NEW p \in Projects, Begin(p)
  PROVE  StreamInv' /\ Silent
<1> USE StreamTypeInParts, StreamTypeInPartsNext
<1>1. /\ nextGen' = nextGen + 1 /\ attempt' = nextGen + 1 /\ attempt = 0
      /\ projOf' = [projOf EXCEPT ![nextGen + 1] = p]
      /\ UNCHANGED <<active, authorityVars, revoked, live, clientVars>>
  BY DEF Begin
<1>2. nextGen + 1 \in Gens /\ nextGen + 1 \in Gens0 /\ nextGen \in Nat
  <2>1. nextGen \in Nat /\ nextGen < MaxGen /\ MaxGen \in Nat
    BY MintedFacts, GenerationsTyped DEF Begin
  <2> QED BY <2>1 DEF Gens, Gens0
<1>3. /\ conn' \in [ConnIds -> Conn] /\ Tolerated' /\ Silent
      /\ watermark' \in Gens0 /\ lastPair' \in Gens0
      /\ \A id \in ConnIds : SameOwner(conn'[id], conn[id])
  <2>1. PublishState(conn, live', revoked', active, nextGen + 1) /\ active \in Gens0
    BY <1>1 DEF Begin, StreamInv
  <2> QED BY <1>2, <2>1, StateStep
<1>4. StreamTypeOK'
  BY <1>1, <1>2, <1>3 DEF StreamInv, authorityVars, clientVars
<1>5. projOf' \in [Gens -> Projects \cup {None}] /\ projOf'[nextGen + 1] = p
  BY <1>1, <1>2 DEF StreamInv
<1>6. \A g \in Gens0 : g <= nextGen => g # nextGen + 1 /\ Held(g)' /\ projOf'[g] = projOf[g]
  BY <1>1, <1>2, MintedFacts DEF Held, StreamInv
<1>7. \A g \in Gens0 : Held(g) => g <= nextGen
  BY DEF Held
<1>8. Minted'
  <2>1. \A g \in 1..nextGen' : projOf'[g] \in Projects
    <3> TAKE g \in 1..nextGen'
    <3>1. CASE g = nextGen + 1
      BY <1>5, <3>1
    <3>2. CASE g # nextGen + 1
      <4>1. g \in Gens0 /\ g <= nextGen /\ g # 0
        BY <1>1, <1>2, <3>2, MintedFacts, GenerationsTyped DEF Gens0
      <4> QED BY <1>6, <4>1, MintedFacts
    <3> QED BY <3>1, <3>2
  <2>2. /\ \A g \in revoked \cup bound : g \in Gens0 /\ Held(g)
        /\ \A t \in Tabs : tab[t].doc \in Gens0 /\ Held(tab[t].doc)
        /\ active \in Gens0 /\ Held(active) /\ seat \in {0, active}
    BY GenerationsTyped DEF StreamInv, Minted, Tab
  <2>3. UNCHANGED <<revoked, bound, tab, active, seat>>
    BY <1>1 DEF authorityVars, clientVars
  <2> QED BY <1>1, <1>6, <1>7, <2>1, <2>2, <2>3 DEF Minted
<1>9. \A g \in revoked \cup bound : projOf'[g] = projOf[g]
  BY <1>6, <1>7, GenerationsTyped DEF StreamInv, Minted
<1>10. projOf'[active] = projOf[active]
  BY <1>6, <1>7 DEF StreamInv, Minted
<1>11. TransitionRevokes' /\ BoundIsRouted'
  BY <1>1, <1>9, <1>10 DEF StreamInv, TransitionRevokes, BoundIsRouted, authorityVars
<1>12. JarsFit'
  BY <1>1, <1>10 DEF StreamInv, JarsFit, authorityVars, clientVars
<1>13. LiveIsHeld'
  BY <1>1, <1>3, <1>4, LiveStaysHeld DEF StreamInv, authorityVars
<1> QED BY <1>3, <1>4, <1>8, <1>11, <1>12, <1>13 DEF StreamInv

LEMMA AttemptFailsPreserves ==
  ASSUME StreamInv, AttemptFails
  PROVE  StreamInv' /\ Silent
<1> USE StreamTypeInParts, StreamTypeInPartsNext
<1>1. /\ attempt' = 0
      /\ UNCHANGED <<active, nextGen, projOf, authorityVars, revoked, live, clientVars>>
  BY DEF AttemptFails
<1>2. /\ conn' \in [ConnIds -> Conn] /\ Tolerated' /\ Silent
      /\ watermark' \in Gens0 /\ lastPair' \in Gens0
      /\ \A id \in ConnIds : SameOwner(conn'[id], conn[id])
  <2>1. PublishState(conn, live', revoked', active, 0) /\ active \in Gens0 /\ 0 \in Gens0
    BY <1>1, GenerationsTyped DEF AttemptFails, StreamInv
  <2> QED BY <2>1, StateStep
<1>3. StreamTypeOK'
  BY <1>1, <1>2, GenerationsTyped DEF StreamInv, authorityVars, clientVars
<1>4. Minted'
  BY <1>1 DEF StreamInv, Minted, Held, authorityVars, clientVars
<1>5. TransitionRevokes' /\ BoundIsRouted'
  BY <1>1 DEF StreamInv, TransitionRevokes, BoundIsRouted, authorityVars
<1>6. JarsFit'
  BY <1>1 DEF StreamInv, JarsFit, authorityVars, clientVars
<1>7. LiveIsHeld'
  BY <1>1, <1>2, <1>3, LiveStaysHeld DEF StreamInv, authorityVars
<1> QED BY <1>2, <1>3, <1>4, <1>5, <1>6, <1>7 DEF StreamInv

LEMMA CommitFirstPreserves ==
  ASSUME StreamInv, CommitFirst
  PROVE  StreamInv' /\ Silent
<1> USE StreamTypeInParts, StreamTypeInPartsNext
<1>1. /\ attempt # 0 /\ active = 0 /\ trans = NoTransition
      /\ active' = attempt /\ attempt' = 0
      /\ hostCap' = [hostCap EXCEPT ![projOf[attempt]] = attempt]
      /\ UNCHANGED <<nextGen, projOf, trans, seat, bound, routed, running,
                     revoked, live, clientVars>>
  BY DEF CommitFirst
<1>2. attempt \in Gens /\ attempt \in Gens0 /\ projOf[attempt] \in Projects
  BY <1>1, MintedFacts, GenerationsTyped DEF StreamInv
<1>3. /\ conn' \in [ConnIds -> Conn] /\ Tolerated' /\ Silent
      /\ watermark' \in Gens0 /\ lastPair' \in Gens0
      /\ \A id \in ConnIds : SameOwner(conn'[id], conn[id])
  <2>1. PublishState(conn, live', revoked', attempt, 0) /\ 0 \in Gens0
    BY <1>1, GenerationsTyped DEF CommitFirst
  <2> QED BY <1>2, <2>1, StateStep
<1>4. StreamTypeOK'
  BY <1>1, <1>2, <1>3, GenerationsTyped DEF StreamInv, clientVars
<1>5. /\ seat = 0 /\ attempt \notin revoked \cup bound /\ attempt = nextGen
      /\ \A t \in Tabs : tab[t].doc # attempt
  BY <1>1 DEF StreamInv, Minted, Held
<1>6. Minted'
  <2>1. attempt <= nextGen
    BY <1>5, MintedFacts
  <2> QED BY <1>1, <1>5, <2>1 DEF StreamInv, Minted, Held, clientVars
<1>7. TransitionRevokes' /\ BoundIsRouted'
  <2>1. active \notin bound
    BY <1>1, GenerationsTyped DEF StreamInv
  <2> QED BY <1>1, <1>5, <2>1 DEF StreamInv, TransitionRevokes, BoundIsRouted
<1>8. JarsFit'
  <2>1. hostCap'[projOf[attempt]] = attempt
    BY <1>1, <1>2 DEF StreamInv
  <2> QED BY <1>1, <1>5, <2>1 DEF StreamInv, JarsFit, clientVars, Tabs
<1>9. LiveIsHeld'
  BY <1>1, <1>3, <1>4, LiveStaysHeld DEF StreamInv
<1> QED BY <1>3, <1>4, <1>6, <1>7, <1>8, <1>9 DEF StreamInv

\* A step that neither publishes nor touches a connection or a document.
LEMMA QuietStep ==
  ASSUME StreamInv, UNCHANGED <<conn, live, revoked>>, bound \subseteq bound'
  PROVE  Silent /\ Tolerated' /\ LiveIsHeld'
<1>1. \A id \in ConnIds : conn[id].out \in Nat
  BY GenerationsTyped, StreamTypeInParts DEF StreamInv, Conn
<1>2. Silent
  BY <1>1 DEF Silent
<1>3. LiveIsHeld'
  BY LiveStaysHeld DEF StreamInv, SameOwner
<1> QED BY <1>2, <1>3 DEF StreamInv, Tolerated

LEMMA AdoptingPreserves ==
  ASSUME StreamInv, AdoptBind \/ AdoptSeat
  PROVE  StreamInv' /\ Silent
<1> USE StreamTypeInParts, StreamTypeInPartsNext
<1>1. /\ active # 0 /\ seat # active /\ trans = NoTransition
      /\ UNCHANGED <<supervisorVars, trans, hostCap, hubVars, clientVars>>
  BY DEF AdoptBind, AdoptSeat
<1>2. active \in Gens /\ active \in Gens0 /\ projOf[active] \in Projects /\ active \notin revoked
  BY <1>1, MintedFacts, GenerationsTyped DEF StreamInv, TransitionRevokes
<1>3. CASE AdoptBind
  <2>1. /\ bound = {} /\ bound' = {active} /\ UNCHANGED <<seat, running>>
        /\ routed' = [routed EXCEPT ![projOf[active]] = active]
    BY <1>3 DEF AdoptBind
  <2>2. StreamTypeOK'
    BY <1>1, <1>2, <2>1 DEF StreamInv, supervisorVars, hubVars, clientVars
  <2>3. routed'[projOf[active]] = active
    BY <1>2, <2>1 DEF StreamInv
  <2>4. Minted'
    BY <1>1, <2>1 DEF StreamInv, Minted, Held, supervisorVars, hubVars, clientVars
  <2>5. TransitionRevokes' /\ BoundIsRouted'
    BY <1>1, <1>2, <2>1, <2>3 DEF StreamInv, Minted, TransitionRevokes, BoundIsRouted,
                                  supervisorVars, hubVars
  <2>6. JarsFit'
    BY <1>1 DEF StreamInv, JarsFit, supervisorVars, clientVars
  <2> QED BY <1>1, <2>1, <2>2, <2>4, <2>5, <2>6, QuietStep DEF StreamInv, hubVars
<1>4. CASE AdoptSeat
  <2>1. active \in bound /\ seat' = active /\ running' = running \cup {active}
        /\ UNCHANGED <<bound, routed>>
    BY <1>4 DEF AdoptSeat
  <2>2. StreamTypeOK'
    BY <1>1, <1>2, <2>1 DEF StreamInv, supervisorVars, hubVars, clientVars
  <2>3. Minted'
    BY <1>1, <2>1 DEF StreamInv, Minted, Held, supervisorVars, hubVars, clientVars
  <2>4. TransitionRevokes' /\ BoundIsRouted'
    BY <1>1, <1>2, <2>1
       DEF StreamInv, TransitionRevokes, BoundIsRouted, supervisorVars, hubVars
  <2>5. JarsFit'
    BY <1>1 DEF StreamInv, JarsFit, supervisorVars, clientVars
  <2> QED BY <1>1, <2>1, <2>2, <2>3, <2>4, <2>5, QuietStep DEF StreamInv, hubVars
<1> QED BY <1>3, <1>4

\* The streams a revocation leaves registered are not of the revoked session.
LEMMA SurvivorsAreHeld ==
  ASSUME StreamInv, live' = live \ EndedBy(active), revoked' = revoked \cup {active},
         bound' = bound, \A id \in live' : SameOwner(conn'[id], conn[id])
  PROVE  LiveIsHeld'
<1>1. \A id \in live' : id \in live /\ conn[id].sess # active
  BY DEF EndedBy
<1> QED BY <1>1 DEF StreamInv, LiveIsHeld, SameOwner

LEMMA AdoptRefusedPreserves ==
  ASSUME StreamInv, AdoptRefused
  PROVE  StreamInv' /\ Silent
<1> USE StreamTypeInParts, StreamTypeInPartsNext
<1>1. /\ active # 0 /\ seat # active /\ trans = NoTransition /\ bound \ {active} # {}
      /\ revoked' = revoked \cup {active} /\ live' = live \ EndedBy(active)
      /\ active' = 0 /\ hostCap' = [hostCap EXCEPT ![projOf[active]] = 0]
      /\ PublishState(Ended(conn, EndedBy(active)), live', revoked', 0, attempt)
      /\ UNCHANGED <<attempt, nextGen, projOf, trans, seat, bound, routed, running, clientVars>>
  BY DEF AdoptRefused
<1>2. active \in Gens /\ projOf[active] \in Projects /\ seat = 0 /\ active \notin bound
  BY <1>1, MintedFacts DEF StreamInv, Minted, BoundIsRouted
<1>3. /\ CalmConns(conn) /\ CalmConns(Ended(conn, EndedBy(active)))
      /\ \A id \in ConnIds :
           /\ Ended(conn, EndedBy(active))[id].out <= conn[id].out
           /\ id \notin EndedBy(active) => Ended(conn, EndedBy(active))[id] = conn[id]
  BY ConnsAreCalm, EndedConns
<1> DEFINE cs == Ended(conn, EndedBy(active))
<1> HIDE DEF cs
<1>4. /\ CalmConns(conn') /\ watermark' \in Gens0 /\ lastPair' \in Gens0
      /\ \A id \in ConnIds : /\ SameOwner(conn'[id], cs[id])
                             /\ conn'[id].out > cs[id].out => watermark' \notin revoked'
  <2>1. 0 \in Gens0 /\ attempt \in Gens0 /\ watermark \in Gens0 /\ lastPair \in Gens0
    BY GenerationsTyped DEF StreamInv
  <2> QED BY <1>1, <1>3, <2>1, PublishedState DEF cs
<1>5. Silent
  <2>1. \A id \in ConnIds : conn[id].out \in Nat /\ cs[id].out \in Nat /\ conn'[id].out \in Nat
    BY <1>3, <1>4, GenerationsTyped DEF CalmConns, Conn, cs
  <2>2. \A id \in ConnIds : cs[id].out <= conn[id].out
    BY <1>3 DEF cs
  <2>3. \A id \in ConnIds : conn'[id].out > conn[id].out => conn'[id].out > cs[id].out
    BY <2>1, <2>2
  <2> QED BY <1>4, <2>3 DEF Silent
<1>6. StreamTypeOK'
  BY <1>1, <1>2, <1>4, GenerationsTyped DEF StreamInv, CalmConns, clientVars
<1>7. Minted'
  <2>1. Held(0)
    BY MintedFacts DEF Held
  <2> QED BY <1>1, <1>2, <2>1 DEF StreamInv, Minted, Held, clientVars
<1>8. TransitionRevokes' /\ BoundIsRouted'
  BY <1>1, <1>2, <1>6, GenerationsTyped DEF StreamInv, TransitionRevokes, BoundIsRouted
<1>9. JarsFit'
  BY <1>1 DEF StreamInv, JarsFit, clientVars
<1>10. LiveIsHeld'
  <2>1. \A id \in live' : id \in ConnIds /\ id \notin EndedBy(active)
    BY <1>1 DEF StreamInv
  <2>2. \A id \in live' : SameOwner(conn'[id], conn[id])
    BY <1>3, <1>4, <2>1 DEF cs
  <2> QED BY <1>1, <2>2, SurvivorsAreHeld
<1>11. Tolerated'
  BY <1>4 DEF CalmConns, Calm, Tolerated
<1> QED BY <1>5, <1>6, <1>7, <1>8, <1>9, <1>10, <1>11 DEF StreamInv

LEMMA RevokeStreamsPreserves ==
  ASSUME StreamInv, NEW goal \in {"switch", "deactivation"}, NEW t \in Shells \cup {None},
         RevokeStreams(goal, t)
  PROVE  StreamInv' /\ Silent
<1> USE StreamTypeInParts, StreamTypeInPartsNext
<1>1. /\ trans = NoTransition /\ active # 0 /\ seat = active
      /\ revoked' = revoked \cup {active} /\ live' = live \ EndedBy(active)
      /\ conn' = Ended(conn, EndedBy(active))
      /\ routed' = [routed EXCEPT ![projOf[active]] = 0]
      /\ trans' = [old |-> active, goal |-> goal, by |-> t]
      /\ UNCHANGED <<supervisorVars, seat, bound, hostCap, running, watermark, clientVars>>
  BY DEF RevokeStreams
<1>2. active \in Gens /\ projOf[active] \in Projects
  BY <1>1, MintedFacts
<1>3. /\ CalmConns(conn) /\ CalmConns(conn')
      /\ \A id \in ConnIds : /\ conn'[id].out <= conn[id].out
                             /\ id \notin EndedBy(active) => conn'[id] = conn[id]
  BY <1>1, ConnsAreCalm, EndedConns
<1>4. trans' \in TransRec /\ trans'.old = active /\ trans' # NoTransition
  BY <1>1, <1>2, GenerationsTyped DEF TransRec, NoTransition
<1>5. StreamTypeOK'
  BY <1>1, <1>2, <1>3, <1>4, GenerationsTyped
     DEF StreamInv, CalmConns, supervisorVars, clientVars
<1>6. Minted'
  BY <1>1 DEF StreamInv, Minted, Held, supervisorVars, clientVars
<1>7. TransitionRevokes'
  <2>1. routed'[projOf[active]] = 0
    BY <1>1, <1>2 DEF StreamInv
  <2> QED BY <1>1, <1>4, <2>1 DEF TransitionRevokes, supervisorVars
<1>8. BoundIsRouted'
  BY <1>1 DEF StreamInv, BoundIsRouted, supervisorVars
<1>9. JarsFit'
  BY <1>1 DEF StreamInv, JarsFit, supervisorVars, clientVars
<1>10. LiveIsHeld'
  <2>1. \A id \in live' : conn'[id] = conn[id]
    BY <1>1, <1>3 DEF StreamInv
  <2> QED BY <1>1, <2>1, SurvivorsAreHeld DEF SameOwner
<1>11. Tolerated'
  BY <1>3 DEF CalmConns, Calm, Tolerated
<1> QED BY <1>3, <1>5, <1>6, <1>7, <1>8, <1>9, <1>10, <1>11, FewerFrames DEF StreamInv

LEMMA RevokeRestPreserves ==
  ASSUME StreamInv, NEW committed \in BOOLEAN, RevokeRest(committed)
  PROVE  StreamInv' /\ Silent
<1> USE StreamTypeInParts, StreamTypeInPartsNext
<1> DEFINE next == IF trans.goal = "switch" /\ committed THEN attempt ELSE 0
           att  == IF trans.goal = "switch" THEN 0 ELSE attempt
           capped == [hostCap EXCEPT ![projOf[active]] = 0]
<1>1. trans # NoTransition /\ trans.old = active /\ active \in revoked
  BY DEF RevokeRest, StreamInv, TransitionRevokes
<1>2. /\ bound' = bound \ {active}
      /\ hostCap' = IF next = 0 THEN capped ELSE [capped EXCEPT ![projOf[next]] = next]
      /\ seat' = 0 /\ active' = next /\ attempt' = att /\ trans' = NoTransition
      /\ PublishState(conn, live, revoked, next, att)
      /\ tab' = IF trans.by = None THEN tab ELSE [tab EXCEPT ![trans.by].cur =
                  IF @ = active THEN 0 ELSE @]
      /\ UNCHANGED <<nextGen, projOf, routed, running, revoked, live, jar>>
  BY <1>1 DEF RevokeRest
<1>3. /\ next \in {0, attempt} /\ att \in {0, attempt} /\ (next # 0 => att = 0)
      /\ next \in Gens0 /\ att \in Gens0 /\ (next # 0 => next = attempt)
  BY GenerationsTyped DEF StreamInv
<1>4. capped \in [Projects -> Gens0]
  BY GenerationsTyped DEF StreamInv
<1> HIDE DEF next, att, capped
<1>5. next # 0 => projOf[next] \in Projects /\ next \notin revoked \cup bound
                  /\ \A t \in Tabs : tab[t].doc # next
  BY <1>3, MintedFacts DEF StreamInv, Minted, Held
<1>6. /\ conn' \in [ConnIds -> Conn] /\ Tolerated' /\ Silent
      /\ watermark' \in Gens0 /\ lastPair' \in Gens0
      /\ \A id \in ConnIds : SameOwner(conn'[id], conn[id])
  <2>1. PublishState(conn, live', revoked', next, att)
    BY <1>2
  <2> QED BY <1>3, <2>1, StateStep
<1>7. /\ tab' \in [Tabs -> Tab]
      /\ \A t \in Tabs : tab'[t].doc = tab[t].doc /\ tab'[t].loop = tab[t].loop
  <2>1. CASE trans.by = None
    BY <1>2, <2>1 DEF StreamInv
  <2>2. CASE trans.by # None
    <3> DEFINE c == IF tab[trans.by].cur = active THEN 0 ELSE tab[trans.by].cur
               d == [tab[trans.by] EXCEPT !.cur = c]
    <3>1. trans.by \in Tabs /\ tab \in [Tabs -> Tab]
      BY <2>2 DEF StreamInv, TransRec, Tabs
    <3>2. tab[trans.by] \in Tab
      BY <3>1
    <3>3. c \in Gens0
      BY <3>2, GenerationsTyped DEF Tab
    <3>4. tab' = [tab EXCEPT ![trans.by] = d]
      BY <1>2, <2>2
    <3> HIDE DEF c
    <3>5. d \in Tab /\ d.doc = tab[trans.by].doc /\ d.loop = tab[trans.by].loop
      BY <3>2, <3>3 DEF Tab
    <3> HIDE DEF d
    <3> QED BY <3>1, <3>4, <3>5
  <2> QED BY <2>1, <2>2
<1>8. hostCap' \in [Projects -> Gens0] /\ (next # 0 => hostCap'[projOf[next]] = next)
  BY <1>2, <1>3, <1>4, <1>5
<1>9. StreamTypeOK'
  <2>1. NoTransition \in TransRec
    BY GenerationsTyped DEF NoTransition, TransRec
  <2> QED BY <1>2, <1>3, <1>6, <1>7, <1>8, <2>1, GenerationsTyped DEF StreamInv
<1>10. Minted'
  <2>1. Held(0)'
    BY <1>2, MintedFacts DEF Held
  <2>2. \A g : Held(g) => Held(g)'
    BY <1>2, <1>3 DEF Held
  <2>3. Held(active)'
    <3>1. attempt \in {0, nextGen} /\ nextGen \in Nat
      BY MintedFacts DEF StreamInv, Minted
    <3>2. next <= nextGen /\ (att # 0 => next = 0)
      BY <1>3, <3>1
    <3> QED BY <1>2, <3>2 DEF Held
  <2> QED BY <1>2, <1>3, <1>7, <2>1, <2>2, <2>3 DEF StreamInv, Minted
<1>11. TransitionRevokes'
  <2>1. 0 \notin revoked
    BY GenerationsTyped DEF StreamInv
  <2> QED BY <1>2, <1>5, <2>1 DEF TransitionRevokes
<1>12. BoundIsRouted'
  BY <1>2 DEF StreamInv, BoundIsRouted
<1>13. JarsFit'
  BY <1>2, <1>5, <1>7, <1>8 DEF StreamInv, JarsFit, Tabs
<1>14. LiveIsHeld'
  <2>1. \A id \in live : conn[id].cap # active
    BY <1>1 DEF StreamInv, LiveIsHeld
  <2>2. live \subseteq ConnIds
    BY DEF StreamInv
  <2> QED BY <1>2, <1>6, <2>1, <2>2 DEF StreamInv, LiveIsHeld, SameOwner
<1> QED BY <1>6, <1>9, <1>10, <1>11, <1>12, <1>13, <1>14 DEF StreamInv

LEMMA CrashPreserves ==
  ASSUME StreamInv, Crash
  PROVE  StreamInv' /\ Silent
<1> USE StreamTypeInParts, StreamTypeInPartsNext
<1>1. /\ active # 0 /\ trans = NoTransition /\ active' = 0
      /\ running' = running \ {active} /\ seat' = IF seat = active THEN 0 ELSE seat
      /\ hostCap' = [hostCap EXCEPT ![projOf[active]] = 0]
      /\ UNCHANGED <<attempt, nextGen, projOf, trans, bound, routed, revoked, live, clientVars>>
  BY DEF Crash
<1>2. /\ conn' \in [ConnIds -> Conn] /\ Tolerated' /\ Silent
      /\ watermark' \in Gens0 /\ lastPair' \in Gens0
      /\ \A id \in ConnIds : SameOwner(conn'[id], conn[id])
  <2>1. PublishState(conn, live', revoked', 0, attempt) /\ attempt \in Gens0 /\ 0 \in Gens0
    BY <1>1, GenerationsTyped DEF Crash, StreamInv
  <2> QED BY <2>1, StateStep
<1>3. seat' = 0
  BY <1>1 DEF StreamInv, Minted
<1>4. StreamTypeOK'
  BY <1>1, <1>2, <1>3, GenerationsTyped DEF StreamInv, clientVars
<1>5. Minted'
  <2>1. Held(0)
    BY MintedFacts DEF Held
  <2> QED BY <1>1, <1>3, <2>1 DEF StreamInv, Minted, Held, clientVars
<1>6. TransitionRevokes' /\ BoundIsRouted'
  <2>1. 0 \notin revoked /\ active \notin revoked
    BY <1>1, GenerationsTyped DEF StreamInv, TransitionRevokes
  <2> QED BY <1>1, <1>3, <2>1 DEF StreamInv, TransitionRevokes, BoundIsRouted
<1>7. JarsFit'
  BY <1>1 DEF StreamInv, JarsFit, clientVars
<1>8. LiveIsHeld'
  BY <1>1, <1>2, <1>4, LiveStaysHeld DEF StreamInv
<1> QED BY <1>2, <1>4, <1>5, <1>6, <1>7, <1>8 DEF StreamInv

LEMMA RunEmitsPreserves ==
  ASSUME StreamInv, NEW g \in Gens, RunEmits(g)
  PROVE  StreamInv' /\ Silent
<1> USE StreamTypeInParts, StreamTypeInPartsNext
<1>1. /\ UNCHANGED <<supervisorVars, authorityVars, revoked, live, clientVars>>
      /\ Publish(conn, live, revoked, "invalidation", g)
  BY DEF RunEmits
<1>2. /\ CalmConns(conn') /\ watermark' \in Gens0
      /\ \A id \in ConnIds : /\ SameOwner(conn'[id], conn[id])
                             /\ conn'[id].out > conn[id].out => watermark' \notin revoked
  <2>1. CalmConns(conn) /\ g \in Gens0 /\ watermark \in Gens0
    BY ConnsAreCalm, GenerationsTyped DEF StreamInv
  <2> QED BY <1>1, <2>1, PublishedConns
<1>3. StreamTypeOK'
  BY <1>1, <1>2 DEF StreamInv, CalmConns, supervisorVars, authorityVars, clientVars
<1>4. Minted'
  BY <1>1 DEF StreamInv, Minted, Held, supervisorVars, authorityVars, clientVars
<1>5. TransitionRevokes' /\ BoundIsRouted'
  BY <1>1 DEF StreamInv, TransitionRevokes, BoundIsRouted, supervisorVars, authorityVars
<1>6. JarsFit'
  BY <1>1 DEF StreamInv, JarsFit, supervisorVars, authorityVars, clientVars
<1>7. LiveIsHeld'
  BY <1>1, <1>2, <1>3, LiveStaysHeld DEF StreamInv, authorityVars
<1>8. Tolerated' /\ Silent
  BY <1>1, <1>2 DEF CalmConns, Calm, Tolerated, Silent
<1> QED BY <1>3, <1>4, <1>5, <1>6, <1>7, <1>8 DEF StreamInv

-----------------------------------------------------------------------------
(* The documents' steps.                                                   *)

\* A step of a document's own: the session's authority stays.
AuthorityStays == UNCHANGED <<supervisorVars, authorityVars, revoked, watermark>>

LEMMA ClientStep1 ==
  ASSUME StreamInv, AuthorityStays, live' \subseteq ConnIds, CalmConns(conn'),
         \A id \in ConnIds : conn'[id].out <= conn[id].out,
         tab' \in [Tabs -> Tab], \A t \in Tabs : Held(tab'[t].doc),
         jar' \in [Projects -> Gens0], JarsFit', LiveIsHeld'
  PROVE  StreamInv' /\ Silent
<1> USE StreamTypeInParts, StreamTypeInPartsNext
<1>1. StreamTypeOK'
  BY DEF StreamInv, AuthorityStays, supervisorVars, authorityVars, CalmConns
<1>2. Minted'
  BY DEF StreamInv, Minted, Held, AuthorityStays, supervisorVars, authorityVars
<1>3. TransitionRevokes' /\ BoundIsRouted'
  BY DEF StreamInv, TransitionRevokes, BoundIsRouted, AuthorityStays, supervisorVars,
         authorityVars
<1>4. Tolerated' /\ Silent
  <2>1. Silent
    BY ConnsAreCalm, FewerFrames
  <2> QED BY <2>1 DEF CalmConns, Calm, Tolerated
<1> QED BY <1>1, <1>2, <1>3, <1>4 DEF StreamInv

\* A tab changes its loop, or starts over; what it shows stays or is gone.
LEMMA JarsStayFit ==
  ASSUME StreamInv, AuthorityStays, UNCHANGED jar,
         \A t \in Tabs : /\ tab'[t].doc \in {tab[t].doc, 0}
                         /\ tab'[t].loop # "none" /\ t \in Shells => tab'[t].doc = tab[t].doc
                         /\ tab'[t].loop # "none" /\ t \in Shells => tab[t].loop # "none"
  PROVE  JarsFit' /\ \A t \in Tabs : Held(tab'[t].doc)
<1>1. \A t \in Tabs : Held(tab'[t].doc)
  BY MintedFacts DEF StreamInv, Minted, Held
<1>2. JarsFit'
  BY DEF StreamInv, JarsFit, Tabs, AuthorityStays, supervisorVars, authorityVars
<1> QED BY <1>1, <1>2

LEMMA ClosedTyped == Closed \in Tab /\ Closed.doc = 0 /\ Closed.loop = "none"
BY GenerationsTyped DEF Closed, Tab

LEMMA LoadShellPreserves ==
  ASSUME StreamInv, NEW t \in Shells, LoadShell(t)
  PROVE  StreamInv' /\ Silent
<1> USE StreamTypeInParts, StreamTypeInPartsNext
<1> DEFINE d == [Closed EXCEPT !.doc = active, !.cur = active, !.loop = "fetch"]
<1>1. /\ active # 0 /\ AuthorityStays /\ live' = live
      /\ tab' = [tab EXCEPT ![t] = d]
      /\ jar' = [jar EXCEPT ![projOf[active]] = hostCap[projOf[active]]]
      /\ conn' = Abandoned(conn, t)
  BY DEF LoadShell, AuthorityStays
<1>2. active \in Gens0 /\ projOf[active] \in Projects /\ hostCap[projOf[active]] = active
  BY <1>1, MintedFacts DEF StreamInv, JarsFit
<1>3. d \in Tab /\ d.doc = active /\ d.loop = "fetch"
  BY <1>2 DEF Closed, Tab
<1> HIDE DEF d
<1>4. t \in Tabs /\ t \notin Launchers
  BY StreamAssumption DEF Tabs
<1>5. tab' \in [Tabs -> Tab] /\ tab'[t] = d /\ \A x \in Tabs : x # t => tab'[x] = tab[x]
  BY <1>1, <1>3, <1>4 DEF StreamInv
<1>6. jar' \in [Projects -> Gens0] /\ jar'[projOf[active]] = active
  BY <1>1, <1>2 DEF StreamInv
<1>7. \A x \in Tabs : Held(tab'[x].doc)
  BY <1>3, <1>5 DEF StreamInv, Minted
<1>8. JarsFit'
  BY <1>1, <1>2, <1>3, <1>4, <1>5, <1>6 DEF StreamInv, JarsFit, Tabs, AuthorityStays,
                                           supervisorVars, authorityVars
<1>9. /\ CalmConns(conn') /\ \A id \in ConnIds : conn'[id].out <= conn[id].out
      /\ \A id \in live : SameOwner(conn'[id], conn[id])
  BY <1>1, ConnsAreCalm, AbandonedConns DEF StreamInv
<1>10. LiveIsHeld'
  BY <1>1, <1>9, LiveStaysHeld DEF StreamInv, AuthorityStays, authorityVars
<1> QED BY <1>1, <1>5, <1>6, <1>7, <1>8, <1>9, <1>10, ClientStep1 DEF StreamInv

\* The tab's loop ends, fails or starts anew, and its connection is given up.
LEMMA GivingUpPreserves ==
  ASSUME StreamInv, NEW t \in Tabs, NEW d \in Tab, AuthorityStays, UNCHANGED <<live, jar>>,
         tab' = [tab EXCEPT ![t] = d], conn' = Abandoned(conn, t),
         d.doc \in {tab[t].doc, 0},
         d.loop # "none" => d.doc = tab[t].doc /\ tab[t].loop # "none"
  PROVE  StreamInv' /\ Silent
<1> USE StreamTypeInParts, StreamTypeInPartsNext
<1>1. tab' \in [Tabs -> Tab] /\ tab'[t] = d /\ \A x \in Tabs : x # t => tab'[x] = tab[x]
  BY DEF StreamInv
<1>2. JarsFit' /\ \A x \in Tabs : Held(tab'[x].doc)
  BY <1>1, JarsStayFit
<1>3. /\ CalmConns(conn') /\ \A id \in ConnIds : conn'[id].out <= conn[id].out
      /\ \A id \in live : SameOwner(conn'[id], conn[id])
  BY ConnsAreCalm, AbandonedConns DEF StreamInv
<1>4. LiveIsHeld'
  BY <1>3, LiveStaysHeld DEF StreamInv, AuthorityStays, authorityVars
<1> QED BY <1>1, <1>2, <1>3, <1>4, ClientStep1 DEF StreamInv

LEMMA LeavePreserves ==
  ASSUME StreamInv, NEW t \in Shells, Leave(t)
  PROVE  StreamInv' /\ Silent
<1>1. /\ tab' = [tab EXCEPT ![t] = Closed] /\ conn' = Abandoned(conn, t)
      /\ AuthorityStays /\ UNCHANGED <<live, jar>> /\ t \in Tabs
  BY DEF Leave, AuthorityStays, Tabs
<1> QED BY <1>1, ClosedTyped, GivingUpPreserves

LEMMA BreakPreserves ==
  ASSUME StreamInv, NEW t \in Shells, ConnectionBreaks(t)
  PROVE  StreamInv' /\ Silent
<1> DEFINE d == [tab[t] EXCEPT !.conn = None, !.loop = "failed"]
<1>1. /\ tab' = [tab EXCEPT ![t] = d] /\ conn' = Abandoned(conn, t)
      /\ AuthorityStays /\ UNCHANGED <<live, jar>> /\ t \in Tabs /\ tab[t].loop = "open"
  BY DEF ConnectionBreaks, AuthorityStays, Tabs
<1>2. tab[t] \in Tab
  BY <1>1, StreamTypeInParts DEF StreamInv
<1>3. d \in Tab /\ d.doc = tab[t].doc /\ d.loop = "failed"
  BY <1>2 DEF Tab
<1> HIDE DEF d
<1> QED BY <1>1, <1>3, GivingUpPreserves

LEMMA ReadEndPreserves ==
  ASSUME StreamInv, NEW t \in Tabs, ReadEnd(t)
  PROVE  StreamInv' /\ Silent
<1> DEFINE settled == IF t \in Launchers \/ tab[t].cur = tab[t].doc THEN "fetch" ELSE "stale"
           d == [tab[t] EXCEPT !.conn = None, !.loop = settled]
<1>1. /\ tab' = [tab EXCEPT ![t] = d] /\ conn' = Abandoned(conn, t)
      /\ AuthorityStays /\ UNCHANGED <<live, jar>> /\ tab[t].loop = "open"
  BY DEF ReadEnd, AuthorityStays
<1>2. tab[t] \in Tab /\ settled \in {"fetch", "stale"}
  BY <1>1, StreamTypeInParts DEF StreamInv
<1> HIDE DEF settled
<1>3. d \in Tab /\ d.doc = tab[t].doc /\ d.loop = settled
  BY <1>2 DEF Tab
<1> HIDE DEF d
<1> QED BY <1>1, <1>2, <1>3, GivingUpPreserves

LEMMA LoadLauncherPreserves ==
  ASSUME StreamInv, NEW t \in Launchers, LoadLauncher(t)
  PROVE  StreamInv' /\ Silent
<1> USE StreamTypeInParts, StreamTypeInPartsNext
<1> DEFINE d == [Closed EXCEPT !.loop = "fetch"]
<1>1. /\ tab' = [tab EXCEPT ![t] = d] /\ AuthorityStays
      /\ UNCHANGED <<live, conn, jar>> /\ t \in Tabs /\ t \notin Shells
  BY StreamAssumption DEF LoadLauncher, AuthorityStays, Tabs, hubVars
<1>2. d \in Tab /\ d.doc = 0
  BY GenerationsTyped DEF Closed, Tab
<1> HIDE DEF d
<1>3. tab' \in [Tabs -> Tab] /\ tab'[t] = d /\ \A x \in Tabs : x # t => tab'[x] = tab[x]
  BY <1>1, <1>2 DEF StreamInv
<1>4. JarsFit' /\ \A x \in Tabs : Held(tab'[x].doc)
  BY <1>1, <1>2, <1>3, JarsStayFit
<1>5. \A id \in ConnIds : conn'[id] = conn[id] /\ conn[id].out <= conn[id].out
  BY <1>1, GenerationsTyped DEF StreamInv, Conn
<1>6. LiveIsHeld' /\ CalmConns(conn')
  BY <1>1, ConnsAreCalm, LiveStaysHeld
     DEF StreamInv, SameOwner, AuthorityStays, authorityVars
<1> QED BY <1>1, <1>3, <1>4, <1>5, <1>6, ClientStep1 DEF StreamInv

\* A connection holds fewer frames, or is forgotten when its stream is gone.
LEMMA ConnectionPreserves ==
  ASSUME StreamInv, AuthorityStays, UNCHANGED <<tab, jar>>, live' \subseteq live,
         NEW i, NEW c \in Conn, Calm(c), conn' = [conn EXCEPT ![i] = c],
         i \in ConnIds => c.out <= conn[i].out,
         i \in live' => SameOwner(c, conn[i])
  PROVE  StreamInv' /\ Silent
<1> USE StreamTypeInParts, StreamTypeInPartsNext
<1>1. \A id \in ConnIds : conn[id] \in Conn /\ conn[id].out <= conn[id].out
  BY GenerationsTyped DEF StreamInv, Conn
<1>2. \A id \in ConnIds : conn'[id] = IF id = i THEN c ELSE conn[id]
  BY DEF StreamInv
<1>3. CalmConns(conn') /\ \A id \in ConnIds : conn'[id].out <= conn[id].out
  BY <1>1, <1>2, ConnsAreCalm DEF StreamInv, CalmConns
<1>4. \A id \in live' : SameOwner(conn'[id], conn[id])
  BY <1>2 DEF StreamInv, SameOwner
<1>5. LiveIsHeld'
  BY <1>4, LiveStaysHeld DEF StreamInv, AuthorityStays, authorityVars
<1>6. JarsFit' /\ \A x \in Tabs : Held(tab'[x].doc)
  BY JarsStayFit
<1> QED BY <1>3, <1>5, <1>6, ClientStep1 DEF StreamInv

LEMMA ReadFramePreserves ==
  ASSUME StreamInv, NEW t \in Tabs, ReadFrame(t)
  PROVE  StreamInv' /\ Silent
<1> DEFINE i == tab[t].conn
<1>1. /\ conn[i].out # 0 /\ conn' = [conn EXCEPT ![i].out = @ - 1]
      /\ AuthorityStays /\ UNCHANGED <<live, tab, jar>>
  BY DEF ReadFrame, AuthorityStays, clientVars
<1>2. conn \in [ConnIds -> Conn]
  BY StreamTypeInParts DEF StreamInv
<1>3. CASE i \in ConnIds
  <2> DEFINE n == conn[i].out - 1
             c == [conn[i] EXCEPT !.out = n]
  <2>1. conn[i] \in Conn /\ Calm(conn[i]) /\ conn[i].out \in 0..Pending + 1 /\ Pending \in Nat
    BY <1>2, <1>3, ConnsAreCalm, GenerationsTyped DEF CalmConns, Conn
  <2>2. n \in 0..Pending + 1 /\ n <= conn[i].out /\ (conn[i].out <= Pending => n <= Pending)
    BY <1>1, <2>1
  <2>3. conn' = [conn EXCEPT ![i] = c]
    BY <1>1
  <2> HIDE DEF n
  <2>4. /\ c \in Conn /\ c.out = n /\ c.ended = conn[i].ended /\ c.cap = conn[i].cap
        /\ c.sess = conn[i].sess /\ c.host = conn[i].host
    BY <2>1, <2>2 DEF Conn
  <2> HIDE DEF c
  <2>5. Calm(c) /\ SameOwner(c, conn[i])
    BY <2>1, <2>2, <2>4 DEF Calm, SameOwner
  <2> QED BY <1>1, <2>2, <2>3, <2>4, <2>5, ConnectionPreserves
<1>4. CASE i \notin ConnIds
  <2>1. conn' = [conn EXCEPT ![i] = NoConn] /\ live \subseteq ConnIds
    BY <1>1, <1>2, <1>4, StreamTypeInParts DEF StreamInv
  <2> QED BY <1>1, <1>4, <2>1, NoConnIsCalm, ConnectionPreserves
<1> QED BY <1>3, <1>4

LEMMA ConnClosesPreserves ==
  ASSUME StreamInv, NEW id \in ConnIds, ConnCloses(id)
  PROVE  StreamInv' /\ Silent
<1>1. /\ live' = live \ {id} /\ AuthorityStays /\ UNCHANGED <<tab, jar>>
      /\ conn' = IF conn[id].gone THEN [conn EXCEPT ![id] = NoConn] ELSE conn
  BY DEF ConnCloses, AuthorityStays, clientVars
<1>2. conn \in [ConnIds -> Conn] /\ conn[id] \in Conn /\ Calm(conn[id]) /\ conn[id].out \in Nat
  BY ConnsAreCalm, GenerationsTyped DEF CalmConns, Conn
<1>3. CASE conn[id].gone
  <2>1. conn' = [conn EXCEPT ![id] = NoConn] /\ NoConn.out <= conn[id].out
    BY <1>1, <1>2, <1>3, NoConnIsCalm
  <2> QED BY <1>1, <2>1, NoConnIsCalm, ConnectionPreserves
<1>4. CASE ~conn[id].gone
  <2>1. conn' = [conn EXCEPT ![id] = conn[id]] /\ conn[id].out <= conn[id].out
    BY <1>1, <1>2, <1>4
  <2> QED BY <1>1, <1>2, <2>1, ConnectionPreserves
<1> QED BY <1>3, <1>4

-----------------------------------------------------------------------------
(* The admission.                                                          *)

\* A shell that is not refused asks for the active session, under its binding,
\* over its route.
LEMMA NotRefused ==
  ASSUME NEW t, Refusal(t) = "none"
  PROVE  /\ tab[t].doc = active /\ active # 0 /\ tab[t].doc \in bound
         /\ routed[projOf[tab[t].doc]] # 0
BY DEF Refusal

LEMMA RefusalKinds == \A t : Refusal(t) \in {"failed", "stale", "none"}
BY DEF Refusal

LEMMA AnswerKinds ==
  ASSUME NEW t
  PROVE  /\ Answer(t) \in {"failed", "stale", "open"}
         /\ Answer(t) = "open" /\ t \in Shells => Refusal(t) = "none"
BY RefusalKinds DEF Answer

LEMMA RequestPreserves ==
  ASSUME StreamInv, NEW t \in Tabs, Request(t)
  PROVE  StreamInv' /\ Silent
<1> USE StreamTypeInParts, StreamTypeInPartsNext
<1> DEFINE over == IF ~(t \in Shells /\ Refusal(t) # "none") THEN Superseded(t) ELSE {}
           i == FreeConn(t)
           c == [cap |-> tab[t].doc, sess |-> tab[t].doc,
                 host |-> IF t \in Launchers THEN "launcher" ELSE projOf[tab[t].doc],
                 out |-> 0, ended |-> FALSE, gone |-> FALSE]
           next == IF Answer(t) = "open" THEN i ELSE None
           d == [tab[t] EXCEPT !.loop = Answer(t), !.conn = next]
           cs == Ended(conn, over)
<1>1. /\ tab[t].loop = "fetch" /\ AuthorityStays /\ UNCHANGED jar
      /\ live' = (live \ over) \cup (IF Answer(t) = "open" THEN {i} ELSE {})
      /\ conn' = IF Answer(t) = "open" THEN [cs EXCEPT ![i] = c] ELSE cs
      /\ tab' = [tab EXCEPT ![t] = d]
  BY DEF Request, AuthorityStays
<1>2. i \in ConnIds
  BY DEF FreeConn, ConnIds
<1>3. tab[t] \in Tab /\ tab \in [Tabs -> Tab] /\ tab[t].doc \in Gens0
  BY DEF StreamInv, Tab
<1>4. Answer(t) \in {"failed", "stale", "open"} /\ next \in ConnIds \cup {None}
  BY <1>2, AnswerKinds
<1>5. Answer(t) = "open" => /\ t \in Shells /\ t \notin Launchers
                               => /\ tab[t].doc = active /\ active # 0 /\ active \in bound
                                  /\ projOf[active] \in Projects /\ active \notin revoked
                            /\ t \in Launchers => tab[t].doc = 0
  <2>1. t \in Launchers => tab[t].doc = 0
    BY DEF StreamInv, JarsFit
  <2>2. ASSUME Answer(t) = "open", t \in Shells
        PROVE  /\ tab[t].doc = active /\ active # 0 /\ active \in bound
               /\ projOf[active] \in Projects /\ active \notin revoked
    <3>1. /\ tab[t].doc = active /\ active # 0 /\ active \in bound
          /\ routed[projOf[active]] # 0
      BY <2>2, AnswerKinds, NotRefused
    <3>2. active \notin revoked
      BY <3>1 DEF StreamInv, TransitionRevokes
    <3> QED BY <3>1, <3>2, MintedFacts
  <2> QED BY <2>1, <2>2
<1>6. Answer(t) = "open" => /\ c \in Conn /\ Calm(c) /\ c.out = 0 /\ c.sess = c.cap
                            /\ c.sess \notin revoked
                            /\ c.host = "launcher" \/ c.cap \in bound
  <2> SUFFICES ASSUME Answer(t) = "open"
               PROVE  /\ c \in Conn /\ Calm(c) /\ c.out = 0 /\ c.sess = c.cap
                      /\ c.sess \notin revoked
                      /\ c.host = "launcher" \/ c.cap \in bound
    OBVIOUS
  <2> DEFINE h == IF t \in Launchers THEN "launcher" ELSE projOf[tab[t].doc]
  <2>1. t \in Shells \/ t \in Launchers
    BY DEF Tabs
  <2>2. h \in Projects \cup {"launcher", None}
    BY <1>5, <2>1
  <2>3. 0 \in 0..Pending + 1 /\ 0 <= Pending
    BY GenerationsTyped
  <2>4. c = [cap |-> tab[t].doc, sess |-> tab[t].doc, host |-> h,
             out |-> 0, ended |-> FALSE, gone |-> FALSE]
    OBVIOUS
  <2>5. tab[t].doc \notin revoked /\ (h = "launcher" \/ tab[t].doc \in bound)
    BY <1>5, <2>1, GenerationsTyped DEF StreamInv
  <2> HIDE DEF h, c
  <2> QED BY <1>3, <2>2, <2>3, <2>4, <2>5 DEF Conn, Calm
<1>7. /\ CalmConns(conn) /\ CalmConns(cs)
      /\ \A id \in ConnIds : /\ cs[id].out <= conn[id].out
                             /\ id \notin over => cs[id] = conn[id]
  BY ConnsAreCalm, EndedConns
<1> HIDE DEF over, i, c, next, cs
<1>8. d \in Tab /\ d.doc = tab[t].doc /\ d.loop = Answer(t)
  BY <1>3, <1>4 DEF Tab
<1> HIDE DEF d
<1>9. tab' \in [Tabs -> Tab] /\ tab'[t] = d /\ \A x \in Tabs : x # t => tab'[x] = tab[x]
  BY <1>1, <1>3, <1>8
<1>10. JarsFit' /\ \A x \in Tabs : Held(tab'[x].doc)
  BY <1>1, <1>8, <1>9, JarsStayFit
<1>11. live' \subseteq ConnIds
  BY <1>1, <1>2 DEF StreamInv
<1>12. \A id \in ConnIds : conn'[id] = IF Answer(t) = "open" /\ id = i THEN c ELSE cs[id]
  BY <1>1, <1>7 DEF CalmConns
<1>13. CalmConns(conn')
  <2>1. conn' \in [ConnIds -> Conn]
    BY <1>1, <1>2, <1>6, <1>7 DEF CalmConns
  <2> QED BY <1>6, <1>7, <1>12, <2>1 DEF CalmConns
<1>14. \A id \in ConnIds : conn'[id].out <= conn[id].out
  <2>1. \A id \in ConnIds : conn[id].out \in Nat
    BY GenerationsTyped DEF StreamInv, Conn
  <2> QED BY <1>6, <1>7, <1>12, <2>1
<1>15. LiveIsHeld'
  <2>1. UNCHANGED <<revoked, bound>>
    BY <1>1 DEF AuthorityStays, authorityVars
  <2>2. ASSUME NEW id \in live'
        PROVE  /\ conn'[id].sess = conn'[id].cap /\ conn'[id].sess \notin revoked
               /\ conn'[id].host = "launcher" \/ conn'[id].cap \in bound
    <3>1. CASE Answer(t) = "open" /\ id = i
      BY <1>2, <1>6, <1>12, <3>1
    <3>2. CASE ~(Answer(t) = "open" /\ id = i)
      <4>1. id \in live /\ id \notin over /\ id \in ConnIds
        BY <1>1, <2>2, <3>2 DEF StreamInv
      <4>2. conn'[id] = conn[id]
        BY <1>7, <1>12, <3>2, <4>1
      <4> QED BY <4>1, <4>2 DEF StreamInv, LiveIsHeld
    <3> QED BY <3>1, <3>2
  <2> QED BY <2>1, <2>2 DEF LiveIsHeld
<1> QED BY <1>1, <1>9, <1>10, <1>11, <1>13, <1>14, <1>15, ClientStep1 DEF StreamInv

LEMMA StreamStutters == StreamInv /\ UNCHANGED streamVars => StreamInv'
<1> SUFFICES ASSUME StreamInv, UNCHANGED streamVars PROVE StreamInv'
  OBVIOUS
<1>1. UNCHANGED <<supervisorVars, authorityVars, hubVars, clientVars>>
  BY DEF streamVars
<1>2. StreamTypeOK'
  BY <1>1, StreamTypeInParts, StreamTypeInPartsNext
     DEF StreamInv, supervisorVars, authorityVars, hubVars, clientVars
<1>3. Minted' /\ TransitionRevokes' /\ BoundIsRouted'
  BY <1>1 DEF StreamInv, Minted, Held, TransitionRevokes, BoundIsRouted, supervisorVars,
              authorityVars, hubVars, clientVars
<1>4. JarsFit'
  BY <1>1 DEF StreamInv, JarsFit, supervisorVars, authorityVars, clientVars
<1>5. LiveIsHeld' /\ Tolerated'
  BY <1>1 DEF StreamInv, LiveIsHeld, Tolerated, authorityVars, hubVars
<1> QED BY <1>2, <1>3, <1>4, <1>5 DEF StreamInv

LEMMA StreamStepPreserves == StreamInv /\ StreamNext => StreamInv' /\ Silent
<1> SUFFICES ASSUME StreamInv, StreamNext PROVE StreamInv' /\ Silent
  OBVIOUS
<1>1. CASE SessionStep
  <2>1. ASSUME NEW p \in Projects, Begin(p) PROVE StreamInv' /\ Silent
    BY <2>1, BeginPreserves
  <2>2. CASE AttemptFails
    BY <2>2, AttemptFailsPreserves
  <2>3. CASE CommitFirst
    BY <2>3, CommitFirstPreserves
  <2>4. CASE AdoptBind \/ AdoptSeat
    BY <2>4, AdoptingPreserves
  <2>5. CASE AdoptRefused
    BY <2>5, AdoptRefusedPreserves
  <2>6. CASE RevokeStreams("switch", None) \/ \E t \in Shells : RevokeStreams("deactivation", t)
    BY <2>6, RevokeStreamsPreserves
  <2>7. ASSUME NEW ok \in BOOLEAN, RevokeRest(ok) PROVE StreamInv' /\ Silent
    BY <2>7, RevokeRestPreserves
  <2>8. CASE Crash
    BY <2>8, CrashPreserves
  <2>9. ASSUME NEW g \in Gens, RunEmits(g) PROVE StreamInv' /\ Silent
    BY <2>9, RunEmitsPreserves
  <2> QED BY <1>1, <2>1, <2>2, <2>3, <2>4, <2>5, <2>6, <2>7, <2>8, <2>9 DEF SessionStep
<1>2. ASSUME NEW t \in Shells, LoadShell(t) \/ Leave(t) \/ ConnectionBreaks(t)
      PROVE  StreamInv' /\ Silent
  BY <1>2, LoadShellPreserves, LeavePreserves, BreakPreserves
<1>3. ASSUME NEW t \in Launchers, LoadLauncher(t) PROVE StreamInv' /\ Silent
  BY <1>3, LoadLauncherPreserves
<1>4. ASSUME NEW t \in Tabs, ClientStep(t) PROVE StreamInv' /\ Silent
  BY <1>4, RequestPreserves, ReadFramePreserves, ReadEndPreserves DEF ClientStep
<1>5. ASSUME NEW id \in ConnIds, ConnCloses(id) PROVE StreamInv' /\ Silent
  BY <1>5, ConnClosesPreserves
<1> QED BY <1>1, <1>2, <1>3, <1>4, <1>5 DEF StreamNext

-----------------------------------------------------------------------------
(* The editor of the current session.                                      *)

\* The loop of tab t settles without a stream in this step.
Settles(t) == tab[t].loop = "fetch" /\ tab'[t].loop \in {"stale", "failed"}

\* Only the answer to its own request settles a loop outside a transition.
LEMMA SettledByRequest ==
  ASSUME StreamInv, StreamNext, NEW t \in Shells, Settles(t), trans = NoTransition
  PROVE  Request(t)
<1>1. tab \in [Tabs -> Tab] /\ t \in Tabs /\ t \notin Launchers
  BY StreamTypeInParts, StreamAssumption DEF StreamInv, Tabs
<1>2. tab' # tab /\ tab'[t] # tab[t]
  BY DEF Settles
<1>3. ~SessionStep
  <2> SUFFICES ASSUME SessionStep PROVE FALSE
    OBVIOUS
  <2>1. ~UNCHANGED clientVars
    BY <1>2 DEF clientVars
  <2>2. ASSUME NEW ok \in BOOLEAN PROVE ~RevokeRest(ok)
    BY DEF RevokeRest
  <2>3. ASSUME NEW p \in Projects PROVE ~Begin(p)
    BY <2>1 DEF Begin
  <2>4. ~AttemptFails /\ ~CommitFirst
    BY <2>1 DEF AttemptFails, CommitFirst
  <2>5. ~AdoptBind /\ ~AdoptSeat /\ ~AdoptRefused
    BY <2>1 DEF AdoptBind, AdoptSeat, AdoptRefused
  <2>6. ASSUME NEW goal, NEW s PROVE ~RevokeStreams(goal, s)
    BY <2>1 DEF RevokeStreams
  <2>7. ~Crash
    BY <2>1 DEF Crash
  <2>8. ASSUME NEW g \in Gens PROVE ~RunEmits(g)
    BY <2>1 DEF RunEmits
  <2> QED BY <2>2, <2>3, <2>4, <2>5, <2>6, <2>7, <2>8 DEF SessionStep
<1>4. ASSUME NEW s \in Shells PROVE ~LoadShell(s) /\ ~Leave(s) /\ ~ConnectionBreaks(s)
  <2>1. s \in Tabs
    BY DEF Tabs
  <2>2. CASE s # t
    BY <1>1, <1>2, <2>1, <2>2 DEF LoadShell, Leave, ConnectionBreaks
  <2>3. CASE s = t
    <3>1. Closed.loop = "none" /\ tab[t].loop = "fetch"
      BY ClosedTyped DEF Settles
    <3>2. ~LoadShell(t) /\ ~ConnectionBreaks(t)
      BY <3>1 DEF LoadShell, ConnectionBreaks
    <3>3. Leave(t) => tab'[t] = Closed
      BY <1>1 DEF Leave
    <3>4. ~Leave(t)
      BY <3>1, <3>3 DEF Settles
    <3> QED BY <2>3, <3>2, <3>4
  <2> QED BY <2>2, <2>3
<1>5. ASSUME NEW s \in Launchers PROVE ~LoadLauncher(s)
  BY <1>1, <1>2 DEF LoadLauncher
<1>6. ASSUME NEW id \in ConnIds PROVE ~ConnCloses(id)
  BY <1>2 DEF ConnCloses, clientVars
<1>7. ASSUME NEW s \in Tabs, ClientStep(s) PROVE Request(t)
  <2>1. ~ReadFrame(s)
    BY <1>2 DEF ReadFrame, clientVars
  <2>2. ~ReadEnd(s)
    <3>1. CASE s # t
      BY <1>1, <1>2, <3>1 DEF ReadEnd
    <3>2. CASE s = t
      BY <3>2 DEF ReadEnd, Settles
    <3> QED BY <3>1, <3>2
  <2>3. Request(s)
    BY <1>7, <2>1, <2>2 DEF ClientStep
  <2>4. s = t
    BY <1>1, <1>2, <2>3 DEF Request
  <2> QED BY <2>3, <2>4
<1> QED BY <1>3, <1>4, <1>5, <1>6, <1>7 DEF StreamNext

\* Every question of the origin and of the admission is answered yes for the
\* document of a seated session outside a transition.
LEMMA SeatedIsNotRefused ==
  ASSUME StreamInv, NEW t \in Shells, tab[t].loop = "fetch", tab[t].doc = active,
         seat = active, trans = NoTransition
  PROVE  Refusal(t) = "none" /\ active \in bound
<1>1. active # 0
  BY DEF StreamInv, JarsFit
<1>2. active \in bound /\ active \notin revoked
  BY <1>1 DEF StreamInv, BoundIsRouted, TransitionRevokes
<1>3. routed[projOf[active]] = active
  BY <1>2 DEF StreamInv, BoundIsRouted
<1>4. hostCap[projOf[active]] = active /\ jar[projOf[active]] = active
  BY <1>1 DEF StreamInv, JarsFit
<1>5. Refusal(t) = "none"
  BY <1>1, <1>2, <1>3, <1>4 DEF Refusal
<1> QED BY <1>2, <1>5

\* Every editor stream of the hub is of the one binding, and the request's own
\* capability supersedes it before the cap is counted.
LEMMA SeatedIsNotOverCap ==
  ASSUME StreamInv, NEW t \in Shells, tab[t].doc = active, active \in bound
  PROVE  ~OverCap(t)
<1>1. ASSUME NEW id \in live, conn[id].host # "launcher" PROVE id \in Superseded(t)
  BY <1>1 DEF StreamInv, LiveIsHeld, BoundIsRouted, Superseded
<1>2. EditorStreams(live \ Superseded(t)) = {}
  BY <1>1 DEF EditorStreams
<1> QED BY <1>2 DEF OverCap

-----------------------------------------------------------------------------

\* The streams' inductive invariant holds in every state.
THEOREM StreamInvariant == StreamSpec => []StreamInv
<1>1. StreamInv /\ [StreamNext]_streamVars => StreamInv'
  BY StreamStepPreserves, StreamStutters
<1> QED BY <1>1, StreamInitially, PTL DEF StreamSpec

\* The hub, the admission, the authority and the tabs stay in their types.
THEOREM StreamTypeCorrect == StreamSpec => []StreamTypeOK
<1>1. StreamInv => StreamTypeOK
  BY DEF StreamInv
<1> QED BY <1>1, StreamInvariant, PTL

\* A revoked session is over for every client: no stream of it is registered
\* again, and no frame minted under it is written, whatever its run still emits
\* (sse-hub.ts, sse-admission.ts, the executor's revocation).
THEOREM StreamRevokedIsOver == StreamSpec => RevokedIsOver
<1>1. StreamInv => RevokedStaysEnded
  BY DEF StreamInv, LiveIsHeld, RevokedStaysEnded
<1>2. StreamInv /\ [StreamNext]_streamVars
        => [\A id \in ConnIds :
              conn'[id].out > conn[id].out => watermark' \notin revoked']_streamVars
  BY StreamStepPreserves DEF Silent
<1>3. StreamSpec => []RevokedStaysEnded
  BY <1>1, StreamInvariant, PTL
<1>4. StreamSpec => RevokedIsSilent
  BY <1>2, StreamInvariant, PTL DEF StreamSpec, RevokedIsSilent
<1> QED BY <1>3, <1>4, PTL DEF RevokedIsOver

\* The editor of the current session gets its stream: outside a transition no
\* request of its document is refused, neither for a stream an earlier
\* connection left in the hub nor for one of an earlier session
\* (sse-admission.ts, hub.admit, app-client.ts).
THEOREM StreamEditorAdmitted == StreamSpec => BoundEditorAdmitted
<1>1. ASSUME StreamInv, StreamNext, NEW t \in Shells, Settles(t), tab[t].doc = active,
             seat = active, trans = NoTransition
      PROVE  FALSE
  <2>1. Request(t) /\ t \in Tabs
    BY <1>1, SettledByRequest DEF Tabs
  <2>2. Refusal(t) = "none" /\ ~OverCap(t)
    BY <1>1, SeatedIsNotRefused, SeatedIsNotOverCap DEF Settles
  <2>3. Answer(t) = "open"
    BY <2>2 DEF Answer
  <2>4. tab[t] \in Tab /\ tab \in [Tabs -> Tab]
    BY <1>1, <2>1, StreamTypeInParts DEF StreamInv
  <2>5. tab'[t].loop = "open"
    BY <2>1, <2>3, <2>4 DEF Request, Tab
  <2> QED BY <1>1, <2>5 DEF Settles
<1>2. StreamInv /\ [StreamNext]_streamVars
        => [\A t \in Shells :
              (/\ tab[t].loop = "fetch" /\ tab'[t].loop \in {"stale", "failed"}
               /\ tab[t].doc = active /\ seat = active)
                => trans # NoTransition]_streamVars
  BY <1>1 DEF Settles
<1> QED BY <1>2, StreamInvariant, PTL DEF StreamSpec, BoundEditorAdmitted

=============================================================================
