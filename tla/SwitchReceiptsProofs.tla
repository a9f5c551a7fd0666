------------------------ MODULE SwitchReceiptsProofs ------------------------
(***************************************************************************)
(* The safety of the edit fence for every bound on the ledger and on the   *)
(* number of drains, and of the receipts of a session's transitions over   *)
(* it.  Every step of the receipts' specification is a step of the fence   *)
(* or leaves it alone, so the fence's invariant, proved first, holds of    *)
(* both; the receipts need besides it only what a holder's certificate     *)
(* says and who is in the ledger.                                          *)
(***************************************************************************)
EXTENDS SwitchReceipts, SequenceTheorems, TLAPS

\* The inductive invariant: no conjunct is inductive alone, because settle()
\* relies on the shape of the queue and the verdict on all of them.
IInv ==
    /\ TypeOK
    /\ SerialQueue
    /\ NeverIdle
    /\ HonestVerdict
    /\ NoSilentWork
    /\ OwnDeadline
    /\ TimeoutAccounts

-----------------------------------------------------------------------------
(* Lemmas about the ledger.                                                *)

LEMMA LeqSplit == ASSUME NEW a \in Nat, NEW b \in Nat, a <= b PROVE a = b \/ a < b
OBVIOUS

LEMMA LessNotEqual == ASSUME NEW a \in Nat, NEW b \in Nat, a < b PROVE a # b
OBVIOUS

\* admit() appends queued edits and leaves the ledger before them alone.
LEMMA AdmitAppends ==
    ASSUME NEW ledger \in Seq(AcceptedEdit), NEW n \in Nat
    PROVE  /\ Admit(ledger, n) \in Seq(AcceptedEdit)
           /\ Len(Admit(ledger, n)) = Len(ledger) + n
           /\ \A i \in 1 .. Len(ledger) : Admit(ledger, n)[i] = ledger[i]
           /\ \A i \in (Len(ledger) + 1) .. (Len(ledger) + n) :
                 Admit(ledger, n)[i] = [phase |-> "queued", outcome |-> "pending"]
<1> DEFINE fresh == [i \in 1 .. n |-> [phase |-> "queued", outcome |-> "pending"]]
<1>1. [phase |-> "queued", outcome |-> "pending"] \in AcceptedEdit
  BY DEF AcceptedEdit, Phase
<1>2. fresh \in Seq(AcceptedEdit) /\ Len(fresh) = n
  BY <1>1
<1>3. /\ ledger \o fresh \in Seq(AcceptedEdit)
      /\ Len(ledger \o fresh) = Len(ledger) + n
      /\ \A i \in 1 .. (Len(ledger) + n) :
            (ledger \o fresh)[i] = IF i <= Len(ledger) THEN ledger[i]
                                   ELSE fresh[i - Len(ledger)]
  BY <1>2, ConcatProperties
<1>4. Len(ledger) \in Nat
  BY LenProperties
<1> QED
  BY <1>3, <1>4 DEF Admit

\* In a serially executed ledger with nothing in flight, pump()'s scan finds
\* the edit after the terminal prefix.
LEMMA NextQueuedIsNext ==
    ASSUME NEW ledger \in Seq(AcceptedEdit), NEW count \in Nat,
           SerialShape(ledger, count, FALSE)
    PROVE  NextQueued(ledger) = IF count < Len(ledger) THEN count + 1 ELSE 0
<1>1. Len(ledger) \in Nat /\ DOMAIN ledger = 1 .. Len(ledger)
  BY LenProperties
<1>2. \A i \in DOMAIN ledger : ledger[i].phase = "queued" <=> i > count
  <2> TAKE i \in DOMAIN ledger
  <2>0. ledger[i] \in AcceptedEdit
    BY <1>1, ElementOfSeq
  <2>1. ledger[i].phase \in Phase
    BY <2>0 DEF AcceptedEdit
  <2> QED
    BY <1>1, <2>1 DEF SerialShape, Phase
<1>3. CASE count < Len(ledger)
  <2>1. count + 1 \in DOMAIN ledger /\ ledger[count + 1].phase = "queued"
    BY <1>1, <1>2, <1>3
  <2>2. \A i \in DOMAIN ledger :
          (/\ ledger[i].phase = "queued"
           /\ \A j \in DOMAIN ledger : j < i => ledger[j].phase # "queued")
          <=> i = count + 1
    BY <1>1, <1>2, <2>1
  <2> QED
    BY <2>1, <2>2, <1>3 DEF NextQueued
<1>4. CASE ~(count < Len(ledger))
  BY <1>1, <1>2, <1>4 DEF NextQueued
<1> QED
  BY <1>3, <1>4

\* pump() keeps the ledger serial, changes no outcome, and is idle afterwards
\* only when every edit is terminal.
LEMMA PumpKeepsSerial ==
    ASSUME NEW ledger \in Seq(AcceptedEdit), NEW count \in Nat,
           NEW busy \in BOOLEAN,
           SerialShape(ledger, count, busy),
           busy => count < Len(ledger),
           Pump(ledger, busy)
    PROVE  /\ accepted' \in Seq(AcceptedEdit)
           /\ Len(accepted') = Len(ledger)
           /\ inFlight' \in BOOLEAN
           /\ SerialShape(accepted', count, inFlight')
           /\ inFlight' <=> count < Len(ledger)
           /\ \A i \in DOMAIN ledger : accepted'[i].outcome = ledger[i].outcome
<1>1. Len(ledger) \in Nat /\ DOMAIN ledger = 1 .. Len(ledger)
  BY LenProperties
<1>2. CASE busy
  BY <1>2 DEF Pump
<1>3. CASE ~busy /\ count = Len(ledger)
  <2>0. SerialShape(ledger, count, FALSE) /\ ~(count < Len(ledger))
    BY <1>1, <1>3 DEF SerialShape
  <2>1. NextQueued(ledger) = 0
    BY <2>0, NextQueuedIsNext
  <2> QED
    BY <1>3, <2>1 DEF Pump
<1>4. CASE ~busy /\ count < Len(ledger)
  <2>1. NextQueued(ledger) = count + 1
    BY <1>4, NextQueuedIsNext
  <2>2. accepted' = [ledger EXCEPT ![count + 1].phase = "in-flight"] /\ inFlight' = TRUE
    BY <1>4, <2>1 DEF Pump
  <2>3. count + 1 \in DOMAIN ledger
    BY <1>1, <1>4
  <2>4. ledger[count + 1] \in AcceptedEdit
    BY <2>3, <1>1, ElementOfSeq
  <2>5. [ledger[count + 1] EXCEPT !.phase = "in-flight"] \in AcceptedEdit
    BY <2>4 DEF AcceptedEdit, Phase
  <2>6. accepted' = [ledger EXCEPT ![count + 1] = [ledger[count + 1] EXCEPT !.phase = "in-flight"]]
    BY <2>2
  <2>7. accepted' \in Seq(AcceptedEdit) /\ Len(accepted') = Len(ledger)
    BY <2>3, <2>5, <2>6, <1>1, ExceptSeq
  <2>8. /\ \A i \in DOMAIN ledger : i # count + 1 => accepted'[i] = ledger[i]
        /\ accepted'[count + 1].phase = "in-flight"
        /\ accepted'[count + 1].outcome = ledger[count + 1].outcome
    BY <2>3, <2>4, <2>6 DEF AcceptedEdit
  <2>9. DOMAIN accepted' = DOMAIN ledger
    BY <2>6
  <2> QED
    BY <1>1, <1>4, <2>2, <2>7, <2>8, <2>9 DEF SerialShape
<1>5. count <= Len(ledger)
  BY DEF SerialShape
<1>6. count = Len(ledger) \/ count < Len(ledger)
  BY <1>1, <1>5, LeqSplit
<1> QED
  BY <1>2, <1>3, <1>4, <1>6, Zenon

\* admit() keeps the ledger serial.
LEMMA AdmitKeepsSerial ==
    ASSUME NEW ledger \in Seq(AcceptedEdit), NEW n \in Nat, NEW count \in Nat,
           NEW busy \in BOOLEAN,
           SerialShape(ledger, count, busy),
           busy => count < Len(ledger)
    PROVE  SerialShape(Admit(ledger, n), count, busy)
<1> DEFINE new == Admit(ledger, n)
<1>1. /\ Len(ledger) \in Nat
      /\ DOMAIN ledger = 1 .. Len(ledger)
  BY LenProperties
<1>2. /\ new \in Seq(AcceptedEdit)
      /\ Len(new) = Len(ledger) + n
      /\ \A i \in 1 .. Len(ledger) : new[i] = ledger[i]
      /\ \A i \in (Len(ledger) + 1) .. (Len(ledger) + n) :
            new[i] = [phase |-> "queued", outcome |-> "pending"]
  BY AdmitAppends
<1>3. DOMAIN new = 1 .. (Len(ledger) + n)
  BY <1>2, LenProperties
<1> HIDE DEF new
<1>4. count <= Len(ledger)
  BY DEF SerialShape
<1>5. ASSUME NEW i \in DOMAIN new
      PROVE  /\ new[i].phase = "terminal" <=> i <= count
             /\ new[i].phase = "in-flight" <=> i = count + 1 /\ busy
             /\ new[i].outcome = "pending" <=> i > count
  <2>1. CASE i <= Len(ledger)
    <3>1. i \in DOMAIN ledger /\ new[i] = ledger[i]
      BY <1>1, <1>2, <1>3, <1>5, <2>1
    <3> QED
      BY <3>1 DEF SerialShape
  <2>2. CASE i > Len(ledger)
    <3>1. new[i].phase = "queued" /\ new[i].outcome = "pending"
      BY <1>1, <1>2, <1>3, <1>5, <2>2
    <3>2. i > count /\ ~(i <= count) /\ ~(i = count + 1 /\ busy)
      BY <1>1, <1>3, <1>4, <1>5, <2>2
    <3> QED
      BY <3>1, <3>2
  <2> QED
    BY <1>1, <1>3, <1>5, <2>1, <2>2
<1>6. count <= Len(new)
  BY <1>1, <1>2, <1>4
<1>7. SerialShape(new, count, busy)
  BY <1>5, <1>6 DEF SerialShape
<1> QED
  BY <1>7 DEF new

\* IsFirstFailure looks only at the outcomes of the terminal prefix.
LEMMA FirstFailureCarries ==
    ASSUME NEW ledger, NEW new, NEW count \in Nat, NEW ff \in Nat,
           \A i \in 1 .. count : new[i].outcome = ledger[i].outcome,
           IsFirstFailure(ledger, count, ff)
    PROVE  IsFirstFailure(new, count, ff)
BY DEF IsFirstFailure

\* A serial ledger has no queued edit before the terminal count, and every
\* terminal edit carries a classified outcome.
LEMMA TerminalOutcome ==
    ASSUME NEW ledger \in Seq(AcceptedEdit), NEW count \in Nat,
           NEW busy \in BOOLEAN, SerialShape(ledger, count, busy),
           NEW i \in 1 .. count
    PROVE  ledger[i].outcome \in OperationOutcome
<1>1. Len(ledger) \in Nat /\ DOMAIN ledger = 1 .. Len(ledger)
  BY LenProperties
<1>2. i \in DOMAIN ledger /\ ~(i > count)
  BY <1>1 DEF SerialShape
<1>3. ledger[i] \in AcceptedEdit
  BY <1>1, <1>2, ElementOfSeq
<1> QED
  BY <1>2, <1>3 DEF SerialShape, AcceptedEdit

-----------------------------------------------------------------------------
(* Every operation preserves the inductive invariant.                      *)

\* submit() preserves the invariant: the new edit is queued behind the rest.
LEMMA SubmitPreserves == ASSUME IInv, Submit PROVE IInv'
<1> USE DEF IInv
<1>1. TypeOK /\ state = "open" /\ Pump(Admit(accepted, 1), inFlight)
  BY DEF Submit, SubmitAdmits
<1>2. UNCHANGED <<state, terminalCount, firstFailure, drain, timers, report, settled>>
  BY DEF Submit
<1>3. /\ accepted \in Seq(AcceptedEdit) /\ terminalCount \in Nat
      /\ inFlight \in BOOLEAN /\ firstFailure \in Nat
      /\ Len(accepted) \in Nat /\ DOMAIN accepted = 1 .. Len(accepted)
  BY LenProperties DEF TypeOK
<1>4. /\ Admit(accepted, 1) \in Seq(AcceptedEdit)
      /\ Len(Admit(accepted, 1)) = Len(accepted) + 1
      /\ \A i \in 1 .. Len(accepted) : Admit(accepted, 1)[i] = accepted[i]
  BY <1>3, AdmitAppends
<1>5. (inFlight => terminalCount < Len(accepted)) /\ terminalCount <= Len(accepted)
  BY DEF NeverIdle, SerialQueue, SerialShape
<1>6. SerialShape(Admit(accepted, 1), terminalCount, inFlight)
  BY <1>3, <1>5, AdmitKeepsSerial DEF SerialQueue
<1>7. inFlight => terminalCount < Len(Admit(accepted, 1))
  BY <1>3, <1>4, <1>5
<1>8. DOMAIN Admit(accepted, 1) = 1 .. (Len(accepted) + 1)
  BY <1>4, LenProperties
<1>9. /\ accepted' \in Seq(AcceptedEdit)
      /\ Len(accepted') = Len(accepted) + 1
      /\ inFlight' \in BOOLEAN
      /\ SerialShape(accepted', terminalCount, inFlight')
      /\ inFlight' <=> terminalCount < Len(accepted) + 1
      /\ \A i \in DOMAIN Admit(accepted, 1) :
            accepted'[i].outcome = Admit(accepted, 1)[i].outcome
  BY <1>1, <1>3, <1>4, <1>6, <1>7, PumpKeepsSerial
<1>10. \A i \in 1 .. terminalCount : accepted'[i].outcome = accepted[i].outcome
  BY <1>3, <1>4, <1>5, <1>8, <1>9
<1>11. IsFirstFailure(accepted', terminalCount, firstFailure)
  BY <1>3, <1>10, FirstFailureCarries DEF HonestVerdict
<1>12. TypeOK'
  BY <1>2, <1>9 DEF TypeOK
<1>13. SerialQueue' /\ NeverIdle'
  BY <1>2, <1>9 DEF SerialQueue, NeverIdle
<1>14. HonestVerdict'
  BY <1>1, <1>2, <1>11 DEF HonestVerdict
<1>15. NoSilentWork' /\ OwnDeadline' /\ TimeoutAccounts'
  BY <1>1, <1>2 DEF NoSilentWork, OwnDeadline, TimeoutAccounts
<1> QED
  BY <1>12, <1>13, <1>14, <1>15

\* fence() preserves the invariant: a terminal ledger gets its verdict at
\* once, any other one a fresh deadline.
LEMMA FencePreserves == ASSUME IInv, NEW n \in Nat, Fence(n) PROVE IInv'
<1> USE DEF IInv
<1> DEFINE ledger == Admit(accepted, n)
<1>1. /\ state = "open" /\ drain' = drain + 1 /\ Pump(ledger, inFlight)
      /\ UNCHANGED <<terminalCount, firstFailure>>
      /\ IF AllTerminal(ledger, terminalCount)
         THEN /\ timers' = ArmDeadline \ {drain + 1}
              /\ settled' = TRUE
              /\ state' = VerdictState(firstFailure)
              /\ report' = VerdictReport(ledger, firstFailure)
         ELSE /\ timers' = ArmDeadline
              /\ settled' = FALSE
              /\ state' = "draining"
              /\ report' = NoReport
  BY DEF Fence
<1>3. /\ accepted \in Seq(AcceptedEdit) /\ terminalCount \in Nat
      /\ inFlight \in BOOLEAN /\ firstFailure \in Nat /\ drain \in Nat
      /\ Len(accepted) \in Nat /\ DOMAIN accepted = 1 .. Len(accepted)
  BY LenProperties DEF TypeOK
<1>4. /\ ledger \in Seq(AcceptedEdit)
      /\ Len(ledger) = Len(accepted) + n
      /\ \A i \in 1 .. Len(accepted) : ledger[i] = accepted[i]
  BY <1>3, AdmitAppends
<1>5. (inFlight => terminalCount < Len(accepted)) /\ terminalCount <= Len(accepted)
  BY DEF NeverIdle, SerialQueue, SerialShape
<1>6. SerialShape(ledger, terminalCount, inFlight)
  BY <1>3, <1>5, AdmitKeepsSerial DEF SerialQueue
<1>8. DOMAIN ledger = 1 .. Len(ledger) /\ Len(ledger) \in Nat
  BY <1>4, LenProperties
<1> HIDE DEF ledger
<1>7. inFlight => terminalCount < Len(ledger)
  BY <1>3, <1>4, <1>5
<1>9. /\ accepted' \in Seq(AcceptedEdit)
      /\ Len(accepted') = Len(ledger)
      /\ inFlight' \in BOOLEAN
      /\ SerialShape(accepted', terminalCount, inFlight')
      /\ inFlight' <=> terminalCount < Len(ledger)
      /\ \A i \in DOMAIN ledger : accepted'[i].outcome = ledger[i].outcome
  BY <1>1, <1>3, <1>4, <1>6, <1>7, PumpKeepsSerial
<1>10. \A i \in 1 .. terminalCount : accepted'[i].outcome = accepted[i].outcome
  BY <1>3, <1>4, <1>5, <1>8, <1>9
<1>11. IsFirstFailure(accepted', terminalCount, firstFailure)
  BY <1>3, <1>10, FirstFailureCarries DEF HonestVerdict
<1>12. VerdictReport(accepted', firstFailure) = VerdictReport(ledger, firstFailure)
  <2>1. CASE firstFailure = 0
    BY <1>9, <2>1 DEF VerdictReport
  <2>2. CASE firstFailure # 0
    <3>1. firstFailure \in DOMAIN ledger
      BY <1>3, <1>4, <1>5, <1>8, <2>2 DEF HonestVerdict, IsFirstFailure
    <3> QED
      BY <1>9, <3>1 DEF VerdictReport
  <2> QED
    BY <2>1, <2>2
<1>13. terminalCount <= Len(ledger)
  BY <1>3, <1>4, <1>5, <1>8
<1>14. timers = {}
  BY <1>1 DEF OwnDeadline
<1>15. CASE AllTerminal(ledger, terminalCount)
  <2>1. /\ timers' = {} /\ settled' = TRUE /\ state' = VerdictState(firstFailure)
        /\ report' = VerdictReport(ledger, firstFailure)
        /\ terminalCount = Len(ledger)
    BY <1>1, <1>3, <1>14, <1>15 DEF ArmDeadline, AllTerminal
  <2>2. state' \in {"drained", "failed"}
    BY <2>1 DEF VerdictState
  <2>3. VerdictReport(ledger, firstFailure) \in DrainReport
    BY <1>8 DEF VerdictReport, DrainReport
  <2>4. TypeOK'
    BY <1>1, <1>3, <1>9, <2>1, <2>2, <2>3 DEF TypeOK, EditFenceState
  <2>5. SerialQueue' /\ NeverIdle'
    BY <1>1, <1>9 DEF SerialQueue, NeverIdle
  <2>6. HonestVerdict'
    BY <1>1, <1>11, <1>12, <2>1 DEF HonestVerdict
  <2>7. NoSilentWork'
    BY <1>1, <1>3, <1>9, <2>1, <2>2 DEF NoSilentWork
  <2>8. OwnDeadline' /\ TimeoutAccounts'
    BY <2>1, <2>2 DEF OwnDeadline, TimeoutAccounts
  <2> QED
    BY <2>4, <2>5, <2>6, <2>7, <2>8
<1>16. CASE ~AllTerminal(ledger, terminalCount)
  <2>0. /\ timers' = ArmDeadline /\ ~settled' /\ settled' \in BOOLEAN
        /\ state' = "draining" /\ report' = NoReport
        /\ terminalCount # Len(ledger)
    BY <1>1, <1>16, Zenon DEF AllTerminal
  <2>1. timers' = {drain + 1}
    BY <1>14, <2>0 DEF ArmDeadline
  <2>2. terminalCount < Len(ledger)
    BY <1>3, <1>8, <1>13, <2>0, LeqSplit
  <2>3. NoReport \in DrainReport
    BY DEF NoReport, DrainReport
  <2>4. TypeOK'
    BY <1>1, <1>3, <1>9, <2>0, <2>1, <2>3 DEF TypeOK, EditFenceState
  <2>5. SerialQueue' /\ NeverIdle'
    BY <1>1, <1>9 DEF SerialQueue, NeverIdle
  <2>6. HonestVerdict'
    BY <1>1, <1>11, <2>0 DEF HonestVerdict
  <2>7. NoSilentWork'
    <3>1. terminalCount' = terminalCount /\ Len(accepted') = Len(ledger)
      BY <1>1, <1>9, Zenon
    <3> QED
      BY <2>0, <2>2, <3>1, Zenon DEF NoSilentWork
  <2>8. OwnDeadline' /\ TimeoutAccounts'
    BY <1>1, <2>0, <2>1 DEF OwnDeadline, TimeoutAccounts
  <2> QED
    BY <2>4, <2>5, <2>6, <2>7, <2>8
<1> QED
  BY <1>15, <1>16

\* settle() extends the terminal prefix by the edit that was in flight, so the
\* ledger is serial again, with nothing in flight.
LEMMA SettleExtends ==
    ASSUME NEW ledger \in Seq(AcceptedEdit), NEW new \in Seq(AcceptedEdit),
           NEW count \in Nat, NEW busy \in BOOLEAN,
           SerialShape(ledger, count, busy),
           count < Len(ledger),
           Len(new) = Len(ledger),
           new[count + 1].phase = "terminal",
           new[count + 1].outcome # "pending",
           \A j \in 1 .. Len(ledger) : j # count + 1 => new[j] = ledger[j]
    PROVE  SerialShape(new, count + 1, FALSE)
<1>1. /\ Len(ledger) \in Nat /\ DOMAIN ledger = 1 .. Len(ledger)
      /\ DOMAIN new = 1 .. Len(ledger)
  BY LenProperties
<1>2. ASSUME NEW j \in DOMAIN new
      PROVE  /\ new[j].phase = "terminal" <=> j <= count + 1
             /\ new[j].phase # "in-flight"
             /\ new[j].outcome = "pending" <=> j > count + 1
  <2>1. CASE j = count + 1
    BY <1>1, <1>2, <2>1
  <2>2. CASE j # count + 1
    <3>1. new[j] = ledger[j] /\ j \in DOMAIN ledger /\ j \in Nat
      BY <1>1, <1>2, <2>2
    <3>2. /\ ledger[j].phase = "terminal" <=> j <= count
          /\ ledger[j].phase # "in-flight"
          /\ ledger[j].outcome = "pending" <=> j > count
      BY <2>2, <3>1 DEF SerialShape
    <3>3. (j <= count <=> j <= count + 1) /\ (j > count <=> j > count + 1)
      BY <2>2, <3>1
    <3> QED
      BY <3>1, <3>2, <3>3
  <2> QED
    BY <2>1, <2>2
<1>3. count + 1 <= Len(new)
  BY <1>1
<1> QED
  BY <1>2, <1>3 DEF SerialShape

\* settle() preserves the invariant.
LEMMA SettlePreserves ==
    ASSUME IInv, NEW i \in DOMAIN accepted, NEW raw \in RawOutcome, Settle(i, raw)
    PROVE  IInv'
<1> USE DEF IInv
<1> DEFINE c == classifyWriteOutcome(raw)
           ledger == [accepted EXCEPT ![i] = [phase |-> "terminal", outcome |-> c]]
           ff == IF c # "success" /\ firstFailure = 0 THEN i ELSE firstFailure
           count == terminalCount + 1
<1>1. /\ accepted[i].phase = "in-flight" /\ firstFailure' = ff
      /\ terminalCount' = count /\ OnTerminality(ledger, count, ff)
      /\ Pump(ledger, FALSE) /\ drain' = drain
  BY DEF Settle
<1>2. c \in OperationOutcome
  BY DEF classifyWriteOutcome, OperationOutcome
<1>3. /\ accepted \in Seq(AcceptedEdit) /\ terminalCount \in Nat
      /\ firstFailure \in Nat
      /\ Len(accepted) \in Nat /\ DOMAIN accepted = 1 .. Len(accepted)
  BY LenProperties DEF TypeOK
<1>4a. i = terminalCount + 1 /\ inFlight
  BY <1>1 DEF SerialQueue, SerialShape
<1>4. i = terminalCount + 1
  BY <1>4a, Zenon
<1>5. SerialShape(accepted, terminalCount, inFlight) /\ inFlight \in BOOLEAN
  BY DEF SerialQueue, TypeOK
<1>6. /\ ledger \in Seq(AcceptedEdit) /\ Len(ledger) = Len(accepted)
      /\ SerialShape(ledger, count, FALSE)
      /\ ledger[count].outcome = c
      /\ \A j \in 1 .. terminalCount : ledger[j] = accepted[j]
  <2> DEFINE e == [phase |-> "terminal", outcome |-> c]
  <2>1. e \in AcceptedEdit /\ e.phase = "terminal" /\ e.outcome = c /\ c # "pending"
    <3> HIDE DEF c
    <3> QED
      BY <1>2 DEF AcceptedEdit, Phase, OperationOutcome
  <2>2. i \in 1 .. Len(accepted)
    BY <1>3
  <2>3. ledger = [accepted EXCEPT ![i] = e]
    OBVIOUS
  <2> HIDE DEF c, e, ledger
  <2>4. /\ ledger \in Seq(AcceptedEdit) /\ Len(ledger) = Len(accepted)
        /\ \A j \in 1 .. Len(accepted) : ledger[j] = IF j = i THEN e ELSE accepted[j]
    BY <1>3, <2>1, <2>2, <2>3, ExceptSeq
  <2>5. /\ terminalCount < Len(accepted)
        /\ ledger[terminalCount + 1] = e
        /\ \A j \in 1 .. Len(accepted) : j # terminalCount + 1 => ledger[j] = accepted[j]
        /\ \A j \in 1 .. terminalCount : ledger[j] = accepted[j]
    BY <1>3, <1>4, <2>2, <2>4
  <2>6. SerialShape(ledger, terminalCount + 1, FALSE)
    BY <1>3, <1>5, <2>1, <2>4, <2>5, SettleExtends
  <2> QED
    BY <2>1, <2>4, <2>5, <2>6, Zenon
<1>7. ff \in Nat /\ count \in Nat /\ count <= Len(ledger) /\ Len(ledger) \in Nat
  BY <1>3, <1>4, <1>6
<1>8. IsFirstFailure(ledger, count, ff)
  <2> HIDE DEF c, ledger
  <2>1. IsFirstFailure(accepted, terminalCount, firstFailure)
    BY DEF HonestVerdict
  <2>2. IsFirstFailure(ledger, terminalCount, firstFailure)
    BY <1>3, <1>6, <2>1, FirstFailureCarries
  <2>3. CASE c = "success"
    BY <1>3, <1>6, <2>2, <2>3 DEF IsFirstFailure
  <2>4. CASE c # "success" /\ firstFailure = 0
    <3>1. \A j \in 1 .. (i - 1) : ledger[j].outcome = "success"
      BY <1>3, <1>4, <2>2, <2>4 DEF IsFirstFailure
    <3>2. ledger[i].outcome \in {"conflict", "failure"} /\ ff = i /\ i # 0 /\ i \in 1 .. count
      BY <1>2, <1>3, <1>4, <1>6, <2>4 DEF OperationOutcome
    <3> QED
      BY <3>1, <3>2 DEF IsFirstFailure
  <2>5. CASE firstFailure # 0
    BY <1>3, <2>2, <2>5 DEF IsFirstFailure
  <2> QED
    BY <2>3, <2>4, <2>5
<1> HIDE DEF ledger, ff, c
<1>9. /\ accepted' \in Seq(AcceptedEdit)
      /\ Len(accepted') = Len(ledger)
      /\ inFlight' \in BOOLEAN
      /\ SerialShape(accepted', count, inFlight')
      /\ inFlight' <=> count < Len(ledger)
      /\ \A j \in DOMAIN ledger : accepted'[j].outcome = ledger[j].outcome
  BY <1>1, <1>6, <1>7, PumpKeepsSerial
<1>10. DOMAIN ledger = 1 .. Len(ledger)
  BY <1>6, LenProperties
<1>11. \A j \in 1 .. count : accepted'[j].outcome = ledger[j].outcome
  BY <1>7, <1>9, <1>10
<1>12. IsFirstFailure(accepted', count, ff)
  BY <1>7, <1>8, <1>11, FirstFailureCarries
<1>13. VerdictReport(accepted', ff) = VerdictReport(ledger, ff)
  <2>1. CASE ff = 0
    BY <1>9, <2>1 DEF VerdictReport
  <2>2. CASE ff # 0
    <3>1. ff \in 1 .. count
      BY <1>8, <2>2 DEF IsFirstFailure
    <3> QED
      BY <1>9, <1>11, <3>1 DEF VerdictReport
  <2> QED
    BY <2>1, <2>2
<1>14. SerialQueue' /\ NeverIdle'
  BY <1>1, <1>9 DEF SerialQueue, NeverIdle
<1>15. terminalCount < Len(accepted) /\ terminalCount # Len(accepted)
  <2>1. i \in 1 .. Len(accepted)
    BY <1>3
  <2>2. terminalCount < Len(accepted)
    BY <1>3, <1>4, <2>1
  <2> QED
    BY <1>3, <2>2, LessNotEqual
<1>16. CASE count # Len(ledger)
  <2>1. UNCHANGED <<state, timers, report, settled>>
    BY <1>1, <1>16 DEF OnTerminality, AllTerminal
  <2>2. count < Len(ledger)
    BY <1>7, <1>16, LeqSplit
  <2>3. TypeOK'
    BY <1>1, <1>7, <1>9, <2>1 DEF TypeOK
  <2>4. state \notin {"drained", "failed"}
    BY <1>15, Zenon DEF NoSilentWork
  <2>5. HonestVerdict'
    BY <1>1, <1>12, <2>1, <2>4, Zenon DEF HonestVerdict
  <2>6. NoSilentWork'
    <3>1. /\ terminalCount' # Len(accepted') /\ terminalCount' < Len(accepted')
          /\ state' = state /\ settled' = settled
      BY <1>1, <1>9, <1>16, <2>1, <2>2, Zenon
    <3> QED
      BY <1>15, <3>1, Zenon DEF NoSilentWork
  <2>7. OwnDeadline'
    BY <1>1, <2>1 DEF OwnDeadline
  <2>8. TimeoutAccounts'
    <3>1. Len(accepted') = Len(accepted) /\ report' = report /\ state' = state
      BY <1>6, <1>9, <2>1, Zenon
    <3>2. ASSUME state \in {"timed-out", "terminal-after-timeout"}
          PROVE  report.settled <= count
      BY <1>3, <3>2 DEF TimeoutAccounts, TypeOK, DrainReport
    <3> QED
      BY <1>1, <3>1, <3>2 DEF TimeoutAccounts
  <2> QED
    BY <1>14, <2>3, <2>5, <2>6, <2>7, <2>8
<1>17. CASE count = Len(ledger)
  <2>0. terminalCount' = Len(accepted') /\ ~(terminalCount' < Len(accepted'))
    BY <1>1, <1>7, <1>9, <1>17
  <2>1. CASE state = "draining"
    <3>1. /\ settled' /\ settled' \in BOOLEAN /\ timers' = DisarmDeadline
          /\ state' = VerdictState(ff) /\ report' = VerdictReport(ledger, ff)
      BY <1>1, <1>17, <2>1, Zenon DEF OnTerminality, AllTerminal
    <3>2. state' \in {"drained", "failed"}
      BY <3>1 DEF VerdictState
    <3>3. timers' = {}
      BY <2>1, <3>1 DEF DisarmDeadline, OwnDeadline
    <3>4. VerdictReport(ledger, ff) \in DrainReport
      BY <1>7 DEF VerdictReport, DrainReport
    <3>5. TypeOK'
      BY <1>1, <1>7, <1>9, <3>1, <3>2, <3>3, <3>4 DEF TypeOK, EditFenceState
    <3>6. HonestVerdict'
      BY <1>1, <1>12, <1>13, <3>1 DEF HonestVerdict
    <3>7. NoSilentWork'
      BY <2>0, <3>1, <3>2, Zenon DEF NoSilentWork
    <3>8. OwnDeadline' /\ TimeoutAccounts'
      BY <3>2, <3>3 DEF OwnDeadline, TimeoutAccounts
    <3> QED
      BY <1>14, <3>5, <3>6, <3>7, <3>8
  <2>2. CASE state # "draining"
    <3>1. /\ settled' /\ settled' \in BOOLEAN /\ timers' = timers /\ report' = report
          /\ state' = LateTerminality(state)
      BY <1>1, <1>17, <2>2, Zenon DEF OnTerminality, AllTerminal
    <3>2. state \in {"open", "timed-out"}
      BY <1>15, <2>2, Zenon DEF NoSilentWork
    <3>3. state' = IF state = "open" THEN "open" ELSE "terminal-after-timeout"
      BY <3>1, <3>2 DEF LateTerminality
    <3>4. TypeOK'
      BY <1>1, <1>7, <1>9, <3>1, <3>3 DEF TypeOK, EditFenceState
    <3>5. HonestVerdict'
      BY <1>1, <1>12, <3>3 DEF HonestVerdict
    <3>6. NoSilentWork'
      <4>1. state' \notin {"draining", "timed-out"}
        BY <3>3
      <4> QED
        BY <2>0, <3>1, <4>1, Zenon DEF NoSilentWork
    <3>7. OwnDeadline'
      BY <2>2, <3>1, <3>3 DEF OwnDeadline
    <3>8. TimeoutAccounts'
      <4>1. Len(accepted') = Len(accepted) /\ report' = report
        BY <1>6, <1>9, <3>1, Zenon
      <4>2. ASSUME state = "timed-out"
            PROVE  report.settled <= count
        BY <1>3, <4>2 DEF TimeoutAccounts, TypeOK, DrainReport
      <4> QED
        BY <1>1, <3>2, <3>3, <4>1, <4>2 DEF TimeoutAccounts
    <3> QED
      BY <1>14, <3>4, <3>5, <3>6, <3>7, <3>8
  <2> QED
    BY <2>1, <2>2
<1> QED
  BY <1>16, <1>17

\* The deadline tick preserves the invariant: only the current drain's timer
\* is armed, so a tick is always the timeout of the drain being waited for.
LEMMA OnDeadlinePreserves ==
    ASSUME IInv, NEW t \in timers, OnDeadline(t)
    PROVE  IInv'
<1> USE DEF IInv
<1>1. state = "draining" /\ timers = {drain} /\ t = drain
  BY DEF OwnDeadline
<1>2. /\ timers' = timers \ {t} /\ state' = "timed-out"
      /\ report' = [kind |-> "timed-out", settled |-> terminalCount,
                    pending |-> Unsettled]
      /\ UNCHANGED <<accepted, terminalCount, inFlight, firstFailure, drain, settled>>
  BY <1>1 DEF OnDeadline
<1>3. timers' = {}
  BY <1>1, <1>2
<1>4. Len(accepted) \in Nat /\ terminalCount \in Nat
  BY LenProperties DEF TypeOK
<1>5. terminalCount < Len(accepted) /\ ~(settled)
  BY <1>1, <1>4, LessNotEqual, Zenon DEF NoSilentWork
<1>6. Unsettled \in Nat /\ Unsettled > 0 /\ terminalCount + Unsettled = Len(accepted)
  <2>1. terminalCount < Len(accepted)
    BY <1>5, Zenon
  <2> QED
    BY <1>4, <2>1 DEF Unsettled
<1>7. /\ report' \in DrainReport /\ report'.kind = "timed-out"
      /\ report'.settled = terminalCount /\ report'.pending = Unsettled
  BY <1>2, <1>4, <1>6 DEF DrainReport
<1>8. TypeOK'
  BY <1>2, <1>3, <1>7 DEF TypeOK, EditFenceState
<1>9. SerialQueue' /\ NeverIdle' /\ HonestVerdict'
  BY <1>2 DEF SerialQueue, NeverIdle, HonestVerdict
<1>10. NoSilentWork'
  BY <1>1, <1>2 DEF NoSilentWork
<1>11. OwnDeadline'
  BY <1>2, <1>3 DEF OwnDeadline
<1>12. TimeoutAccounts'
  BY <1>2, <1>4, <1>6, <1>7 DEF TimeoutAccounts
<1> QED
  BY <1>8, <1>9, <1>10, <1>11, <1>12

\* resume() preserves the invariant: it is legal only with nothing in flight,
\* so the fresh ledger starts idle.
LEMMA ResumePreserves == ASSUME IInv, Resume PROVE IInv'
<1> USE DEF IInv
<1>1. /\ state \in {"drained", "failed", "terminal-after-timeout"}
      /\ state' = "open" /\ accepted' = <<>> /\ terminalCount' = 0
      /\ firstFailure' = 0
      /\ UNCHANGED <<inFlight, drain, timers, report, settled>>
  BY DEF Resume
<1>2. state # "open" /\ state \notin {"draining", "timed-out"}
  BY <1>1
<1>3. ~inFlight
  BY <1>2, Zenon DEF NoSilentWork, NeverIdle
<1>4. accepted' \in Seq(AcceptedEdit) /\ Len(accepted') = 0 /\ DOMAIN accepted' = {}
  BY <1>1
<1>5. TypeOK'
  BY <1>1, <1>4 DEF TypeOK, EditFenceState
<1>6. terminalCount' <= Len(accepted') /\ ~(terminalCount' < Len(accepted'))
  BY <1>1, <1>4
<1>7. SerialQueue'
  BY <1>4, <1>6, Zenon DEF SerialQueue, SerialShape
<1>8. NeverIdle'
  BY <1>1, <1>3, <1>6, Zenon DEF NeverIdle
<1>9. HonestVerdict'
  BY <1>1 DEF HonestVerdict, IsFirstFailure
<1>10. NoSilentWork' /\ TimeoutAccounts'
  BY <1>1 DEF NoSilentWork, TimeoutAccounts
<1>11. OwnDeadline'
  BY <1>1 DEF OwnDeadline
<1> QED
  BY <1>5, <1>7, <1>8, <1>9, <1>10, <1>11

\* A new fence satisfies the invariant.
LEMMA InitEstablishes == ASSUME Init PROVE IInv
<1>1. /\ state = "open" /\ accepted = <<>> /\ terminalCount = 0 /\ inFlight = FALSE
      /\ firstFailure = 0 /\ drain = 0 /\ timers = {} /\ report = NoReport
      /\ settled = FALSE
  BY DEF Init
<1>2. accepted \in Seq(AcceptedEdit) /\ Len(accepted) = 0 /\ DOMAIN accepted = {}
  BY <1>1
<1>3. TypeOK
  BY <1>1, <1>2 DEF TypeOK, EditFenceState, NoReport, DrainReport
<1>4. SerialQueue /\ NeverIdle
  BY <1>1, <1>2 DEF SerialQueue, SerialShape, NeverIdle
<1>5. HonestVerdict /\ NoSilentWork /\ OwnDeadline /\ TimeoutAccounts
  BY <1>1 DEF HonestVerdict, IsFirstFailure, NoSilentWork, OwnDeadline, TimeoutAccounts
<1> QED
  BY <1>3, <1>4, <1>5 DEF IInv

-----------------------------------------------------------------------------
(* The theorems.                                                           *)

\* The inductive invariant holds in every reachable state of the fence.
THEOREM FenceInvariant == Spec => []IInv
<1>1. Init => IInv
  BY InitEstablishes
<1>2. IInv /\ [Next]_vars => IInv'
  <2> SUFFICES ASSUME IInv, [Next]_vars PROVE IInv'
    OBVIOUS
  <2>1. CASE Submit
    BY <2>1, SubmitPreserves
  <2>2. CASE \E n \in 0 .. MaxAccepted : Fence(n)
    <3>1. PICK n \in 0 .. MaxAccepted : Fence(n)
      BY <2>2
    <3>2. n \in Nat
      BY BoundsAssumption
    <3> QED
      BY <3>1, <3>2, FencePreserves
  <2>3. CASE SettleSome
    BY <2>3, SettlePreserves DEF SettleSome
  <2>4. CASE \E t \in timers : OnDeadline(t)
    BY <2>4, OnDeadlinePreserves
  <2>5. CASE Resume
    BY <2>5, ResumePreserves
  <2>6. CASE UNCHANGED vars
    BY <2>6 DEF vars, IInv, TypeOK, SerialQueue, NeverIdle, HonestVerdict,
                NoSilentWork, OwnDeadline, TimeoutAccounts
  <2> QED
    BY <2>1, <2>2, <2>3, <2>4, <2>5, <2>6 DEF Next
<1> QED
  BY <1>1, <1>2, PTL DEF Spec

\* The fence's variables keep their types, whatever the executor answers.
THEOREM FenceTypeOK == Spec => []TypeOK
<1>1. IInv => TypeOK
  BY DEF IInv
<1> QED
  BY <1>1, FenceInvariant, PTL

\* Accepted edits run in admission order, one at a time, and the queue never
\* stops while one of them is unsettled.
THEOREM FenceSerial == Spec => []SerialExecution
<1>1. IInv => SerialExecution
  BY DEF IInv, SerialExecution
<1> QED
  BY <1>1, FenceInvariant, PTL

\* A drain says "drained" only over a ledger in which every edit succeeded, and
\* blames the earliest failure otherwise; a timeout report accounts for every
\* accepted edit.
THEOREM FenceHonest == Spec => []HonestReports
<1>1. IInv => HonestReports
  BY DEF IInv, HonestReports
<1> QED
  BY <1>1, FenceInvariant, PTL

\* Both together: what the run of the fence checks.
THEOREM FenceLedger == Spec => []LedgerIsTrue
<1>1. IInv => LedgerIsTrue
  BY DEF IInv, LedgerIsTrue, SerialExecution, HonestReports
<1> QED
  BY <1>1, FenceInvariant, PTL

\* No fence is resumable while accepted work is unsettled.
THEOREM FenceNoSilentWork == Spec => []NoSilentWork
<1>1. IInv => NoSilentWork
  BY DEF IInv
<1> QED
  BY <1>1, FenceInvariant, PTL

\* No tick of an earlier drain's deadline can end a later drain.
THEOREM FenceOwnDeadline == Spec => []OwnDeadline
<1>1. IInv => OwnDeadline
  BY DEF IInv
<1> QED
  BY <1>1, FenceInvariant, PTL

\* While a drain is waited for nothing has been reported yet.
Unreported == state = "draining" => report = NoReport

LEMMA UnreportedHolds == Spec => []Unreported
<1>1. Init => Unreported
  BY DEF Init, Unreported
<1>2. Unreported /\ [Next]_vars => Unreported'
  <2> SUFFICES ASSUME Unreported, [Next]_vars PROVE Unreported'
    OBVIOUS
  <2>1. CASE Submit
    BY <2>1 DEF Submit, Unreported
  <2>2. ASSUME NEW n \in 0 .. MaxAccepted, Fence(n) PROVE Unreported'
    BY <2>2 DEF Fence, Unreported, VerdictState
  <2>3. ASSUME NEW i \in DOMAIN accepted, NEW raw \in RawOutcome, Settle(i, raw)
        PROVE  Unreported'
    <3>1. \/ UNCHANGED <<state, report>>
          \/ state' = VerdictState(firstFailure')
          \/ state # "draining" /\ state' = LateTerminality(state)
      BY <2>3 DEF Settle, OnTerminality
    <3> QED
      BY <3>1 DEF Unreported, VerdictState, LateTerminality
  <2>4. ASSUME NEW t \in timers, OnDeadline(t) PROVE Unreported'
    BY <2>4 DEF OnDeadline, Unreported
  <2>5. CASE Resume
    BY <2>5 DEF Resume, Unreported
  <2>6. CASE UNCHANGED vars
    BY <2>6 DEF vars, Unreported
  <2> QED
    BY <2>1, <2>2, <2>3, <2>4, <2>5, <2>6 DEF Next, SettleSome
<1> QED
  BY <1>1, <1>2, PTL DEF Spec

\* pump() dispatches an edit but never adds or drops one.
LEMMA PumpKeepsLength ==
    ASSUME NEW ledger \in Seq(AcceptedEdit), NEW busy, Pump(ledger, busy)
    PROVE  Len(accepted') = Len(ledger)
<1>1. CASE accepted' = ledger
  BY <1>1
<1>2. CASE accepted' = [ledger EXCEPT ![NextQueued(ledger)].phase = "in-flight"]
  <2>1. Len(ledger) \in Nat /\ DOMAIN ledger = 1 .. Len(ledger)
    BY LenProperties
  <2> QED
    BY <1>2, <2>1
<1> QED
  BY <1>1, <1>2 DEF Pump

\* Admission stays closed from fence() to resume(), for every number of edits,
\* and the report of a drain is final (edit-fence.ts, submit and onTerminality).
THEOREM FenceSealed == Spec => SealedDrain
<1>1. TypeOK /\ Unreported /\ [Next]_vars =>
        [state # "open" =>
           /\ state' # "open" => Len(accepted') = Len(accepted)
           /\ report # NoReport => report' = report]_vars
  <2> SUFFICES ASSUME TypeOK, Unreported, Next, state # "open"
               PROVE  /\ state' # "open" => Len(accepted') = Len(accepted)
                      /\ report # NoReport => report' = report
    OBVIOUS
  <2>1. ~Submit /\ \A n \in 0 .. MaxAccepted : ~Fence(n)
    BY DEF Submit, SubmitAdmits, Fence
  <2>2. ASSUME NEW i \in DOMAIN accepted, NEW raw \in RawOutcome, Settle(i, raw)
        PROVE  /\ Len(accepted') = Len(accepted)
               /\ report # NoReport => report' = report
    <3> DEFINE e == [phase |-> "terminal", outcome |-> classifyWriteOutcome(raw)]
               ledger == [accepted EXCEPT ![i] = e]
    <3>1. Pump(ledger, FALSE)
      BY <2>2 DEF Settle
    <3>2. e \in AcceptedEdit
      BY DEF AcceptedEdit, Phase, classifyWriteOutcome, OperationOutcome
    <3>3. accepted \in Seq(AcceptedEdit) /\ i \in 1 .. Len(accepted)
      BY LenProperties DEF TypeOK
    <3> HIDE DEF e
    <3>4. ledger \in Seq(AcceptedEdit) /\ Len(ledger) = Len(accepted)
      BY <3>2, <3>3, ExceptSeq
    <3> HIDE DEF ledger
    <3>5. Len(accepted') = Len(accepted)
      BY <3>1, <3>4, PumpKeepsLength
    <3>6. report' = report \/ state = "draining"
      BY <2>2 DEF Settle, OnTerminality
    <3> QED
      BY <3>5, <3>6 DEF Unreported
  <2>3. ASSUME NEW t \in timers, OnDeadline(t)
        PROVE  /\ accepted' = accepted
               /\ report # NoReport => report' = report
    BY <2>3 DEF OnDeadline, Unreported
  <2>4. Resume => state' = "open" /\ report' = report
    BY DEF Resume
  <2> QED
    BY <2>1, <2>2, <2>3, <2>4 DEF Next, SettleSome
<1> QED
  BY <1>1, UnreportedHolds, FenceTypeOK, PTL DEF Spec, SealedDrain

-----------------------------------------------------------------------------
(* The fence implements its contract.                                      *)

\* What the contract sees of a settlement: one edit less is owed, a failure
\* is never forgotten, and the last outcome ends the wait.
LEMMA SettleFinishes ==
    ASSUME IInv, IInv', NEW i \in DOMAIN accepted, NEW raw \in RawOutcome,
           Settle(i, raw)
    PROVE  Contract!Finish
<1> DEFINE c == classifyWriteOutcome(raw)
           e == [phase |-> "terminal", outcome |-> c]
           ledger == [accepted EXCEPT ![i] = e]
           ff == IF c # "success" /\ firstFailure = 0 THEN i ELSE firstFailure
<1>1. /\ firstFailure' = ff /\ terminalCount' = terminalCount + 1
      /\ OnTerminality(ledger, terminalCount + 1, ff)
      /\ Pump(ledger, FALSE)
  BY DEF Settle
<1>2. e \in AcceptedEdit
  BY DEF AcceptedEdit, Phase, classifyWriteOutcome, OperationOutcome
<1>3. /\ accepted \in Seq(AcceptedEdit) /\ terminalCount \in Nat
      /\ firstFailure \in Nat /\ Len(accepted) \in Nat
      /\ i \in 1 .. Len(accepted)
  BY LenProperties DEF IInv, TypeOK
<1> HIDE DEF e
<1>4. ledger \in Seq(AcceptedEdit) /\ Len(ledger) = Len(accepted)
  BY <1>2, <1>3, ExceptSeq
<1> HIDE DEF ledger
<1>5. Len(accepted') = Len(accepted)
  BY <1>1, <1>4, PumpKeepsLength
<1>6. terminalCount < Len(accepted)
  <2>1. i = terminalCount + 1
    BY DEF Settle, IInv, SerialQueue, SerialShape
  <2> QED
    BY <1>3, <2>1
<1>7. Unsettled \in Nat /\ Unsettled > 0 /\ Unsettled' = Unsettled - 1
  BY <1>1, <1>3, <1>5, <1>6 DEF Unsettled
<1>8. (firstFailure' # 0) \in {firstFailure # 0, TRUE}
  BY <1>1, <1>3
<1>9. VerdictState(ff) = Contract!Verdict(firstFailure' # 0)
  BY <1>1 DEF VerdictState, Contract!Verdict
<1>10. AllTerminal(ledger, terminalCount + 1) <=> Unsettled' = 0
  BY <1>3, <1>4, <1>7 DEF AllTerminal, Unsettled
<1>11. state \in {"open", "draining", "timed-out"}
  <2>1. terminalCount # Len(accepted)
    BY <1>3, <1>6
  <2> QED
    BY <1>6, <2>1, Zenon DEF IInv, NoSilentWork
<1>12. state' = IF Unsettled' > 0 \/ state = "open" THEN state
               ELSE IF state = "draining" THEN Contract!Verdict(firstFailure' # 0)
               ELSE "terminal-after-timeout"
  <2>1. CASE Unsettled' = 0
    BY <1>1, <1>9, <1>10, <1>11, <2>1 DEF OnTerminality, LateTerminality
  <2>2. CASE Unsettled' # 0
    <3>1. Unsettled' > 0
      BY <1>7, <2>2
    <3>2. state' = state
      BY <1>1, <1>10, <2>2 DEF OnTerminality
    <3> QED
      BY <3>1, <3>2
  <2> QED
    BY <2>1, <2>2
<1> QED
  BY <1>7, <1>8, <1>12 DEF Contract!Finish

\* fence() is the contract's Seal: the flushed edits are owed like the rest.
LEMMA FenceSeals ==
    ASSUME IInv, NEW n \in Nat, Fence(n)
    PROVE  Contract!Seal
<1> DEFINE ledger == Admit(accepted, n)
<1>1. /\ accepted \in Seq(AcceptedEdit) /\ terminalCount \in Nat
      /\ Len(accepted) \in Nat /\ firstFailure \in Nat
      /\ terminalCount <= Len(accepted)
  BY LenProperties DEF IInv, TypeOK, SerialQueue, SerialShape
<1>2. ledger \in Seq(AcceptedEdit) /\ Len(ledger) = Len(accepted) + n
  BY <1>1, AdmitAppends
<1>3. /\ state = "open" /\ Pump(ledger, inFlight)
      /\ UNCHANGED <<terminalCount, firstFailure>>
      /\ state' = IF AllTerminal(ledger, terminalCount)
                  THEN VerdictState(firstFailure) ELSE "draining"
  BY DEF Fence
<1> HIDE DEF ledger
<1>4. Len(accepted') = Len(accepted) + n
  BY <1>2, <1>3, PumpKeepsLength
<1>5. Unsettled \in Nat /\ Unsettled' = Unsettled + n
  BY <1>1, <1>3, <1>4 DEF Unsettled
<1>6. AllTerminal(ledger, terminalCount) <=> Unsettled' = 0
  BY <1>1, <1>2, <1>3, <1>4 DEF AllTerminal, Unsettled
<1>7. VerdictState(firstFailure) = Contract!Verdict(firstFailure # 0)
  BY DEF VerdictState, Contract!Verdict
<1>8. (firstFailure # 0)' = (firstFailure # 0)
  BY <1>3
<1> QED
  BY <1>3, <1>5, <1>6, <1>7, <1>8 DEF Contract!Seal

\* Every step of the fence is a step of the contract or changes nothing the
\* contract shows.
LEMMA StepKeepsContract ==
    ASSUME IInv, IInv', [Next]_vars
    PROVE  [Contract!Next]_(Contract!vars)
<1>1. /\ accepted \in Seq(AcceptedEdit) /\ terminalCount \in Nat
      /\ Len(accepted) \in Nat /\ terminalCount <= Len(accepted)
  BY LenProperties DEF IInv, TypeOK, SerialQueue, SerialShape
<1>2. CASE Submit
  <2>1. /\ state = "open" /\ Pump(Admit(accepted, 1), inFlight)
        /\ UNCHANGED <<state, terminalCount, firstFailure>>
    BY <1>2 DEF Submit, SubmitAdmits
  <2>2. Len(accepted') = Len(accepted) + 1
    BY <1>1, <2>1, AdmitAppends, PumpKeepsLength
  <2>3. Unsettled' = Unsettled + 1
    BY <1>1, <2>1, <2>2 DEF Unsettled
  <2>4. (firstFailure # 0)' = (firstFailure # 0)
    BY <2>1
  <2> QED
    BY <2>1, <2>3, <2>4 DEF Contract!Next, Contract!Accept
<1>3. ASSUME NEW n \in 0 .. MaxAccepted, Fence(n) PROVE Contract!Next
  <2>1. n \in Nat
    BY BoundsAssumption
  <2> QED
    BY <1>3, <2>1, FenceSeals DEF Contract!Next
<1>4. ASSUME NEW i \in DOMAIN accepted, NEW raw \in RawOutcome, Settle(i, raw)
      PROVE  Contract!Next
  BY <1>4, SettleFinishes DEF Contract!Next
<1>5. ASSUME NEW t \in timers, OnDeadline(t) PROVE Contract!Next
  <2>1. state = "draining"
    BY DEF IInv, OwnDeadline
  <2>2. state' = "timed-out" /\ UNCHANGED <<accepted, terminalCount, firstFailure>>
    BY <1>5, <2>1 DEF OnDeadline
  <2>3. Unsettled' = Unsettled /\ (firstFailure # 0)' = (firstFailure # 0)
    BY <2>2 DEF Unsettled
  <2> QED
    BY <2>1, <2>2, <2>3 DEF Contract!Next, Contract!GiveUp
<1>6. CASE Resume
  <2>1. /\ state \in {"drained", "failed", "terminal-after-timeout"}
        /\ state' = "open" /\ accepted' = <<>> /\ terminalCount' = 0
        /\ firstFailure' = 0
    BY <1>6 DEF Resume
  <2>2. terminalCount = Len(accepted)
    <3>1. ~(terminalCount < Len(accepted))
      BY <2>1, Zenon DEF IInv, NoSilentWork
    <3> QED
      BY <1>1, <3>1
  <2>3. Unsettled = 0 /\ Unsettled' = 0 /\ (firstFailure # 0)' = FALSE
    BY <1>1, <2>1, <2>2 DEF Unsettled
  <2> QED
    BY <2>1, <2>3 DEF Contract!Next, Contract!Reopen
<1>7. CASE UNCHANGED vars
  BY <1>7 DEF vars, Contract!vars, Unsettled
<1> QED
  BY <1>2, <1>3, <1>4, <1>5, <1>6, <1>7 DEF Next, SettleSome

\* The fence implements the contract a session transition relies on, for every
\* bound on the ledger and on the number of drains: nothing is admitted while it
\* is held, a verdict covers every accepted edit, and a wait that was given up
\* reopens only when nothing is owed (edit-fence.ts, EditFence and EditDrain).
THEOREM FenceKeepsContract == Spec => KeepsContract
<1>1. Init => Contract!Init
  BY DEF Init, Contract!Init, Unsettled
<1>2. IInv /\ IInv' /\ [Next]_vars => [Contract!Next]_(Contract!vars)
  BY StepKeepsContract
<1> QED
  BY <1>1, <1>2, FenceInvariant, PTL DEF Spec, KeepsContract, Contract!Spec

-----------------------------------------------------------------------------
(* The receipts.                                                           *)

CallersTyped == caller \in [Callers -> Caller]

HoldersCertified ==
    \A c \in Callers : caller[c].pc = "holding" => caller[c].how \in {"normal", "forced"}

ReceiptInv == CallersTyped /\ HoldersCertified /\ LedgerFitsHolders

\* Every edit of the ledger has an executor that was forked.
ExecutorsTyped ==
    /\ drain \in 0 .. MaxDrains
    /\ forked \in 0 .. MaxExecutors /\ seated \in BOOLEAN /\ (seated => forked # 0)
    /\ handle \in [Executors -> {"unborn", "running", "killed", "exited"}]
    /\ \A h \in Executors : h > forked => handle[h] = "unborn"
    /\ runsOn \in Seq(Nat) /\ Len(runsOn) = Len(accepted)
    /\ \A i \in 1 .. Len(runsOn) : runsOn[i] \in 1 .. forked

\* An executor that is not in the table was killed or has exited.
OthersDying == \A h \in 1 .. forked : handle[h] = "running" => seated /\ h = forked

\* A caller that has killed the executor of the drain it gave up.
Forcing(c) ==
    \/ caller[c].pc = "reaping"
    \/ caller[c].pc = "holding" /\ caller[c].how = "forced"

\* While its drain lasts every edit of the ledger runs on that executor or on
\* an earlier one, none of which runs on; a holder has seen it exit.
ForcedReaped ==
    \A c \in Callers : Forcing(c) =>
        /\ caller[c].reaped \in 1 .. forked
        /\ caller[c].drain <= drain
        /\ \A h \in 1 .. caller[c].reaped : handle[h] # "running"
        /\ caller[c].drain = drain /\ state # "open" =>
              \A i \in 1 .. Len(runsOn) : runsOn[i] <= caller[c].reaped
        /\ caller[c].pc = "holding" => handle[caller[c].reaped] = "exited"

ExecutorInv == ExecutorsTyped /\ OthersDying /\ ForcedReaped

\* A step brings no executor to life and undoes no exit.
OnlyDying ==
    \A k \in Executors :
        /\ handle'[k] = "running" => handle[k] = "running"
        /\ handle[k] = "exited" => handle'[k] = "exited"
        /\ handle[k] = "unborn" => handle'[k] = "unborn"

-----------------------------------------------------------------------------
\* The composition runs the fence: its steps are the fence's, or none.
LEMMA StepIsTheFences == [SwitchNext]_allVars => [Next]_vars
<1> SUFFICES ASSUME [SwitchNext]_allVars PROVE Next \/ UNCHANGED vars
  BY DEF vars
<1> USE DEF allVars
<1>1. CASE FenceRuns
  BY <1>1 DEF FenceRuns, Next
<1>2. CASE SubmitEdit
  BY <1>2 DEF SubmitEdit, Next
<1>3. CASE Fork \/ Dispose \/ ExecutorExits
  BY <1>3 DEF Fork, Dispose, ExecutorExits
<1>4. CASE \E c \in Callers : Open(c)
  BY <1>4 DEF Open, Next
<1>5. CASE \E c \in Callers : ResumeBy(c)
  BY <1>5 DEF ResumeBy, Next
<1>6. CASE \E c \in Callers :
              \/ PrepareNormal(c) \/ Prepared(c) \/ PrepareForced(c)
              \/ ObserveForcedExit(c) \/ Spend(c) \/ Complete(c)
  BY <1>6 DEF PrepareNormal, Prepared, PrepareForced, ObserveForcedExit, Spend, Complete
<1>7. CASE UNCHANGED allVars
  BY <1>7
<1> QED BY <1>1, <1>2, <1>3, <1>4, <1>5, <1>6, <1>7 DEF SwitchNext

-----------------------------------------------------------------------------
(* The ledger of receipts.                                                 *)

LEMMA InitEstablishesReceipts == SwitchInit => ReceiptInv
<1> SUFFICES ASSUME SwitchInit PROVE ReceiptInv
  OBVIOUS
<1>1. \A c \in Callers : /\ caller[c].pc = "idle"
                        /\ caller[c] \in [pc : {"idle"}, drain : {0}, target : Targets,
                                         how : {"none"}, reaped : {0}, resumed : {FALSE}]
  BY DEF SwitchInit
<1>2. 0 \in 0 .. MaxDrains /\ 0 \in 0 .. MaxExecutors
  BY BoundsAssumption, ExecutorsAssumption
<1>3. \A c \in Callers : caller[c] \in Caller
  BY <1>1, <1>2 DEF Caller, CallerPc
<1>4. CallersTyped
  BY <1>3 DEF SwitchInit, CallersTyped
<1>5. HoldersCertified /\ LedgerFitsHolders
  BY <1>1 DEF HoldersCertified, LedgerFitsHolders
<1> QED BY <1>4, <1>5 DEF ReceiptInv

\* A caller that moves without minting keeps every certificate, its own
\* receipt in the ledger if it still holds one, and the others'.
LEMMA MovesPreserve ==
  ASSUME ReceiptInv, NEW c \in Callers, NEW pc \in CallerPc \ {"holding"},
         At(c, pc),
         live' = live \/ (caller[c].pc = "holding" /\ live' = live \ {caller[c].target})
  PROVE  ReceiptInv'
<1>1. CallersTyped'
  BY DEF ReceiptInv, CallersTyped, Caller, At
<1>2. \A d \in Callers : caller'[d].pc = "holding" => d # c /\ caller'[d] = caller[d]
  BY DEF ReceiptInv, CallersTyped, Caller, At
<1>3. HoldersCertified'
  BY <1>2 DEF ReceiptInv, HoldersCertified
<1>4. LedgerFitsHolders'
  BY <1>2 DEF ReceiptInv, LedgerFitsHolders
<1> QED BY <1>1, <1>3, <1>4 DEF ReceiptInv

\* A minted receipt is certified and alone in the ledger under its target.
LEMMA MintPreserves ==
  ASSUME ReceiptInv, NEW c \in Callers, NEW how \in {"normal", "forced"}, Mint(c, how)
  PROVE  ReceiptInv'
<1>1. CASE caller[c].target \in live
  BY <1>1, MovesPreserve DEF Mint, CallerPc
<1>2. CASE caller[c].target \notin live
  <2>1. live' = live \cup {caller[c].target}
    BY <1>2 DEF Mint
  <2>2. caller' = [caller EXCEPT ![c].pc = "holding", ![c].how = how]
    BY <1>2 DEF Mint
  <2>3. CallersTyped'
    <3>1. caller \in [Callers -> Caller]
      BY DEF ReceiptInv, CallersTyped
    <3>2. [caller[c] EXCEPT !.pc = "holding", !.how = how] \in Caller
      BY <3>1 DEF Caller, CallerPc
    <3>3. caller' = [caller EXCEPT ![c] = [caller[c] EXCEPT !.pc = "holding", !.how = how]]
      BY <2>2, <3>1 DEF Caller
    <3> QED BY <3>1, <3>2, <3>3 DEF CallersTyped
  <2>4. \A d \in Callers \ {c} : caller'[d] = caller[d]
    BY <2>2 DEF ReceiptInv, CallersTyped, Caller
  <2>5. /\ caller'[c].pc = "holding" /\ caller'[c].how = how
        /\ caller'[c].target = caller[c].target
    BY <2>2 DEF ReceiptInv, CallersTyped, Caller
  <2>6. HoldersCertified'
    BY <2>4, <2>5 DEF ReceiptInv, HoldersCertified
  <2>7. LedgerFitsHolders'
    BY <1>2, <2>1, <2>4, <2>5 DEF ReceiptInv, LedgerFitsHolders
  <2> QED BY <2>3, <2>6, <2>7 DEF ReceiptInv
<1> QED BY <1>1, <1>2

\* Steps in which no caller gains, spends or loses a receipt.
LEMMA OthersPreserve ==
  ASSUME ReceiptInv, live' = live,
         \/ caller' = caller
         \/ \E c \in Callers : caller' = [caller EXCEPT ![c].resumed = TRUE]
  PROVE  ReceiptInv'
<1>1. CallersTyped'
  BY DEF ReceiptInv, CallersTyped, Caller
<1>2. \A d \in Callers : /\ caller'[d].pc = caller[d].pc
                        /\ caller'[d].how = caller[d].how
                        /\ caller'[d].target = caller[d].target
  BY DEF ReceiptInv, CallersTyped, Caller
<1>3. HoldersCertified' /\ LedgerFitsHolders'
  BY <1>2 DEF ReceiptInv, HoldersCertified, LedgerFitsHolders
<1> QED BY <1>1, <1>3 DEF ReceiptInv

\* A caller that closes the fence, or kills the executor of a drain.
LEMMA DrainingPreserves ==
  ASSUME ReceiptInv, ExecutorInv, NEW c \in Callers, Open(c) \/ PrepareForced(c)
  PROVE  ReceiptInv'
<1>1. PICK pc \in {"fenced", "reaping"}, d \in 0 .. MaxDrains, h \in 0 .. MaxExecutors :
        caller' = [caller EXCEPT ![c] = [caller[c] EXCEPT !.pc = pc, !.drain = d, !.reaped = h]]
  <2>1. CASE Open(c)
    <3>1. drain' \in 0 .. MaxDrains
      BY <2>1, BoundsAssumption DEF Open, Fence, ExecutorInv, ExecutorsTyped
    <3>2. caller' = [caller EXCEPT ![c] = [caller[c] EXCEPT !.pc = "fenced", !.drain = drain',
                                                          !.reaped = caller[c].reaped]]
      BY <2>1 DEF Open, ReceiptInv, CallersTyped, Caller
    <3>3. caller[c].reaped \in 0 .. MaxExecutors
      BY DEF ReceiptInv, CallersTyped, Caller
    <3> QED BY <3>1, <3>2, <3>3
  <2>2. CASE PrepareForced(c)
    <3>1. caller' = [caller EXCEPT ![c] = [caller[c] EXCEPT !.pc = "reaping", !.drain = drain,
                                                          !.reaped = forked]]
      BY <2>2 DEF PrepareForced, ReceiptInv, CallersTyped, Caller
    <3>2. drain \in 0 .. MaxDrains /\ forked \in 0 .. MaxExecutors
      BY DEF ExecutorInv, ExecutorsTyped
    <3> QED BY <3>1, <3>2
  <2> QED BY <2>1, <2>2
<1>2. live' = live
  BY DEF Open, PrepareForced
<1>3. CallersTyped'
  <2>1. [caller[c] EXCEPT !.pc = pc, !.drain = d, !.reaped = h] \in Caller
    BY DEF ReceiptInv, CallersTyped, Caller, CallerPc
  <2> QED BY <1>1, <2>1 DEF ReceiptInv, CallersTyped
<1>4. \A e \in Callers : caller'[e].pc = "holding" => caller'[e] = caller[e]
  BY <1>1 DEF ReceiptInv, CallersTyped, Caller
<1>5. HoldersCertified' /\ LedgerFitsHolders'
  BY <1>2, <1>4 DEF ReceiptInv, HoldersCertified, LedgerFitsHolders
<1> QED BY <1>3, <1>5 DEF ReceiptInv

LEMMA ReceiptStep == ExecutorInv /\ ReceiptInv /\ [SwitchNext]_allVars => ReceiptInv'
<1> SUFFICES ASSUME ExecutorInv, ReceiptInv, [SwitchNext]_allVars PROVE ReceiptInv'
  OBVIOUS
<1>1. CASE FenceRuns \/ SubmitEdit \/ Fork \/ Dispose \/ ExecutorExits \/ UNCHANGED allVars
  <2>1. UNCHANGED <<caller, live>>
    BY <1>1 DEF FenceRuns, SubmitEdit, Fork, Dispose, ExecutorExits, allVars, receipts
  <2> QED BY <2>1, OthersPreserve
<1>2. ASSUME NEW c \in Callers,
             \/ Open(c) \/ PrepareNormal(c) \/ Prepared(c)
             \/ PrepareForced(c) \/ ObserveForcedExit(c)
             \/ Spend(c) \/ Complete(c) \/ ResumeBy(c)
      PROVE  ReceiptInv'
  <2>1. CASE Open(c) \/ PrepareForced(c)
    BY <2>1, DrainingPreserves
  <2>2. CASE PrepareNormal(c)
    BY <2>2, MovesPreserve DEF PrepareNormal, CallerPc
  <2>3. CASE Prepared(c)
    BY <2>3, MovesPreserve, MintPreserves DEF Prepared, CallerPc
  <2>4. CASE ObserveForcedExit(c)
    BY <2>4, MovesPreserve, MintPreserves DEF ObserveForcedExit, CallerPc
  <2>5. CASE Spend(c)
    BY <2>5, MovesPreserve DEF Spend, CallerPc
  <2>6. CASE Complete(c)
    BY <2>6, MovesPreserve DEF Complete, CallerPc
  <2>7. CASE ResumeBy(c)
    BY <2>7, OthersPreserve DEF ResumeBy
  <2> QED BY <1>2, <2>1, <2>2, <2>3, <2>4, <2>5, <2>6, <2>7
<1> QED BY <1>1, <1>2 DEF SwitchNext

-----------------------------------------------------------------------------
(* The write executors.                                                    *)

\* What a settlement, a deadline tick or a submission leaves of the fence.
LEMMA FenceKeepsDrain ==
  ASSUME IInv, (\E i \in DOMAIN accepted, raw \in RawOutcome : Settle(i, raw))
               \/ (\E t \in timers : OnDeadline(t))
  PROVE  drain' = drain /\ (state = "open" => state' = "open") /\ Len(accepted') = Len(accepted)
<1>1. ASSUME NEW i \in DOMAIN accepted, NEW raw \in RawOutcome, Settle(i, raw)
      PROVE  /\ drain' = drain /\ (state = "open" => state' = "open")
             /\ Len(accepted') = Len(accepted)
  <2> DEFINE e == [phase |-> "terminal", outcome |-> classifyWriteOutcome(raw)]
             ledger == [accepted EXCEPT ![i] = e]
  <2>1. Pump(ledger, FALSE) /\ drain' = drain
    BY <1>1 DEF Settle
  <2>2. e \in AcceptedEdit
    BY DEF AcceptedEdit, Phase, classifyWriteOutcome, OperationOutcome
  <2>3. accepted \in Seq(AcceptedEdit) /\ i \in 1 .. Len(accepted)
    BY LenProperties DEF IInv, TypeOK
  <2>4. state = "open" => state' = "open"
    BY <1>1 DEF Settle, OnTerminality, LateTerminality
  <2> HIDE DEF e
  <2>5. ledger \in Seq(AcceptedEdit) /\ Len(ledger) = Len(accepted)
    BY <2>2, <2>3, ExceptSeq
  <2> HIDE DEF ledger
  <2> QED BY <2>1, <2>4, <2>5, PumpKeepsLength
<1>2. ASSUME NEW t \in timers, OnDeadline(t)
      PROVE  /\ drain' = drain /\ (state = "open" => state' = "open")
             /\ Len(accepted') = Len(accepted)
  BY <1>2 DEF OnDeadline
<1> QED BY <1>1, <1>2

\* The drain a step leaves is still one of the bound's.
LEMMA DrainsBounded ==
  ASSUME drain \in 0 .. MaxDrains, NEW n \in Nat, Fence(n)
  PROVE  drain' = drain + 1 /\ drain' \in 0 .. MaxDrains
BY BoundsAssumption DEF Fence

LEMMA InitEstablishesExecutors == SwitchInit => ExecutorInv
<1> SUFFICES ASSUME SwitchInit PROVE ExecutorInv
  OBVIOUS
<1>1. ExecutorsTyped
  <2>1. /\ drain = 0 /\ forked = 0 /\ seated = FALSE /\ accepted = <<>> /\ runsOn = <<>>
        /\ handle = [h \in Executors |-> "unborn"]
    BY DEF SwitchInit, Init
  <2>2. runsOn \in Seq(Nat) /\ Len(runsOn) = 0 /\ Len(accepted) = 0
    BY <2>1
  <2>3. drain \in 0 .. MaxDrains /\ forked \in 0 .. MaxExecutors
    BY <2>1, BoundsAssumption, ExecutorsAssumption
  <2>4. seated \in BOOLEAN /\ ~seated
    BY <2>1
  <2>5. handle \in [Executors -> {"unborn", "running", "killed", "exited"}]
    BY <2>1
  <2> QED BY <2>1, <2>2, <2>3, <2>4, <2>5 DEF ExecutorsTyped
<1>2. OthersDying
  BY DEF SwitchInit, OthersDying
<1>3. \A c \in Callers : ~Forcing(c)
  BY DEF SwitchInit, Forcing
<1> QED BY <1>1, <1>2, <1>3 DEF ExecutorInv, ForcedReaped

\* A settlement or a tick touches no executor.
LEMMA FenceRunsKeepsExecutors ==
  ASSUME IInv, ExecutorInv, FenceRuns PROVE ExecutorInv'
<1>1. drain' = drain /\ (state = "open" => state' = "open") /\ Len(accepted') = Len(accepted)
  BY FenceKeepsDrain DEF FenceRuns, SettleSome
<1>2. UNCHANGED <<caller, forked, seated, handle, runsOn>>
  BY DEF FenceRuns, executors
<1>3. ExecutorsTyped' /\ OthersDying'
  BY <1>1, <1>2 DEF ExecutorInv, ExecutorsTyped, OthersDying
<1>4. ForcedReaped'
  BY <1>1, <1>2 DEF ExecutorInv, ForcedReaped, Forcing
<1> QED BY <1>3, <1>4 DEF ExecutorInv

\* The ledger and its executors grow together, on the last executor.
LEMMA RunsGrow ==
  ASSUME ExecutorsTyped, NEW n \in Nat, n > 0 => forked # 0,
         runsOn' = runsOn \o [i \in 1 .. n |-> forked]
  PROVE  /\ runsOn' \in Seq(Nat) /\ Len(runsOn') = Len(runsOn) + n
         /\ \A i \in 1 .. Len(runsOn') : runsOn'[i] \in 1 .. forked
<1> DEFINE added == [i \in 1 .. n |-> forked]
<1>1. forked \in Nat /\ runsOn \in Seq(Nat)
  BY DEF ExecutorsTyped
<1>2. added \in Seq(Nat) /\ Len(added) = n
  BY <1>1
<1>3. runsOn' \in Seq(Nat) /\ Len(runsOn') = Len(runsOn) + n
  BY <1>1, <1>2, ConcatProperties
<1>4. ASSUME NEW i \in 1 .. Len(runsOn') PROVE runsOn'[i] \in 1 .. forked
  <2>1. CASE i <= Len(runsOn)
    <3>1. runsOn'[i] = runsOn[i]
      BY <1>1, <1>2, <2>1, ConcatProperties
    <3> QED BY <2>1, <3>1 DEF ExecutorsTyped
  <2>2. CASE i > Len(runsOn)
    <3>1. runsOn'[i] = added[i - Len(runsOn)] /\ i - Len(runsOn) \in 1 .. n
      BY <1>1, <1>2, <1>3, <2>2, ConcatProperties
    <3>2. runsOn'[i] = forked /\ forked # 0
      BY <3>1
    <3> QED BY <1>1, <3>2
  <2> QED BY <1>1, <2>1, <2>2
<1> QED BY <1>3, <1>4

LEMMA SubmitKeepsExecutors ==
  ASSUME IInv, ExecutorInv, SubmitEdit PROVE ExecutorInv'
<1>1. /\ state = "open" /\ UNCHANGED <<state, drain, caller, forked, seated, handle>>
      /\ runsOn' = Append(runsOn, forked) /\ Pump(Admit(accepted, 1), inFlight)
  BY DEF SubmitEdit, Submit, SubmitAdmits, receipts
<1>2. Len(accepted') = Len(accepted) + 1
  BY <1>1, AdmitAppends, PumpKeepsLength DEF IInv, TypeOK
<1>3. seated /\ forked # 0
  BY DEF SubmitEdit, ExecutorInv, ExecutorsTyped
<1>4. /\ runsOn' \in Seq(Nat) /\ Len(runsOn') = Len(runsOn) + 1
      /\ \A i \in 1 .. Len(runsOn') : runsOn'[i] \in 1 .. forked
  BY <1>1, <1>3 DEF ExecutorInv, ExecutorsTyped
<1>5. ExecutorsTyped' /\ OthersDying'
  BY <1>1, <1>2, <1>4 DEF ExecutorInv, ExecutorsTyped, OthersDying
<1>6. ForcedReaped'
  BY <1>1 DEF ExecutorInv, ForcedReaped, Forcing
<1> QED BY <1>5, <1>6 DEF ExecutorInv

LEMMA ForkKeepsExecutors ==
  ASSUME ExecutorInv, Fork PROVE ExecutorInv'
<1>1. /\ ~seated /\ forked' = forked + 1 /\ seated' = TRUE
      /\ handle' = [handle EXCEPT ![forked + 1] = "running"]
      /\ UNCHANGED <<state, accepted, drain, caller, runsOn>>
  BY DEF Fork, vars, receipts
<1>2. forked \in Nat /\ forked + 1 \in Executors /\ forked' \in 0 .. MaxExecutors
  BY ExecutorsAssumption DEF Fork, ExecutorInv, ExecutorsTyped, Executors
<1>3. \A h \in 1 .. forked : handle'[h] = handle[h]
  BY <1>1, <1>2 DEF ExecutorInv, ExecutorsTyped, Executors
<1>4. handle' \in [Executors -> {"unborn", "running", "killed", "exited"}]
  BY <1>1, <1>2 DEF ExecutorInv, ExecutorsTyped
<1>5. ExecutorsTyped'
  <2>1. \A h \in Executors : h > forked' => handle'[h] = "unborn"
    BY <1>1, <1>2 DEF ExecutorInv, ExecutorsTyped, Executors
  <2>2. seated' \in BOOLEAN /\ forked' # 0
    BY <1>1, <1>2
  <2> QED BY <1>1, <1>2, <1>4, <2>1, <2>2 DEF ExecutorInv, ExecutorsTyped
<1>6. OthersDying'
  BY <1>1, <1>2, <1>3 DEF ExecutorInv, OthersDying
<1>7. ForcedReaped'
  <2> SUFFICES ASSUME NEW c \in Callers, Forcing(c)'
               PROVE  /\ caller'[c].reaped \in 1 .. forked'
                      /\ caller'[c].drain <= drain'
                      /\ \A h \in 1 .. caller'[c].reaped : handle'[h] # "running"
                      /\ caller'[c].drain = drain' /\ state' # "open" =>
                            \A i \in 1 .. Len(runsOn') : runsOn'[i] <= caller'[c].reaped
                      /\ caller'[c].pc = "holding" => handle'[caller'[c].reaped] = "exited"
    BY DEF ForcedReaped
  <2>1. Forcing(c) /\ caller' = caller
    BY <1>1 DEF Forcing
  <2>2. caller[c].reaped \in 1 .. forked
    BY <2>1 DEF ExecutorInv, ForcedReaped
  <2>3. handle'[caller[c].reaped] = handle[caller[c].reaped]
    <3>1. caller[c].reaped # forked + 1
      BY <1>2, <2>2
    <3> QED BY <1>1, <1>2, <3>1 DEF ExecutorInv, ExecutorsTyped
  <2> QED BY <1>1, <1>2, <1>3, <2>1, <2>2, <2>3 DEF ExecutorInv, ForcedReaped
<1> QED BY <1>5, <1>6, <1>7 DEF ExecutorInv

\* A kill or an exit makes no executor run and undoes no exit; the one it is of
\* leaves the table.
LEMMA DyingKeepsExecutors ==
  ASSUME ExecutorInv, NEW h \in 1 .. forked,
         handle' \in [Executors -> {"unborn", "running", "killed", "exited"}],
         OnlyDying,
         handle'[h] # "running" \/ h # forked, Evict(h) \/ seated' = seated,
         handle'[h] # "running" \/ seated' = seated,
         UNCHANGED <<state, accepted, drain, caller, forked, runsOn>>
  PROVE  ExecutorInv'
<1>1. ExecutorsTyped'
  <2>1. seated' \in BOOLEAN /\ (seated' => seated)
    <3>1. CASE Evict(h)
      BY <3>1 DEF ExecutorInv, ExecutorsTyped, Evict
    <3>2. CASE seated' = seated
      BY <3>2 DEF ExecutorInv, ExecutorsTyped
    <3> QED BY <3>1, <3>2
  <2>2. ExecutorsTyped /\ Len(accepted') = Len(accepted)
    BY DEF ExecutorInv
  <2>3. \A k \in Executors : k > forked => handle'[k] = "unborn"
    BY <2>2 DEF ExecutorsTyped, OnlyDying
  <2> QED BY <2>1, <2>2, <2>3 DEF ExecutorsTyped
<1> USE ExecutorsAssumption DEF Executors, OnlyDying
<1>2. OthersDying'
  BY DEF ExecutorInv, OthersDying, Evict, ExecutorsTyped
<1>3. ForcedReaped'
  <2> SUFFICES ASSUME NEW c \in Callers, Forcing(c)
               PROVE  /\ caller[c].reaped \in 1 .. forked
                      /\ caller[c].drain <= drain
                      /\ \A k \in 1 .. caller[c].reaped : handle'[k] # "running"
                      /\ caller[c].drain = drain /\ state # "open" =>
                            \A i \in 1 .. Len(runsOn) : runsOn[i] <= caller[c].reaped
                      /\ caller[c].pc = "holding" => handle'[caller[c].reaped] = "exited"
    BY DEF ForcedReaped, Forcing
  <2>1. forked \in Nat /\ forked <= MaxExecutors /\ caller[c].reaped \in 1 .. forked
    BY DEF ExecutorInv, ForcedReaped, ExecutorsTyped
  <2>2. \A k \in 1 .. caller[c].reaped : k \in Executors /\ handle[k] # "running"
    BY <2>1 DEF ExecutorInv, ForcedReaped
  <2>3. caller[c].reaped \in Executors
    BY <2>1
  <2>4. \A k \in 1 .. caller[c].reaped : handle'[k] # "running"
    BY <2>2
  <2>5. caller[c].pc = "holding" => handle'[caller[c].reaped] = "exited"
    BY <2>3 DEF ExecutorInv, ForcedReaped
  <2> QED BY <2>1, <2>4, <2>5 DEF ExecutorInv, ForcedReaped
<1> QED BY <1>1, <1>2, <1>3 DEF ExecutorInv

LEMMA KillFacts ==
  ASSUME ExecutorInv, NEW h \in 1 .. forked, Kill(h)
  PROVE  /\ handle' \in [Executors -> {"unborn", "running", "killed", "exited"}]
         /\ OnlyDying
         /\ handle'[h] # "running"
<1>1. handle \in [Executors -> {"unborn", "running", "killed", "exited"}]
  BY DEF ExecutorInv, ExecutorsTyped
<1>2. h \in Executors
  BY ExecutorsAssumption DEF ExecutorInv, ExecutorsTyped, Executors
<1>3. CASE handle[h] = "running"
  BY <1>1, <1>2, <1>3 DEF Kill, OnlyDying
<1>4. CASE handle[h] # "running"
  BY <1>1, <1>4 DEF Kill, OnlyDying
<1> QED BY <1>3, <1>4

LEMMA DisposeKeepsExecutors ==
  ASSUME ExecutorInv, Dispose PROVE ExecutorInv'
<1>1. PICK i \in DOMAIN accepted : Kill(runsOn[i]) /\ Evict(runsOn[i])
  BY DEF Dispose
<1>2. DOMAIN accepted = 1 .. Len(runsOn)
  BY LenProperties DEF ExecutorInv, ExecutorsTyped
<1>3. runsOn[i] \in 1 .. forked
  BY <1>2 DEF ExecutorInv, ExecutorsTyped
<1>4. UNCHANGED <<state, accepted, drain, caller, forked, runsOn>>
  BY DEF Dispose, vars, receipts
<1> QED BY <1>1, <1>3, <1>4, KillFacts, DyingKeepsExecutors

LEMMA ExitKeepsExecutors ==
  ASSUME ExecutorInv, ExecutorExits PROVE ExecutorInv'
<1>1. PICK h \in Executors : /\ handle[h] \in {"running", "killed"}
                            /\ handle' = [handle EXCEPT ![h] = "exited"]
                            /\ Evict(h)
  BY DEF ExecutorExits
<1>2. UNCHANGED <<state, accepted, drain, caller, forked, runsOn>>
  BY DEF ExecutorExits, vars, receipts
<1>3. handle \in [Executors -> {"unborn", "running", "killed", "exited"}] /\ forked \in Nat
  BY DEF ExecutorInv, ExecutorsTyped
<1>4. /\ handle' \in [Executors -> {"unborn", "running", "killed", "exited"}]
      /\ handle'[h] = "exited"
      /\ OnlyDying
  BY <1>1, <1>3 DEF OnlyDying
<1>5. h \in 1 .. forked
  BY <1>1, <1>3, ExecutorsAssumption DEF ExecutorInv, ExecutorsTyped, Executors
<1> QED BY <1>1, <1>2, <1>4, <1>5, DyingKeepsExecutors

\* Steps of the callers that leave the fence and the executors alone.
LEMMA CallersKeepExecutors ==
  ASSUME ExecutorInv, UNCHANGED <<vars, executors>>,
         \A c \in Callers : Forcing(c)' =>
            /\ Forcing(c)
            /\ caller'[c].drain = caller[c].drain /\ caller'[c].reaped = caller[c].reaped
            /\ caller'[c].pc = "holding" => handle[caller[c].reaped] = "exited"
  PROVE  ExecutorInv'
<1>1. UNCHANGED <<state, accepted, drain, forked, seated, handle, runsOn>>
  BY DEF vars, executors
<1>2. ExecutorsTyped' /\ OthersDying'
  BY <1>1 DEF ExecutorInv, ExecutorsTyped, OthersDying
<1>3. ForcedReaped'
  BY <1>1 DEF ExecutorInv, ForcedReaped
<1> QED BY <1>2, <1>3 DEF ExecutorInv

LEMMA OpenKeepsExecutors ==
  ASSUME IInv, ReceiptInv, ExecutorInv, NEW c \in Callers, Open(c) PROVE ExecutorInv'
<1>1. PICK n \in 0 .. MaxAccepted :
        /\ forked = 0 => n = 0
        /\ Fence(n) /\ runsOn' = runsOn \o [i \in 1 .. n |-> forked]
  BY DEF Open
<1>2. n \in Nat /\ (n > 0 => forked # 0)
  BY <1>1, BoundsAssumption
<1>3. /\ UNCHANGED <<forked, seated, handle>>
      /\ caller' = [caller EXCEPT ![c].pc = "fenced", ![c].drain = drain']
  BY DEF Open
<1>4. drain \in Nat /\ drain' = drain + 1 /\ drain' \in 0 .. MaxDrains
  BY <1>1, <1>2, DrainsBounded DEF ExecutorInv, ExecutorsTyped
<1>5. Len(accepted') = Len(accepted) + n
  BY <1>1, <1>2, AdmitAppends, PumpKeepsLength DEF Fence, IInv, TypeOK
<1>6. /\ runsOn' \in Seq(Nat) /\ Len(runsOn') = Len(runsOn) + n
      /\ \A i \in 1 .. Len(runsOn') : runsOn'[i] \in 1 .. forked
  BY <1>1, <1>2, RunsGrow DEF ExecutorInv
<1>7. ExecutorsTyped' /\ OthersDying'
  BY <1>3, <1>4, <1>5, <1>6 DEF ExecutorInv, ExecutorsTyped, OthersDying
<1>8. ForcedReaped'
  <2> SUFFICES ASSUME NEW d \in Callers, Forcing(d)'
               PROVE  /\ caller'[d].reaped \in 1 .. forked
                      /\ caller'[d].drain <= drain' /\ caller'[d].drain # drain'
                      /\ \A h \in 1 .. caller'[d].reaped : handle[h] # "running"
                      /\ caller'[d].pc = "holding" => handle[caller'[d].reaped] = "exited"
    BY <1>3 DEF ForcedReaped
  <2>1. d # c /\ caller'[d] = caller[d]
    BY <1>3 DEF Forcing, ReceiptInv, CallersTyped, Caller
  <2>2. Forcing(d)
    BY <2>1 DEF Forcing
  <2>3. caller[d].drain \in 0 .. MaxDrains /\ caller[d].drain <= drain
    BY <2>2 DEF ExecutorInv, ForcedReaped, ReceiptInv, CallersTyped, Caller
  <2>4. caller[d].drain <= drain' /\ caller[d].drain # drain'
    BY <1>4, <2>3, BoundsAssumption
  <2> QED BY <2>1, <2>2, <2>4 DEF ExecutorInv, ForcedReaped
<1> QED BY <1>7, <1>8 DEF ExecutorInv

LEMMA ResumeKeepsExecutors ==
  ASSUME ReceiptInv, ExecutorInv, NEW c \in Callers, ResumeBy(c) PROVE ExecutorInv'
<1>1. /\ state' = "open" /\ accepted' = <<>> /\ runsOn' = <<>>
      /\ UNCHANGED <<drain, forked, seated, handle>>
      /\ caller' = [caller EXCEPT ![c].resumed = TRUE]
  BY DEF ResumeBy, Resume
<1>2. runsOn' \in Seq(Nat) /\ Len(runsOn') = 0 /\ Len(accepted') = 0
  BY <1>1
<1>3. ExecutorsTyped' /\ OthersDying'
  BY <1>1, <1>2 DEF ExecutorInv, ExecutorsTyped, OthersDying
<1>4. \A d \in Callers :
        /\ caller'[d].pc = caller[d].pc /\ caller'[d].how = caller[d].how
        /\ caller'[d].reaped = caller[d].reaped /\ caller'[d].drain = caller[d].drain
  BY <1>1 DEF ReceiptInv, CallersTyped, Caller
<1>5. ForcedReaped'
  BY <1>1, <1>4 DEF ExecutorInv, ForcedReaped, Forcing
<1> QED BY <1>3, <1>5 DEF ExecutorInv

\* The executor a caller kills is the last one: every edit of the ledger runs
\* on it or on one that left the table before.
LEMMA ForceKeepsExecutors ==
  ASSUME ReceiptInv, ExecutorInv, NEW c \in Callers, PrepareForced(c) PROVE ExecutorInv'
<1>1. /\ forked # 0 /\ Kill(forked) /\ UNCHANGED <<state, accepted, drain, forked, seated, runsOn>>
      /\ caller' = [caller EXCEPT ![c].pc = "reaping", ![c].drain = drain, ![c].reaped = forked]
  BY DEF PrepareForced, vars
<1>2. forked \in Nat /\ forked \in 1 .. forked /\ drain \in Nat
  BY <1>1 DEF ExecutorInv, ExecutorsTyped
<1>3. /\ handle' \in [Executors -> {"unborn", "running", "killed", "exited"}]
      /\ OnlyDying
      /\ handle'[forked] # "running"
  BY <1>1, <1>2, KillFacts
<1>4. ExecutorsTyped'
  <2>1. \A k \in Executors : k > forked => handle'[k] = "unborn"
    BY <1>3 DEF ExecutorInv, ExecutorsTyped, OnlyDying
  <2>2. Len(accepted') = Len(accepted)
    BY <1>1
  <2> QED BY <1>1, <1>3, <2>1, <2>2 DEF ExecutorInv, ExecutorsTyped
<1>5. \A h \in 1 .. forked : h \in Executors
  BY ExecutorsAssumption DEF Executors, ExecutorInv, ExecutorsTyped
<1>6. \A h \in 1 .. forked : handle'[h] # "running"
  BY <1>2, <1>3, <1>5 DEF ExecutorInv, OthersDying, OnlyDying
<1>7. OthersDying'
  BY <1>1, <1>6 DEF OthersDying
<1>8. ForcedReaped'
  <2> SUFFICES ASSUME NEW d \in Callers, Forcing(d)'
               PROVE  /\ caller'[d].reaped \in 1 .. forked
                      /\ caller'[d].drain <= drain
                      /\ \A h \in 1 .. caller'[d].reaped : handle'[h] # "running"
                      /\ caller'[d].drain = drain /\ state # "open" =>
                            \A i \in 1 .. Len(runsOn) : runsOn[i] <= caller'[d].reaped
                      /\ caller'[d].pc = "holding" => handle'[caller'[d].reaped] = "exited"
    BY <1>1 DEF ForcedReaped
  <2>1. CASE d = c
    <3>1. /\ caller'[d].pc = "reaping" /\ caller'[d].drain = drain
          /\ caller'[d].reaped = forked
      BY <1>1, <2>1 DEF ReceiptInv, CallersTyped, Caller
    <3>2. \A i \in 1 .. Len(runsOn) : runsOn[i] <= forked
      BY <1>2 DEF ExecutorInv, ExecutorsTyped
    <3> QED BY <1>2, <1>6, <3>1, <3>2
  <2>2. CASE d # c
    <3>1. caller'[d] = caller[d]
      BY <1>1, <2>2 DEF ReceiptInv, CallersTyped, Caller
    <3>2. Forcing(d)
      BY <3>1 DEF Forcing
    <3>3. caller[d].reaped \in 1 .. forked /\ caller[d].reaped \in Executors
      BY <1>2, <3>2, ExecutorsAssumption DEF ExecutorInv, ForcedReaped, ExecutorsTyped, Executors
    <3>4. \A h \in 1 .. caller[d].reaped : h \in 1 .. forked
      BY <1>2, <3>3
    <3>5. caller[d].pc = "holding" => handle'[caller[d].reaped] = "exited"
      BY <1>3, <3>2, <3>3 DEF ExecutorInv, ForcedReaped, OnlyDying
    <3>6. /\ caller[d].drain <= drain
          /\ caller[d].drain = drain /\ state # "open" =>
                \A i \in 1 .. Len(runsOn) : runsOn[i] <= caller[d].reaped
      BY <3>2 DEF ExecutorInv, ForcedReaped
    <3> QED BY <1>6, <3>1, <3>3, <3>4, <3>5, <3>6
  <2> QED BY <2>1, <2>2
<1> QED BY <1>4, <1>7, <1>8 DEF ExecutorInv

LEMMA ExecutorStep == IInv /\ ReceiptInv /\ ExecutorInv /\ [SwitchNext]_allVars => ExecutorInv'
<1> SUFFICES ASSUME IInv, ReceiptInv, ExecutorInv, [SwitchNext]_allVars PROVE ExecutorInv'
  OBVIOUS
<1>1. CASE FenceRuns
  BY <1>1, FenceRunsKeepsExecutors
<1>2. CASE SubmitEdit
  BY <1>2, SubmitKeepsExecutors
<1>3. CASE Fork
  BY <1>3, ForkKeepsExecutors
<1>4. CASE Dispose
  BY <1>4, DisposeKeepsExecutors
<1>5. CASE ExecutorExits
  BY <1>5, ExitKeepsExecutors
<1>6. CASE UNCHANGED allVars
  <2>1. UNCHANGED <<vars, executors, caller>>
    BY <1>6 DEF allVars, receipts
  <2>2. \A d \in Callers : Forcing(d)' = Forcing(d)
    BY <2>1 DEF Forcing
  <2> QED BY <2>1, <2>2, CallersKeepExecutors DEF ExecutorInv, ForcedReaped
<1>7. ASSUME NEW c \in Callers,
             \/ PrepareNormal(c) \/ Prepared(c) \/ ObserveForcedExit(c) \/ Spend(c) \/ Complete(c)
      PROVE  ExecutorInv'
  <2>1. UNCHANGED <<vars, executors>>
    BY <1>7 DEF PrepareNormal, Prepared, ObserveForcedExit, Spend, Complete
  <2>2. \A d \in Callers \ {c} : caller'[d] = caller[d]
    BY <1>7 DEF PrepareNormal, Prepared, ObserveForcedExit, Spend, Complete, At, Mint,
                ReceiptInv, CallersTyped, Caller
  <2>3. \/ caller'[c].pc \notin {"reaping", "holding"}
        \/ caller'[c].pc = "holding" /\ caller'[c].how = "normal"
        \/ /\ Forcing(c) /\ handle[caller[c].reaped] = "exited"
           /\ caller'[c].drain = caller[c].drain /\ caller'[c].reaped = caller[c].reaped
    BY <1>7 DEF PrepareNormal, Prepared, ObserveForcedExit, Spend, Complete, At, Mint,
                ReceiptInv, CallersTyped, Caller, Forcing
  <2>4. \A d \in Callers : Forcing(d)' =>
            /\ Forcing(d)
            /\ caller'[d].drain = caller[d].drain /\ caller'[d].reaped = caller[d].reaped
            /\ caller'[d].pc = "holding" => handle[caller[d].reaped] = "exited"
    BY <2>2, <2>3 DEF Forcing, ExecutorInv, ForcedReaped
  <2> QED BY <2>1, <2>4, CallersKeepExecutors
<1>8. ASSUME NEW c \in Callers, Open(c) \/ ResumeBy(c) \/ PrepareForced(c) PROVE ExecutorInv'
  BY <1>8, OpenKeepsExecutors, ResumeKeepsExecutors, ForceKeepsExecutors
<1> QED BY <1>1, <1>2, <1>3, <1>4, <1>5, <1>6, <1>7, <1>8 DEF SwitchNext

-----------------------------------------------------------------------------
\* The fence's own invariant holds in the composition.
LEMMA FenceHolds == SwitchSpec => []IInv
<1>1. SwitchInit => Init
  BY DEF SwitchInit
<1>2. SwitchSpec => Spec
  BY <1>1, StepIsTheFences, PTL DEF SwitchSpec, Spec
<1> QED BY <1>2, FenceInvariant, PTL

LEMMA ReceiptsHold == SwitchSpec => [](ReceiptInv /\ ExecutorInv)
BY InitEstablishesReceipts, InitEstablishesExecutors, ReceiptStep, ExecutorStep, FenceHolds, PTL
   DEF SwitchSpec

\* An unspent receipt has one holder, and the ledger knows it (switch-receipt.ts,
\* createReceiptLedger).
THEOREM ReceiptsAreUnique == SwitchSpec => []LedgerFitsHolders
<1>1. ReceiptInv => LedgerFitsHolders
  BY DEF ReceiptInv
<1> QED BY <1>1, ReceiptsHold, PTL

\* A fence in the drained state has a ledger of successes.
LEMMA DrainedIsQuiet == ASSUME IInv, state = "drained" PROVE AllSucceeded
<1>1. firstFailure = 0
  BY DEF IInv, HonestVerdict, VerdictState
<1>2. terminalCount = Len(accepted)
  <2>1. ~(terminalCount < Len(accepted))
    BY DEF IInv, NoSilentWork
  <2>2. terminalCount <= Len(accepted)
    BY DEF IInv, SerialQueue, SerialShape
  <2>3. terminalCount \in Nat /\ Len(accepted) \in Nat
    BY DEF IInv, TypeOK
  <2> QED BY <2>1, <2>2, <2>3
<1>3. \A i \in 1 .. terminalCount : accepted[i].outcome = "success"
  BY <1>1 DEF IInv, HonestVerdict, IsFirstFailure
<1>4. DOMAIN accepted = 1 .. Len(accepted)
  BY DEF IInv, TypeOK
<1> QED BY <1>2, <1>3, <1>4 DEF AllSucceeded

\* A spending step finds the fence quiet: the drained state means a ledger of
\* successes, and a forced receipt means an observed exit and, over its own
\* drain, that no edit's executor runs on.
LEMMA SpendFindsQuiet ==
  ASSUME IInv, ReceiptInv, ExecutorInv, [SwitchNext]_allVars, NEW c \in Callers,
         caller[c].pc = "holding", caller'[c].pc = "revoking"
  PROVE  /\ state # "open"
         /\ caller[c].how = "normal" => AllSucceeded
         /\ caller[c].how = "forced" =>
               /\ handle[caller[c].reaped] = "exited"
               /\ caller[c].drain = drain => OwedByDying
<1>1. Certified(caller[c].how)
  <2>1. caller' # caller
    OBVIOUS
  <2>2. ~(FenceRuns \/ SubmitEdit \/ Fork \/ Dispose \/ ExecutorExits \/ UNCHANGED allVars)
    BY <2>1 DEF FenceRuns, SubmitEdit, Fork, Dispose, ExecutorExits, allVars, receipts
  <2>3. PICK d \in Callers :
            \/ Open(d) \/ PrepareNormal(d) \/ Prepared(d)
            \/ PrepareForced(d) \/ ObserveForcedExit(d)
            \/ Spend(d) \/ Complete(d) \/ ResumeBy(d)
    BY <2>2 DEF SwitchNext
  <2>4. Spend(d) /\ Certified(caller[d].how)
    BY <2>3 DEF ReceiptInv, CallersTyped, Caller, At, Mint, Open, PrepareNormal, Prepared,
                PrepareForced, ObserveForcedExit, Spend, Complete, ResumeBy
  <2>5. d = c
    BY <2>4 DEF ReceiptInv, CallersTyped, Caller, At, Spend
  <2> QED BY <2>4, <2>5
<1>2. CASE caller[c].how = "forced"
  <2>1. Forcing(c) /\ state # "open"
    BY <1>1, <1>2 DEF Certified, Forcing
  <2>2. handle[caller[c].reaped] = "exited"
    BY <2>1 DEF ExecutorInv, ForcedReaped
  <2>3. ASSUME caller[c].drain = drain, NEW i \in DOMAIN accepted
        PROVE  handle[runsOn[i]] # "running"
    <3>1. i \in 1 .. Len(runsOn)
      BY LenProperties DEF ExecutorInv, ExecutorsTyped, IInv, TypeOK
    <3>2. runsOn[i] \in 1 .. forked /\ runsOn[i] <= caller[c].reaped
      BY <2>1, <2>3, <3>1 DEF ExecutorInv, ExecutorsTyped, ForcedReaped
    <3>3. forked \in Nat /\ caller[c].reaped \in 1 .. forked
      BY <2>1 DEF ExecutorInv, ExecutorsTyped, ForcedReaped
    <3>4. runsOn[i] \in 1 .. caller[c].reaped
      BY <3>2, <3>3
    <3> QED BY <2>1, <3>4 DEF ExecutorInv, ForcedReaped
  <2> QED BY <1>2, <2>1, <2>2, <2>3 DEF OwedByDying
<1>3. CASE caller[c].how # "forced"
  <2>1. state = "drained"
    BY <1>1, <1>3 DEF Certified
  <2> QED BY <1>3, <2>1, DrainedIsQuiet
<1> QED BY <1>2, <1>3

\* Authority is revoked only over a quiet fence, for every number of edits,
\* drains, executors and callers (switch-coordinator.ts, spendReceipt).
THEOREM ReceiptsSpentOverQuiet == SwitchSpec => SpentOverQuiet
<1>1. IInv /\ (ReceiptInv /\ ExecutorInv) /\ [SwitchNext]_allVars =>
        [\A c \in Callers :
           caller[c].pc = "holding" /\ caller'[c].pc = "revoking" =>
              /\ state # "open"
              /\ caller[c].how = "normal" => AllSucceeded
              /\ caller[c].how = "forced" =>
                    /\ handle[caller[c].reaped] = "exited"
                    /\ caller[c].drain = drain => OwedByDying]_allVars
  BY SpendFindsQuiet
<1> QED BY <1>1, FenceHolds, ReceiptsHold, PTL DEF SwitchSpec, SpentOverQuiet
=============================================================================
