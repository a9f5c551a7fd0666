----------------------------- MODULE EditFence -----------------------------
(***************************************************************************)
(* The edit fence of one session (packages/runtime/session-supervisor/     *)
(* fence/edit-fence.ts): one serialized queue of accepted edits, and the   *)
(* one bounded drain a transition waits for.  Every function of the source *)
(* runs to completion on the JavaScript event loop, so each public call,   *)
(* each settlement of an `execute` thunk and each deadline tick is one     *)
(* action, with the trailing pump() and onTerminality() folded in.         *)
(***************************************************************************)
EXTENDS Integers, Sequences

CONSTANTS
    MaxAccepted,   \* bound: edits one ledger may hold
    MaxDrains      \* bound: calls of fence() that begin a drain

ASSUME BoundsAssumption == MaxAccepted \in Nat /\ MaxDrains \in Nat

VARIABLES
    state,          \* EditFenceState
    accepted,       \* the ledger, in admission order
    terminalCount,  \* accepted edits that reached a terminal outcome
    inFlight,       \* is one accepted edit executing?
    firstFailure,   \* 0, or the ledger index of the first non-success outcome
    drain,          \* how many drains have begun (names the current EditDrain)
    timers,         \* the drains whose deadline tick is still armed
    report,         \* the current EditDrain's resolved DrainReport
    settled         \* has the current EditDrain's tracking promise resolved?

vars == <<state, accepted, terminalCount, inFlight, firstFailure,
          drain, timers, report, settled>>

EditFenceState ==
    {"open", "draining", "drained", "failed", "timed-out",
     "terminal-after-timeout"}

\* What edit-authority's executor answers for one write (WriteOutcome), the
\* rejection codes the fence tells apart, and a thunk that rejects.
RawOutcome ==
    {"committed", "rejected:changed-baseline", "rejected:target-exists",
     "rejected:other", "failed", "unknown", "thunk-rejected"}

OperationOutcome == {"success", "conflict", "failure"}

Phase == {"queued", "in-flight", "terminal"}

AcceptedEdit == [phase : Phase, outcome : OperationOutcome \cup {"pending"}]

NoReport == [kind |-> "none", settled |-> 0, pending |-> 0]

DrainReport ==
    [kind : {"none", "drained", "failed:conflict", "failed:write-failure",
             "timed-out"},
     settled : Nat, pending : Nat]

classifyWriteOutcome(raw) ==
    CASE raw = "committed" -> "success"
      [] raw \in {"rejected:changed-baseline", "rejected:target-exists"} -> "conflict"
      [] OTHER -> "failure"

-----------------------------------------------------------------------------
(* The ledger and the pump.                                                *)

\* admit() of n edits: pushed behind the ledger, in order.
Admit(ledger, n) ==
    ledger \o [i \in 1 .. n |-> [phase |-> "queued", outcome |-> "pending"]]

\* pump()'s scan: the first queued edit in admission order, 0 when none is.
\* The source's `cursor` only caches how far this scan has come.
NextQueued(ledger) ==
    IF \E i \in DOMAIN ledger : ledger[i].phase = "queued"
    THEN CHOOSE i \in DOMAIN ledger :
            /\ ledger[i].phase = "queued"
            /\ \A j \in DOMAIN ledger : j < i => ledger[j].phase # "queued"
    ELSE 0

\* pump(): while nothing is in flight, dispatch the next queued edit.
\* `busy` is the inFlight flag the pump finds.
Pump(ledger, busy) ==
    LET next == NextQueued(ledger)
    IN  IF busy \/ next = 0
        THEN accepted' = ledger /\ inFlight' = busy
        ELSE /\ accepted' = [ledger EXCEPT ![next].phase = "in-flight"]
             /\ inFlight' = TRUE

-----------------------------------------------------------------------------
(* The drain's deadline and verdict.                                       *)

\* Mutant: fence() arms no deadline.
ArmNothing == timers

\* clock.delay() for the drain that fence() begins; disarmDeadline().
ArmDeadline == timers \cup {drain + 1}
DisarmDeadline == timers \ {drain}

\* The accepted edits that are not terminal yet.
Unsettled == Len(accepted) - terminalCount

\* Mutant: the verdict does not wait for the queue.
AllTerminalAssumed(ledger, count) == TRUE

\* onTerminality()'s guard.
AllTerminal(ledger, count) == count = Len(ledger)

\* The verdict over the sealed ledger, given its first failure.
VerdictState(ff) == IF ff = 0 THEN "drained" ELSE "failed"

VerdictReport(ledger, ff) ==
    [kind |-> IF ff = 0 THEN "drained"
              ELSE IF ledger[ff].outcome = "conflict" THEN "failed:conflict"
              ELSE "failed:write-failure",
     settled |-> Len(ledger), pending |-> 0]

\* The state a fence that is not draining has once its ledger is terminal.
LateTerminality(from) ==
    IF from = "timed-out" THEN "terminal-after-timeout" ELSE from

\* onTerminality() after a settlement that left `ledger`, `count` and `ff`.
OnTerminality(ledger, count, ff) ==
    IF ~AllTerminal(ledger, count)
    THEN UNCHANGED <<state, timers, report, settled>>
    ELSE /\ settled' = TRUE
         /\ IF state = "draining"
            THEN /\ timers' = DisarmDeadline
                 /\ state' = VerdictState(ff)
                 /\ report' = VerdictReport(ledger, ff)
            ELSE /\ state' = LateTerminality(state)
                 /\ UNCHANGED <<timers, report>>

-----------------------------------------------------------------------------
(* The operations.                                                         *)

Init ==
    /\ state = "open"
    /\ accepted = <<>>
    /\ terminalCount = 0
    /\ inFlight = FALSE
    /\ firstFailure = 0
    /\ drain = 0
    /\ timers = {}
    /\ report = NoReport
    /\ settled = FALSE

\* submit() is refused, with no change, unless the fence is open.
SubmitAdmits == state = "open"

Submit ==
    /\ SubmitAdmits
    /\ Len(accepted) < MaxAccepted
    /\ Pump(Admit(accepted, 1), inFlight)
    /\ UNCHANGED <<state, terminalCount, firstFailure, drain, timers, report,
                   settled>>

\* fence(): admission closes, n pending debounces are flushed into the queue
\* and the deadline is armed.  A ledger that is already terminal answers, and
\* disarms, inside the same call.  A flush that throws re-opens the fence
\* before anything else changed: a stuttering step.
Fence(n) ==
    /\ state = "open"
    /\ drain < MaxDrains
    /\ Len(accepted) + n <= MaxAccepted
    /\ drain' = drain + 1
    /\ LET ledger == Admit(accepted, n)
       IN  /\ Pump(ledger, inFlight)
           /\ IF AllTerminal(ledger, terminalCount)
              THEN /\ timers' = ArmDeadline \ {drain + 1}
                   /\ settled' = TRUE
                   /\ state' = VerdictState(firstFailure)
                   /\ report' = VerdictReport(ledger, firstFailure)
              ELSE /\ timers' = ArmDeadline
                   /\ settled' = FALSE
                   /\ state' = "draining"
                   /\ report' = NoReport
    /\ UNCHANGED <<terminalCount, firstFailure>>

\* settle(): the in-flight edit's thunk answers, or rejects.
Settle(i, raw) ==
    /\ i \in DOMAIN accepted
    /\ accepted[i].phase = "in-flight"
    /\ LET classified == classifyWriteOutcome(raw)
           ledger == [accepted EXCEPT ![i] = [phase |-> "terminal",
                                              outcome |-> classified]]
           ff == IF classified # "success" /\ firstFailure = 0
                 THEN i ELSE firstFailure
       IN  /\ firstFailure' = ff
           /\ terminalCount' = terminalCount + 1
           /\ OnTerminality(ledger, terminalCount + 1, ff)
           /\ Pump(ledger, FALSE)
    /\ UNCHANGED drain

\* onDeadline(): an armed timer ticks; a late tick changes only the timer.
OnDeadline(t) ==
    /\ t \in timers
    /\ timers' = timers \ {t}
    /\ IF state = "draining"
       THEN /\ state' = "timed-out"
            /\ report' = [kind |-> "timed-out", settled |-> terminalCount,
                          pending |-> Unsettled]
       ELSE UNCHANGED <<state, report>>
    /\ UNCHANGED <<accepted, terminalCount, inFlight, firstFailure, drain,
                   settled>>

\* Mutant: resume() keeps the last ledger's failure.
ResumeKeepsFailure ==
    /\ state \in {"drained", "failed", "terminal-after-timeout"}
    /\ state' = "open"
    /\ accepted' = <<>>
    /\ terminalCount' = 0
    /\ UNCHANGED <<firstFailure, inFlight, drain, timers, report, settled>>

\* resume(): refused, with no change, while open, draining or timed-out.
Resume ==
    /\ state \in {"drained", "failed", "terminal-after-timeout"}
    /\ state' = "open"
    /\ accepted' = <<>>
    /\ terminalCount' = 0
    /\ firstFailure' = 0
    /\ UNCHANGED <<inFlight, drain, timers, report, settled>>

SettleSome ==
    \E i \in DOMAIN accepted, raw \in RawOutcome : Settle(i, raw)

Next ==
    \/ Submit
    \/ \E n \in 0 .. MaxAccepted : Fence(n)
    \/ SettleSome
    \/ \E t \in timers : OnDeadline(t)
    \/ Resume

Spec == Init /\ [][Next]_vars

\* The runtime fires every armed timer; nothing makes an executor answer.
FairSpec == Spec /\ WF_vars(\E t \in timers : OnDeadline(t))

-----------------------------------------------------------------------------
(* Properties.                                                             *)

TypeOK ==
    /\ state \in EditFenceState
    /\ accepted \in Seq(AcceptedEdit)
    /\ terminalCount \in Nat
    /\ inFlight \in BOOLEAN
    /\ firstFailure \in Nat
    /\ drain \in Nat
    /\ timers \subseteq Nat
    /\ report \in DrainReport
    /\ settled \in BOOLEAN

\* The shape of a serially executed ledger: a terminal prefix, then the one
\* edit in flight if the pump is busy, then queued edits.
SerialShape(ledger, count, busy) ==
    /\ count <= Len(ledger)
    /\ \A i \in DOMAIN ledger :
        /\ ledger[i].phase = "terminal" <=> i <= count
        /\ ledger[i].phase = "in-flight" <=> i = count + 1 /\ busy
        /\ ledger[i].outcome = "pending" <=> i > count

\* One serialized queue (edit-fence.ts, pump and settle): accepted edits run in
\* admission order, one at a time, and only terminal ones have an outcome.
SerialQueue == SerialShape(accepted, terminalCount, inFlight)

\* The queue never idles on work: if any accepted edit is not terminal, one is
\* in flight.  A pump that stopped would hang the drain.
NeverIdle == inFlight <=> terminalCount < Len(accepted)

\* The serialized write queue: in order, one at a time, and never stuck.
SerialExecution == SerialQueue /\ NeverIdle

\* ff is the earliest of the ledger's first `count` edits that did not succeed.
IsFirstFailure(ledger, count, ff) ==
    IF ff = 0
    THEN \A i \in 1 .. count : ledger[i].outcome = "success"
    ELSE /\ ff \in 1 .. count
         /\ ledger[ff].outcome \in {"conflict", "failure"}
         /\ \A i \in 1 .. (ff - 1) : ledger[i].outcome = "success"

\* The verdict is honest: firstFailure names the earliest non-success of the
\* whole sealed ledger, what settled before the fence included, and a drain
\* says "drained" only when there is none.
HonestVerdict ==
    /\ IsFirstFailure(accepted, terminalCount, firstFailure)
    /\ state \in {"drained", "failed"} =>
            /\ state = VerdictState(firstFailure)
            /\ report = VerdictReport(accepted, firstFailure)

\* A timeout report accounts for every accepted edit.
TimeoutAccounts ==
    state \in {"timed-out", "terminal-after-timeout"} =>
        /\ report.kind = "timed-out"
        /\ report.settled + report.pending = Len(accepted)
        /\ report.pending > 0
        /\ report.settled <= terminalCount

\* What a drain reports is honest, whichever way it ended.
HonestReports == HonestVerdict /\ TimeoutAccounts

\* The ledger is worked off in order and without a stop, and whatever a drain says
\* of it, early or late, is so.
LedgerIsTrue == SerialExecution /\ HonestReports

\* The no-silent-work law: `settled` is resolved for a fenced session exactly
\* when every accepted edit is terminal, and the fence is resumable only then.
NoSilentWork ==
    state # "open" =>
        /\ settled <=> terminalCount = Len(accepted)
        /\ state \in {"draining", "timed-out"} <=> terminalCount < Len(accepted)

\* The deadline of the drain being waited for is the only timer armed: no
\* tick of an earlier drain can cut a later drain's five seconds short.
OwnDeadline == timers = IF state = "draining" THEN {drain} ELSE {}

\* Admission is closed while fenced: the ledger a drain reports on is sealed
\* until resume, and a given report is never replaced before the next drain.
SealedDrain ==
    [][state # "open" =>
         /\ state' # "open" => Len(accepted') = Len(accepted)
         /\ report # NoReport => report' = report]_vars

\* When write executors answer (an exit resolves what they still owe), a
\* timed-out fence always becomes resumable.
TimedOutResumable ==
    WF_vars(SettleSome) =>
        (state = "timed-out" ~> state = "terminal-after-timeout")

\* The fence keeps the contract a session transition relies on (EditFence and
\* EditDrain, edit-fence.ts): whatever the queue, the timers and the executors
\* do, each step is one of the contract's or changes nothing it shows.
Contract == INSTANCE DrainContract
    WITH owed <- Unsettled, bad <- firstFailure # 0

KeepsContract == Contract!Spec

\* Every drain answers, whatever the executor does, because its deadline is
\* armed (fence, onDeadline).
DrainAnswers == Contract!Answered

\* Nobody waits for ever for a drain, nor for the edits it gave up on.
DrainsEnd == DrainAnswers /\ TimedOutResumable

=============================================================================
