--------------------------- MODULE SwitchReceipts ---------------------------
(***************************************************************************)
(* The one-use receipts of a session's transitions (runtime/session-       *)
(* supervisor/commit/switch-coordinator.ts and switch-receipt.ts) over the *)
(* session's edit fence.  A caller closes the fence, has its transition    *)
(* prepared, by the drain's verdict or by force, and spends the receipt it *)
(* got; between any two of those steps edits settle, deadlines tick, write *)
(* executors exit or are disposed of and successors are forked, other      *)
(* callers act, and a caller may reopen the fence while it still holds its *)
(* receipt.                                                                *)
(***************************************************************************)
EXTENDS EditFence

CONSTANTS
    Callers,   \* the requests that run a transition of the session
    Targets,   \* the candidates they may commit, or a deactivation
    MaxExecutors \* bound: write executors forked for the session

ASSUME ExecutorsAssumption == MaxExecutors \in Nat

VARIABLES
    caller,    \* what each request has reached
    told,      \* what each drain's promise was resolved with
    live,      \* the targets with an unspent receipt: the ledger's keys
    held,      \* is the session's editor still the authoritative client?
    forked,    \* the write executors forked so far; the last one's number
    seated,    \* is the last one in the executor table?
    handle,    \* what has become of each executor
    runsOn     \* the executor each edit of the ledger runs on

receipts == <<caller, told, live, held>>
executors == <<forked, seated, handle, runsOn>>
allVars == <<vars, receipts, executors>>

CallerPc ==
    {"idle", "fenced", "waiting", "reaping", "holding", "revoking", "done",
     "refused", "rejected"}

Executors == 1 .. MaxExecutors

\* `how` tells the certificate of the receipt: a drained fence or the exit of
\* the executor that was `reaped`; `drain` is the drain it was prepared over.
Caller ==
    [pc : CallerPc, drain : 0 .. MaxDrains, target : Targets,
     how : {"none", "normal", "forced"}, reaped : 0 .. MaxExecutors, resumed : BOOLEAN]

SwitchTypeOK ==
    /\ caller \in [Callers -> Caller]
    /\ told \in [1 .. MaxDrains -> {"none", "drained", "not-drained"}]
    /\ live \subseteq Targets
    /\ held \in BOOLEAN
    /\ forked \in 0 .. MaxExecutors /\ seated \in BOOLEAN
    /\ handle \in [Executors -> {"unborn", "running", "killed", "exited"}]
    /\ runsOn \in Seq(Executors) /\ Len(runsOn) = Len(accepted)

SwitchInit ==
    /\ Init
    /\ caller \in [Callers -> [pc : {"idle"}, drain : {0}, target : Targets,
                               how : {"none"}, reaped : {0}, resumed : {FALSE}]]
    /\ told = [k \in 1 .. MaxDrains |-> "none"]
    /\ live = {} /\ held = TRUE
    /\ forked = 0 /\ seated = FALSE
    /\ handle = [h \in Executors |-> "unborn"]
    /\ runsOn = <<>>

\* A drain's outcome is a promise: what it was resolved with stays readable
\* after the fence has moved on.
Tell ==
    told' = IF report' # NoReport /\ told[drain'] = "none"
            THEN [told EXCEPT ![drain'] = IF report'.kind = "drained" THEN "drained" ELSE "not-drained"]
            ELSE told

\* A step of the fence that no caller takes and no edit enters by.
FenceRuns ==
    /\ SettleSome \/ (\E t \in timers : OnDeadline(t))
    /\ Tell
    /\ UNCHANGED <<caller, live, held, executors>>

-----------------------------------------------------------------------------
(* The session's write executors.                                          *)

\* writeExecutorFor, for an edit that finds none in the table: a successor is
\* forked, also when the fence refuses the edit afterwards.
Fork ==
    /\ ~seated /\ forked < MaxExecutors
    /\ forked' = forked + 1 /\ seated' = TRUE
    /\ handle' = [handle EXCEPT ![forked + 1] = "running"]
    /\ UNCHANGED <<vars, receipts, runsOn>>

\* An edit is submitted, to run on the executor of the table.
SubmitEdit ==
    /\ seated /\ Submit
    /\ runsOn' = Append(runsOn, forked)
    /\ UNCHANGED <<receipts, forked, seated, handle>>

\* An executor leaves the table, which its successor may hold by now.
Evict(h) == seated' = (seated /\ h # forked)

Kill(h) == handle' = IF handle[h] = "running" THEN [handle EXCEPT ![h] = "killed"] ELSE handle

\* disposeHungExecutor: the bounded wait for an edit's outcome has ended.
Dispose ==
    /\ \E i \in DOMAIN accepted :
          /\ accepted[i].phase # "terminal"
          /\ Kill(runsOn[i]) /\ Evict(runsOn[i])
    /\ UNCHANGED <<vars, receipts, forked, runsOn>>

\* An executor dies of a kill or of itself; what it owed settles in FenceRuns.
ExecutorExits ==
    /\ \E h \in Executors :
          /\ handle[h] \in {"running", "killed"}
          /\ handle' = [handle EXCEPT ![h] = "exited"]
          /\ Evict(h)
    /\ UNCHANGED <<vars, receipts, forked, runsOn>>

-----------------------------------------------------------------------------
(* The receipts.                                                           *)

At(c, pc) == caller' = [caller EXCEPT ![c].pc = pc]

\* fence.fence() by a request, with the pending debounces, which run on the
\* last executor.
Open(c) ==
    /\ caller[c].pc = "idle"
    /\ \E n \in 0 .. MaxAccepted :
          /\ forked = 0 => n = 0
          /\ Fence(n)
          /\ runsOn' = runsOn \o [i \in 1 .. n |-> forked]
    /\ Tell
    /\ caller' = [caller EXCEPT ![c].pc = "fenced", ![c].drain = drain']
    /\ UNCHANGED <<live, held, forked, seated, handle>>

\* prepareNormal up to its wait: a client that lost its authority is refused.
PrepareNormal(c) ==
    /\ caller[c].pc = "fenced"
    /\ At(c, IF held THEN "waiting" ELSE "refused")
    /\ UNCHANGED <<vars, told, live, held, executors>>

\* mintFor: one unspent receipt per old session and target.
Mint(c, how) ==
    IF caller[c].target \in live
    THEN At(c, "refused") /\ UNCHANGED live
    ELSE /\ live' = live \cup {caller[c].target}
         /\ caller' = [caller EXCEPT ![c].pc = "holding", ![c].how = how]

\* prepareNormal after its wait: the verdict is the drain's, the state the
\* fence's, which may belong to a later drain.
Prepared(c) ==
    /\ caller[c].pc = "waiting"
    /\ LET verdict == told[caller[c].drain]
       IN  /\ verdict # "none"
           /\ IF verdict = "drained" /\ state = "drained" THEN Mint(c, "normal")
              ELSE At(c, "refused") /\ UNCHANGED live
    /\ UNCHANGED <<vars, told, held, executors>>

\* prepareForced up to its wait: only over a drain that timed out; the executor
\* it is given, the session's last, is killed, which is not awaited.
PrepareForced(c) ==
    /\ caller[c].pc \in {"fenced", "refused"} /\ ~caller[c].resumed
    /\ held /\ state \in {"timed-out", "terminal-after-timeout"}
    /\ forked # 0 /\ Kill(forked)
    /\ caller' = [caller EXCEPT ![c].pc = "reaping", ![c].drain = drain, ![c].reaped = forked]
    /\ UNCHANGED <<vars, told, live, held, forked, seated, runsOn>>

\* The executor's exit is observed, or its bound ends the wait.
ObserveForcedExit(c) ==
    /\ caller[c].pc = "reaping"
    /\ \/ handle[caller[c].reaped] = "exited" /\ Mint(c, "forced")
       \/ At(c, "refused") /\ UNCHANGED live
    /\ UNCHANGED <<vars, told, held, executors>>

\* Mutant: the receipt alone certifies the fence.
CertifiedForGood(how) == TRUE

\* fenceStillCertified
Certified(how) ==
    \/ how = "normal" /\ state = "drained"
    \/ how = "forced" /\ state \in {"timed-out", "terminal-after-timeout"}

\* spendReceipt until the revocation runs: the receipt is consumed in the same
\* step as it is checked; a rejected one stays unspent.
Spend(c) ==
    /\ caller[c].pc = "holding"
    /\ IF Certified(caller[c].how)
       THEN At(c, "revoking") /\ live' = live \ {caller[c].target}
       ELSE At(c, "rejected") /\ UNCHANGED live
    /\ UNCHANGED <<vars, told, held, executors>>

\* revokeOldAuthority has ended the client's authority, and the candidate is
\* committed or the old run stopped, or that failed: the receipt is spent.
Complete(c) ==
    /\ caller[c].pc = "revoking"
    /\ held' = FALSE
    /\ At(c, "done")
    /\ UNCHANGED <<vars, told, live, executors>>

\* drain.resume() by the request that closed the fence.
ResumeBy(c) ==
    /\ caller[c].pc \in {"holding", "refused", "rejected"} /\ ~caller[c].resumed
    /\ Resume
    /\ runsOn' = <<>>
    /\ caller' = [caller EXCEPT ![c].resumed = TRUE]
    /\ UNCHANGED <<told, live, held, forked, seated, handle>>

SwitchNext ==
    \/ FenceRuns \/ SubmitEdit
    \/ Fork \/ Dispose \/ ExecutorExits
    \/ \E c \in Callers :
        \/ Open(c) \/ PrepareNormal(c) \/ Prepared(c)
        \/ PrepareForced(c) \/ ObserveForcedExit(c)
        \/ Spend(c) \/ Complete(c) \/ ResumeBy(c)

SwitchSpec == SwitchInit /\ [][SwitchNext]_allVars

FairSwitchSpec == SwitchSpec /\ WF_vars(\E t \in timers : OnDeadline(t))

-----------------------------------------------------------------------------
\* An unspent receipt is held by the one caller that may spend it.
LedgerFitsHolders ==
    \A c \in Callers : caller[c].pc = "holding" =>
        /\ caller[c].target \in live
        /\ \A d \in Callers \ {c} :
              caller[d].pc = "holding" => caller[d].target # caller[c].target

\* Every edit of the ledger has succeeded.
AllSucceeded ==
    /\ terminalCount = Len(accepted)
    /\ \A i \in DOMAIN accepted : accepted[i].outcome = "success"

\* What is still owed runs on executors that were killed or are gone.
OwedByDying ==
    \A i \in DOMAIN accepted : accepted[i].phase # "terminal" => handle[runsOn[i]] # "running"

\* Authority is revoked only over a fence that is closed and quiet, whatever
\* happened between the preparation and the spending: for a drain that ended
\* well every edit of the ledger succeeded; for a forced one the executor it
\* reaped has exited and no edit is owed by a running one.  A forced receipt
\* that outlived its drain is certified by the state of a later one, which says
\* nothing of that one's edits: it promises no more than the exit it observed.
SpentOverQuiet ==
    [][\A c \in Callers :
         caller[c].pc = "holding" /\ caller'[c].pc = "revoking" =>
            /\ state # "open"
            /\ caller[c].how = "normal" => AllSucceeded
            /\ caller[c].how = "forced" =>
                  /\ handle[caller[c].reaped] = "exited"
                  /\ caller[c].drain = drain => OwedByDying]_allVars

=============================================================================
