--------------------------- MODULE WriteExecutors ---------------------------
(***************************************************************************)
(* The edit write path (apps/web/src/executor.ts applyEdit, edit-authority, *)
(* kernel-lease): edit requests of one project session after another, the  *)
(* forked write executor each session owns, the app-global edit-writer     *)
(* lease, and one granted text file that an IDE may also write.  The       *)
(* executor child and the control plane are separate processes: messages   *)
(* and exits are observed later, and a kill lands later.                   *)
(***************************************************************************)
EXTENDS Integers, Sequences, FiniteSets

CONSTANTS
    Requests,      \* apply-edit requests; also the contents each would write
    Foreign,       \* contents the file can get from outside Astroix
    MaxSession,    \* bound: project sessions, adopted in order
    MaxExecutor,   \* bound: executor processes forked
    SessionsCrash, \* may the active session's run die on its own?
    NoContents     \* no grant

ASSUME WriteAssumption ==
    /\ MaxSession \in Nat \ {0} /\ MaxExecutor \in Nat \ {0}
    /\ SessionsCrash \in BOOLEAN
    /\ Foreign # {} /\ Requests \cap Foreign = {}
    /\ NoContents \notin Requests \cup Foreign

VARIABLES
    active,     \* the seated session, 0 when the active session died
    fence,      \* per session: its edit fence and grant table
    queue,      \* per session: edits the fence accepted, the first executing
    tableEntry, \* writeExecutors: per session, the retained executor or 0
    grant,      \* per session: baseline of the live grant
    req,        \* per request: applyEdit's progress
    ex,         \* per executor: handle and child process
    lease,      \* the executor that holds edit-writer, 0 when none
    disk,       \* contents of the granted file
    landed      \* history: requests whose contents reached the file

vars == <<active, fence, queue, tableEntry, grant, req, ex, lease, disk, landed>>

Sessions == 1 .. MaxSession
Executors == 1 .. MaxExecutor
Contents == Requests \cup Foreign

\* unadopted; adopted; sealed by a transition; revoked with its grants.
FenceState == {"none", "open", "sealed", "revoked"}

Answers == {"committed", "conflict", "uncertain", "draining"}

Outcomes == {"committed", "rejected", "failed", "unknown"}

Request ==
    [pc : {"idle", "planning", "booting", "submitted", "answered"},
     sess : Sessions \cup {0},
     base : Contents \cup {NoContents},
     exec : Executors \cup {0},
     answer : Answers \cup {"none"}]

\* work: the one dispatched operation, as the child runs it.
Work == {"none", "sent", "validated", "landed", "replied"}

Executor ==
    [sess : Sessions \cup {0},
     pc : {"unforked", "booting", "serving", "exited", "gone"}, \* gone: exit observed
     ready : BOOLEAN,              \* did it send its ready message?
     stop : BOOLEAN,               \* was stop() called?
     kill : BOOLEAN,               \* was SIGKILL sent?
     job : Requests \cup {NoContents},
     work : Work,
     reply : Outcomes \cup {"none"}]

UnforkedExecutor ==
    [sess |-> 0, pc |-> "unforked", ready |-> FALSE, stop |-> FALSE, kill |-> FALSE,
     job |-> NoContents, work |-> "none", reply |-> "none"]

Alive(e) == ex[e].pc \in {"booting", "serving"}

Init ==
    /\ active = 1
    /\ fence = [s \in Sessions |-> IF s = 1 THEN "open" ELSE "none"]
    /\ queue = [s \in Sessions |-> <<>>]
    /\ tableEntry = [s \in Sessions |-> 0]
    /\ grant = [s \in Sessions |-> NoContents]
    /\ req = [r \in Requests |->
                [pc |-> "idle", sess |-> 0, base |-> NoContents, exec |-> 0,
                 answer |-> "none"]]
    /\ ex = [e \in Executors |-> UnforkedExecutor]
    /\ lease = 0
    /\ disk \in Foreign
    /\ landed = {}

-----------------------------------------------------------------------------
(* Grants and the world outside.                                           *)

\* The IDE or an agent replaces the file at any moment.
ForeignWrite(c) ==
    /\ disk # c
    /\ disk' = c
    /\ UNCHANGED <<active, fence, queue, tableEntry, grant, req, ex, lease, landed>>

\* An inspection of the seated session issues a grant bound to the bytes just
\* read, superseding the session's earlier grant of that file.
Issue(s) ==
    /\ s = active /\ fence[s] \in {"open", "sealed"}
    /\ grant[s] # disk
    /\ grant' = [grant EXCEPT ![s] = disk]
    /\ UNCHANGED <<active, fence, queue, tableEntry, req, ex, lease, disk, landed>>

-----------------------------------------------------------------------------
(* The control plane's side of an edit: fence, queue, handle.              *)

\* What applyEdit answers for a captured outcome; none was captured when the
\* handle refused the operation.
AnswerFor(outcome) ==
    CASE outcome = "committed" -> "committed"
      [] outcome = "rejected" -> "conflict"
      [] OTHER -> "uncertain"

\* handle.execute() dispatches only while the handle runs.
Executes(h) == ~h.stop /\ h.pc # "gone"

Answered(R, r, answer) ==
    IF R[r].pc = "submitted"
    THEN [R EXCEPT ![r].pc = "answered", ![r].answer = answer]
    ELSE R

\* pump(): from requests R and executors E, run the queue q of session s.  An
\* operation whose handle refuses it settles at once as failed.
Pump(s, q, R, E) ==
    LET runnable == {i \in DOMAIN q : Executes(E[R[q[i]].exec])}
        head == IF runnable = {} THEN Len(q) + 1
                ELSE CHOOSE i \in runnable : \A j \in runnable : i <= j
        refused == {q[i] : i \in 1 .. (head - 1)}
    IN  /\ queue' = [queue EXCEPT ![s] = SubSeq(q, head, Len(q))]
        /\ ex' = IF runnable = {} THEN E
                 ELSE [E EXCEPT ![R[q[head]].exec].job = q[head],
                                ![R[q[head]].exec].work = "sent"]
        /\ req' = [r \in Requests |->
                     IF r \in refused
                     THEN Answered(R, r, AnswerFor("failed"))[r]
                     ELSE R[r]]

\* fence.submit() of r through executor e, from requests R and executors E: a
\* fence that left open refuses.
Submit(r, s, e, E) ==
    IF fence[s] = "open"
    THEN LET R == [req EXCEPT ![r].pc = "submitted", ![r].exec = e]
         IN  IF queue[s] = <<>>
             THEN Pump(s, <<r>>, R, E)
             ELSE /\ queue' = [queue EXCEPT ![s] = Append(@, r)]
                  /\ req' = R
                  /\ ex' = E
    ELSE /\ req' = [req EXCEPT ![r].pc = "answered", ![r].answer = "draining"]
         /\ ex' = E
         /\ queue' = queue

\* Mutant: the eviction does not check whose entry it deletes.
EvictedBlindly(s, e) == 0

\* The identity-guarded eviction of executor e from the table entry of s.
Evicted(s, e) == IF tableEntry[s] = e THEN 0 ELSE tableEntry[s]

\* applyEdit: the request finds its session seated and its grant live.
Arrive(r) ==
    /\ req[r].pc = "idle"
    /\ active # 0 /\ grant[active] # NoContents
    /\ req' = [req EXCEPT ![r].pc = "planning", ![r].sess = active,
                          ![r].base = grant[active]]
    /\ UNCHANGED <<active, fence, queue, tableEntry, grant, ex, lease, disk, landed>>

Unforked == {e \in Executors : ex[e].pc = "unforked"}

\* planEdit's verification read the file: a changed file is a conflict, else the
\* retained executor gets the edit, or the session forks its executor.
Planned(r) ==
    LET s == req[r].sess
    IN  /\ req[r].pc = "planning"
        /\ UNCHANGED <<active, fence, grant, lease, disk, landed>>
        /\ \/ /\ disk # req[r].base
              /\ req' = [req EXCEPT ![r].pc = "answered", ![r].answer = "conflict"]
              /\ UNCHANGED <<queue, tableEntry, ex>>
           \/ /\ disk = req[r].base /\ tableEntry[s] # 0
              /\ Submit(r, s, tableEntry[s], ex)
              /\ UNCHANGED tableEntry
           \/ /\ disk = req[r].base /\ tableEntry[s] = 0 /\ Unforked # {}
              /\ LET e == CHOOSE x \in Unforked : \A y \in Unforked : x <= y
                 IN  /\ ex' = [ex EXCEPT ![e].sess = s, ![e].pc = "booting"]
                     /\ tableEntry' = [tableEntry EXCEPT ![s] = e]
                     /\ req' = [req EXCEPT ![r].pc = "booting", ![r].exec = e]
              /\ UNCHANGED queue

\* The forked executor's ready message arrives at the edit that awaits it.
BootReady(r) ==
    LET e == req[r].exec
    IN  /\ req[r].pc = "booting" /\ ex[e].ready /\ ex[e].pc # "gone"
        /\ Submit(r, req[r].sess, e, ex)
        /\ UNCHANGED <<active, fence, tableEntry, grant, lease, disk, landed>>

\* e's operation settles with `outcome`: its request answers unless it timed out
\* (a commit issues the next grant when the file still holds it), and the fence
\* pumps its next operation.
Settles(e, outcome, R, E) ==
    LET r == ex[e].job
        s == ex[e].sess
    IN  /\ Pump(s, Tail(queue[s]), Answered(R, r, AnswerFor(outcome)), E)
        /\ grant' = IF outcome = "committed" /\ req[r].pc = "submitted"
                       /\ disk = r /\ fence[s] \in {"open", "sealed"}
                    THEN [grant EXCEPT ![s] = r] ELSE grant

\* The child's outcome message arrives.
OutcomeArrives(e) ==
    /\ ex[e].work = "replied" /\ ex[e].pc # "gone"
    /\ Settles(e, ex[e].reply, req,
               [ex EXCEPT ![e].job = NoContents, ![e].work = "none",
                          ![e].reply = "none"])
    /\ UNCHANGED <<active, fence, tableEntry, lease, disk, landed>>

\* What a pending operation's outcome is once its executor is gone.
ExitOutcome == "unknown"

\* The exit is observed: the entry goes, an edit that awaited the boot fails, and
\* a dispatched operation is unknown.  Of a gone handle only that it refuses is
\* kept.
ExitObserved(e) ==
    LET s == ex[e].sess
        R == [r \in Requests |->
                IF req[r].pc = "booting" /\ req[r].exec = e
                THEN [req[r] EXCEPT !.pc = "answered", !.answer = "uncertain"]
                ELSE req[r]]
        E == [ex EXCEPT ![e] = [UnforkedExecutor EXCEPT !.sess = s, !.pc = "gone"]]
    IN  /\ ex[e].pc = "exited"
        /\ tableEntry' = [tableEntry EXCEPT ![s] = Evicted(s, e)]
        /\ IF ex[e].work = "none"
           THEN req' = R /\ ex' = E /\ UNCHANGED <<queue, grant>>
           ELSE Settles(e, ExitOutcome, R, E)
        /\ UNCHANGED <<active, fence, lease, disk, landed>>

\* Mutant: the edit's outcome is awaited without a bound.
TimesOutNever(r) == FALSE

\* The bounded settlement race can time out at any moment after submission.
TimesOut(r) == req[r].pc = "submitted"

\* disposeHungExecutor: evict and fire the kill; the answer, after a second
\* bounded race that nothing else depends on, is uncertain.
Timeout(r) ==
    LET e == req[r].exec
        s == req[r].sess
    IN  /\ TimesOut(r)
        /\ req' = [req EXCEPT ![r].pc = "answered", ![r].answer = "uncertain"]
        /\ tableEntry' = [tableEntry EXCEPT ![s] = Evicted(s, e)]
        /\ ex' = [ex EXCEPT ![e].kill = (ex[e].pc # "gone")]
        /\ UNCHANGED <<active, fence, queue, grant, lease, disk, landed>>

-----------------------------------------------------------------------------
(* The executor child.                                                     *)

\* BEGIN IMMEDIATE on the lease database succeeds.
LeaseFree == lease = 0

ChildOnly == <<active, fence, queue, tableEntry, grant, req>>

\* holdEditWriter, then serve; contention exits.
Boot(e) ==
    /\ ex[e].pc = "booting"
    /\ IF LeaseFree
       THEN /\ lease' = e
            /\ ex' = [ex EXCEPT ![e].pc = "serving", ![e].ready = TRUE]
       ELSE /\ ex' = [ex EXCEPT ![e].pc = "exited"]
            /\ UNCHANGED lease
    /\ UNCHANGED <<ChildOnly, disk, landed>>

Replies(e, outcome) == [ex EXCEPT ![e].work = "replied", ![e].reply = outcome]

\* Mutant: the child trusts the verification the edit was planned with.
ValidateTrusts(e) ==
    /\ ex[e].pc = "serving" /\ ex[e].work = "sent"
    /\ ex' = [ex EXCEPT ![e].work = "validated"]
    /\ UNCHANGED <<ChildOnly, lease, disk, landed>>

\* The immediate-before-commit recheck read the file.
Validate(e) ==
    /\ ex[e].pc = "serving" /\ ex[e].work = "sent"
    /\ ex' = IF disk = req[ex[e].job].base
             THEN [ex EXCEPT ![e].work = "validated"]
             ELSE Replies(e, "rejected")
    /\ UNCHANGED <<ChildOnly, lease, disk, landed>>

\* replaceExisting: the temporary file is renamed over the target.
Rename(e) ==
    /\ ex[e].pc = "serving" /\ ex[e].work = "validated"
    /\ disk' = ex[e].job
    /\ landed' = landed \cup {ex[e].job}
    /\ ex' = [ex EXCEPT ![e].work = "landed"]
    /\ UNCHANGED <<ChildOnly, lease>>

\* The temporary file or the rename failed: nothing was replaced.
WriteFails(e) ==
    /\ ex[e].pc = "serving" /\ ex[e].work = "validated"
    /\ ex' = Replies(e, "failed")
    /\ UNCHANGED <<ChildOnly, lease, disk, landed>>

ReplyCommitted(e) ==
    /\ ex[e].pc = "serving" /\ ex[e].work = "landed"
    /\ ex' = Replies(e, "committed")
    /\ UNCHANGED <<ChildOnly, lease, disk, landed>>

\* The process is gone: drained after stop(), killed, or crashed.  The kernel
\* releases its lease.
ChildExits(e) ==
    /\ Alive(e)
    /\ ex' = [ex EXCEPT ![e].pc = "exited"]
    /\ lease' = IF lease = e THEN 0 ELSE lease
    /\ UNCHANGED <<ChildOnly, disk, landed>>

-----------------------------------------------------------------------------
(* Session transitions.                                                    *)

\* Bound: the last session is not ended.
MayEnd == active \in 1 .. (MaxSession - 1)

\* A switch or deactivation seals the fence and lets it drain.
SealFence ==
    /\ MayEnd /\ fence[active] = "open"
    /\ fence' = [fence EXCEPT ![active] = "sealed"]
    /\ UNCHANGED <<active, queue, tableEntry, grant, req, ex, lease, disk, landed>>

\* drain.resume() after a transition that was not prepared.
ResumeFence ==
    /\ active # 0 /\ fence[active] = "sealed"
    /\ fence' = [fence EXCEPT ![active] = "open"]
    /\ UNCHANGED <<active, queue, tableEntry, grant, req, ex, lease, disk, landed>>

\* createGrantEviction, once the sealed fence is drained: the grants go, and the
\* session's executor is stopped and leaves the table.
Revoke ==
    LET e == tableEntry[active]
    IN  /\ active # 0 /\ fence[active] = "sealed" /\ queue[active] = <<>>
        /\ fence' = [fence EXCEPT ![active] = "revoked"]
        /\ grant' = [grant EXCEPT ![active] = NoContents]
        /\ tableEntry' = [tableEntry EXCEPT ![active] = 0]
        /\ ex' = IF e = 0 THEN ex ELSE [ex EXCEPT ![e].stop = TRUE]
        /\ UNCHANGED <<active, queue, req, lease, disk, landed>>

\* stopOwnedWriteExecutors: past the bound the stopped child is killed.
StopEscalates(e) == ex[e].stop /\ ex[e].pc # "gone"

StopTimesOut(e) ==
    /\ StopEscalates(e) /\ ~ex[e].kill
    /\ ex' = [ex EXCEPT ![e].kill = TRUE]
    /\ UNCHANGED <<active, fence, queue, tableEntry, grant, req, lease, disk, landed>>

\* The active session's run dies: no session is seated and nothing is evicted.
SessionDies ==
    /\ SessionsCrash /\ MayEnd
    /\ active' = 0
    /\ UNCHANGED <<fence, queue, tableEntry, grant, req, ex, lease, disk, landed>>

\* The next session is adopted with an open fence and an empty grant table.
Adopt(s) ==
    /\ fence[s] = "none" /\ (s > 1 => fence[s - 1] # "none")
    /\ active # 0 => fence[active] = "revoked"
    /\ active' = s
    /\ fence' = [fence EXCEPT ![s] = "open"]
    /\ UNCHANGED <<queue, tableEntry, grant, req, ex, lease, disk, landed>>

-----------------------------------------------------------------------------

Next ==
    \/ \E c \in Foreign : ForeignWrite(c)
    \/ \E r \in Requests :
        Arrive(r) \/ Planned(r) \/ BootReady(r) \/ Timeout(r)
    \/ \E e \in Executors :
        \/ OutcomeArrives(e) \/ ExitObserved(e) \/ StopTimesOut(e)
        \/ Boot(e) \/ Validate(e) \/ Rename(e) \/ WriteFails(e)
        \/ ReplyCommitted(e) \/ ChildExits(e)
    \/ SealFence \/ ResumeFence \/ Revoke \/ SessionDies
    \/ \E s \in Sessions : Issue(s) \/ Adopt(s)

Spec == Init /\ [][Next]_vars

\* The control plane's reactions and timers run, a forked child boots or exits
\* and SIGKILL lands; a serving child may hang forever.
Fairness ==
    /\ \A r \in Requests :
        WF_vars(Planned(r)) /\ WF_vars(BootReady(r)) /\ WF_vars(Timeout(r))
    /\ \A e \in Executors :
        /\ WF_vars(Boot(e))
        /\ WF_vars(ExitObserved(e))
        /\ WF_vars(StopTimesOut(e))
        /\ WF_vars(ex[e].kill /\ ChildExits(e))

FairSpec == Spec /\ Fairness

-----------------------------------------------------------------------------
(* Properties.                                                             *)

TypeOK ==
    /\ active \in 0 .. MaxSession
    /\ fence \in [Sessions -> FenceState]
    /\ queue \in [Sessions -> Seq(Requests)]
    /\ tableEntry \in [Sessions -> 0 .. MaxExecutor]
    /\ grant \in [Sessions -> Contents \cup {NoContents}]
    /\ req \in [Requests -> Request]
    /\ ex \in [Executors -> Executor]
    /\ lease \in 0 .. MaxExecutor
    /\ disk \in Contents
    /\ landed \subseteq Requests

\* No edit overwrites another edit it was not based on, whatever times out, hangs
\* or is killed; only a foreign write can be lost, in the disclosed window
\* between validation and rename (ADR-0006 section 6).
NoBlindOverwrite ==
    [][\A r \in Requests :
        disk' = r /\ disk # r => disk = req[r].base \/ disk \in Foreign]_vars

\* An answer never lies about the file: committed means the contents landed,
\* a conflict or a draining refusal means they never did.
HonestAnswers ==
    \A r \in Requests :
        /\ req[r].answer = "committed" => r \in landed
        /\ req[r].answer \in {"conflict", "draining"} => r \notin landed

\* What the author of the edits sees of all this.
Contract == INSTANCE EditContract WITH
    Edits <- Requests,
    file <- disk,
    base <- [r \in Requests |-> req[r].base],
    written <- landed,
    answer <- [r \in Requests |-> req[r].answer]

\* Through every fork, hang, kill, timeout and session change, an edit is planned on text
\* the file has had, lands at most once, over that text or a foreign one, is answered once
\* and truly, and never lands after it was refused (applyEdit, runChildEdit, ADR-0006
\* section 6).
KeepsContract == Contract!Spec

\* Every live executor can still be found or is being stopped: none holds the
\* app-global lease unowned.
NoStrandedExecutor ==
    \A e \in Executors :
        Alive(e) => tableEntry[ex[e].sess] = e \/ ex[e].stop \/ ex[e].kill

\* Every edit is answered, even when its executor hangs.
EditAnswers ==
    \A r \in Requests : (req[r].pc # "idle") ~> (req[r].pc = "answered")

\* A stopped executor is gone eventually, and its lease with it.
StoppedExecutorExits ==
    \A e \in Executors : ex[e].stop ~> (ex[e].pc \in {"exited", "gone"} /\ lease # e)

\* Every edit is answered and every stopped executor gives up its lease, hung
\* or not.
EditsEnd == EditAnswers /\ StoppedExecutorExits

=============================================================================
