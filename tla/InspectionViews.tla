--------------------------- MODULE InspectionViews ---------------------------
(***************************************************************************)
(* From a saved file to what the editor shows: the watcher's event, the    *)
(* worker's debounced invalidation (project-worker.ts), the shell's        *)
(* refetch (shell-provider.tsx, use-session-query.ts), the inspection pass *)
(* in the worker (converged-styles-inspection.ts, inspect-content.ts), the *)
(* executor's enrichment with grants (executor.ts) and the settle loop of  *)
(* the styles query (features/css/api.ts).                                 *)
(*                                                                         *)
(* One file per family: the route component of "styles", the entry of      *)
(* "content".  A file is its version.  The dev server's module graph, its  *)
(* watcher and the query cache are external.  An inspection the shell has  *)
(* cancelled runs to its end on the server: nothing tells it.              *)
(***************************************************************************)
EXTENDS Naturals, Sequences, FiniteSets

CONSTANTS
  MaxSave,   \* bound: saves
  MaxFault,  \* bound: inspections the plane fails
  MaxJob,    \* bound: inspections running at once
  None       \* no payload, no compiled module

ASSUME ViewsAssumption ==
  /\ MaxSave \in Nat \ {0} /\ MaxFault \in Nat /\ MaxJob \in Nat \ {0}
  /\ None \notin Nat

Families == {"styles", "content"}
Versions == 0..MaxSave
Slots    == 1..MaxJob
Nobody   == 0
TheView  == MaxJob + 1

VARIABLES
  files,    \* environment: version of each family's file
  owed,    \* environment: watcher events not delivered yet
  graph,   \* dev server: compiled version of the styles file; None: to transform
  told,    \* invalidation source: styles version on disk at each revision
  worker,  \* worker: currentState
  pending, \* worker: pendingFamilies
  timer,   \* worker: debounceTimer is armed
  wire,    \* invalidation events on their way to the shell
  job,     \* the inspections
  live,    \* grant table: who holds the live grant of each file
  view,    \* shell: one query per family
  faults   \* environment: faults so far

serverVars == <<graph, told, worker, pending, timer>>
viewsVars == <<files, owed, serverVars, wire, job, live, view, faults>>

NoJob  == [fam |-> "none", phase |-> "free", base |-> 0, compiled |-> None, src |-> None,
           raw |-> None]
NoView == [data |-> None, fetching |-> FALSE, slot |-> 0, failed |-> FALSE, missed |-> FALSE]
Payload == [base : 0..MaxSave, compiled : Versions \cup {None}, src : Versions, raw : Versions \cup {None}]

Revision == Len(told)

ViewsTypeOK ==
  /\ files \in [Families -> Versions] /\ owed \subseteq Families
  /\ graph \in Versions \cup {None}
  /\ told \in Seq(Versions) /\ Revision <= MaxSave
  /\ worker \in {"running", "stopped"}
  /\ pending \subseteq Families /\ timer \in BOOLEAN
  /\ wire \in Seq(SUBSET Families)
  /\ job \in [Slots -> [fam : Families \cup {"none"}, base : 0..MaxSave,
                        phase : {"free", "import", "walk", "verify", "enrich", "reply", "failed"},
                        compiled : Versions \cup {None}, src : Versions \cup {None},
                        raw : Versions \cup {None}]]
  /\ live \in [Families -> 0..TheView]
  /\ view \in [Families -> [data : Payload \cup {None}, fetching : BOOLEAN,
                            slot : 0..MaxJob, failed : BOOLEAN, missed : BOOLEAN]]
  /\ faults \in 0..MaxFault

ViewsInit ==
  /\ files = [f \in Families |-> 0] /\ owed = {} /\ graph = None /\ told = <<>>
  /\ worker = "running" /\ pending = {} /\ timer = FALSE /\ wire = <<>>
  /\ job = [s \in Slots |-> NoJob]
  /\ live = [f \in Families |-> Nobody]
  /\ view = [f \in Families |-> NoView]
  /\ faults = 0

----------------------------------------------------------------------------
(* The files, the watcher and the worker's debounce.                       *)

Save(f) ==
  /\ files["styles"] + files["content"] < MaxSave
  /\ files' = [files EXCEPT ![f] = @ + 1]
  /\ owed' = owed \cup {f}
  /\ UNCHANGED <<serverVars, wire, job, live, view, faults>>

\* Mutant: the window keeps the last event's families only.
ForgetWindow(f) ==
  IF worker = "running" THEN pending' = {f} /\ timer' = TRUE
  ELSE UNCHANGED <<pending, timer>>

\* The families of every event of the window are published together, a
\* window after the last of them.
JoinWindow(f) ==
  IF worker = "running" THEN pending' = pending \cup {f} /\ timer' = TRUE
  ELSE UNCHANGED <<pending, timer>>

\* The watcher's event invalidates the module and counts one revision;
\* events of one file that were not delivered yet are one.
Deliver(f) ==
  /\ f \in owed
  /\ owed' = owed \ {f}
  /\ graph' = IF f = "styles" THEN None ELSE graph
  /\ told' = Append(told, files["styles"])
  /\ JoinWindow(f)
  /\ UNCHANGED <<files, worker, wire, job, live, view, faults>>

FlushInvalidations ==
  /\ timer
  /\ timer' = FALSE /\ pending' = {}
  /\ wire' = IF pending # {} /\ worker = "running" THEN Append(wire, pending) ELSE wire
  /\ UNCHANGED <<files, owed, graph, told, worker, job, live, view, faults>>

InWorker(s) == job[s].phase \in {"import", "walk", "verify"}

\* Stopping drops the window and rejects the inspections in flight.
CloseWorker ==
  /\ worker = "running"
  /\ worker' = "stopped"
  /\ timer' = FALSE /\ pending' = {}
  /\ job' = [s \in Slots |-> IF InWorker(s) THEN [job[s] EXCEPT !.phase = "failed"] ELSE job[s]]
  /\ UNCHANGED <<files, owed, graph, told, wire, live, view, faults>>

----------------------------------------------------------------------------
(* The shell's queries.                                                    *)

Free == {s \in Slots : job[s].phase = "free"}
NextSlot == CHOOSE s \in Free : \A t \in Free : s <= t

\* A styles pass notes the revision it starts at; a stopped worker refuses.
Started(f) ==
  [NoJob EXCEPT !.fam = f, !.base = Revision,
                !.phase = IF worker # "running" THEN "failed"
                          ELSE IF f = "styles" THEN "import" ELSE "walk"]

\* An invalidation during a query's first load joins that load; later it
\* cancels the fetch in flight and starts another.
Joins(f) == view[f].fetching /\ view[f].data = None

Refetched(f, s) ==
  IF Joins(f) THEN [view[f] EXCEPT !.missed = TRUE]
  ELSE [view[f] EXCEPT !.fetching = TRUE, !.slot = s, !.failed = FALSE, !.missed = FALSE]

Mount(f) ==
  /\ view[f] = NoView /\ Free # {}
  /\ job' = [job EXCEPT ![NextSlot] = Started(f)]
  /\ view' = [view EXCEPT ![f] = Refetched(f, NextSlot)]
  /\ UNCHANGED <<files, owed, serverVars, wire, live, faults>>

\* Families not mounted have no query to invalidate.
Mounted == {f \in Head(wire) : view[f] # NoView}

Restarted == {f \in Mounted : ~Joins(f)}
SlotOf == CHOOSE slot \in [Restarted -> Free] :
            \A f, g \in Restarted : slot[f] = slot[g] => f = g

HearInvalidation ==
  /\ wire # <<>> /\ Cardinality(Restarted) <= Cardinality(Free)
  /\ wire' = Tail(wire)
  /\ job' = [s \in Slots |->
               IF \E f \in Restarted : SlotOf[f] = s
               THEN Started(CHOOSE f \in Restarted : SlotOf[f] = s) ELSE job[s]]
  /\ view' = [f \in Families |->
                IF f \notin Mounted THEN view[f]
                ELSE Refetched(f, IF f \in Restarted THEN SlotOf[f] ELSE 0)]
  /\ UNCHANGED <<files, owed, serverVars, live, faults>>

\* The settle loop of the styles query asks again after a tick.
AwaitsRetry == view["styles"].fetching /\ view["styles"].slot = 0

RetryTick ==
  /\ AwaitsRetry /\ Free # {}
  /\ job' = [job EXCEPT ![NextSlot] = Started("styles")]
  /\ view' = [view EXCEPT !["styles"].slot = NextSlot]
  /\ UNCHANGED <<files, owed, serverVars, wire, live, faults>>

SettleDeadline ==
  /\ AwaitsRetry
  /\ view' = [view EXCEPT !["styles"].fetching = FALSE, !["styles"].failed = TRUE]
  /\ UNCHANGED <<files, owed, serverVars, wire, job, live, faults>>

----------------------------------------------------------------------------
(* The inspection: the worker's pass, then the executor's enrichment.      *)

\* The selectors of a version: the first save changes declarations only.
Selectors(v) == v \div 2

\* The compiled rules pair with the source's, one by one.
Paired(compiled, src) == Selectors(compiled) = Selectors(src)

ImportRouteCssSet(s) ==
  LET compiled == IF graph = None THEN files["styles"] ELSE graph IN
  /\ job[s].phase = "import"
  /\ graph' = compiled
  /\ job' = [job EXCEPT ![s].compiled = compiled, ![s].phase = "walk"]
  /\ UNCHANGED <<files, owed, told, worker, pending, timer, wire, live, view, faults>>

\* The sources are read for their digest and their text at once.
ReadSources(s) ==
  /\ job[s].phase = "walk"
  /\ job' = [job EXCEPT ![s].src = files[job[s].fam],
                        ![s].phase = IF job[s].fam = "styles" THEN "verify" ELSE "enrich"]
  /\ UNCHANGED <<files, owed, serverVars, wire, live, view, faults>>

\* Published only when the two truths pair and no invalidation raced the
\* pass; its stamp is the revision it began at.
VerifyPass(s) ==
  /\ job[s].phase = "verify"
  /\ job' = [job EXCEPT ![s].phase =
               IF Paired(job[s].compiled, job[s].src) /\ job[s].base = Revision
               THEN "enrich" ELSE "failed"]
  /\ UNCHANGED <<files, owed, serverVars, wire, live, view, faults>>

\* Mutant: a grant over whatever the disk holds now.
EnrichUnproven(s) ==
  /\ job[s].phase = "enrich"
  /\ job' = [job EXCEPT ![s].phase = "reply", ![s].raw = files[job[s].fam]]
  /\ live' = [live EXCEPT ![job[s].fam] = s]
  /\ UNCHANGED <<files, owed, serverVars, wire, view, faults>>

\* A grant and the raw text only when the disk still has the bytes the pass
\* read; issuing supersedes the session's former grant of the file.
Enrich(s) ==
  LET fresh == job[s].src = files[job[s].fam] IN
  /\ job[s].phase = "enrich"
  /\ job' = [job EXCEPT ![s].phase = "reply", ![s].raw = IF fresh THEN job[s].src ELSE None]
  /\ live' = IF fresh THEN [live EXCEPT ![job[s].fam] = s] ELSE live
  /\ UNCHANGED <<files, owed, serverVars, wire, view, faults>>

PlaneFails(s) ==
  /\ InWorker(s) /\ faults < MaxFault
  /\ faults' = faults + 1
  /\ job' = [job EXCEPT ![s].phase = "failed"]
  /\ UNCHANGED <<files, owed, serverVars, wire, live, view>>

Wanted(s) == LET v == view[job[s].fam] IN v.fetching /\ v.slot = s

Served(s) ==
  [base |-> job[s].base, compiled |-> job[s].compiled, src |-> job[s].src,
   raw |-> job[s].raw]

\* An answer nobody waits for any more is dropped, and its grant with it.
Orphaned(s) ==
  [f \in Families |-> IF live[f] = s THEN Nobody ELSE live[f]]

LandAnswer(s) ==
  LET f == job[s].fam IN
  /\ job[s].phase = "reply"
  /\ IF Wanted(s)
     THEN /\ view' = [view EXCEPT ![f].data = Served(s), ![f].fetching = FALSE, ![f].slot = 0]
          /\ live' = [live EXCEPT ![f] = IF @ = s THEN TheView
                                         ELSE IF @ = TheView THEN Nobody ELSE @]
     ELSE view' = view /\ live' = Orphaned(s)
  /\ job' = [job EXCEPT ![s] = NoJob]
  /\ UNCHANGED <<files, owed, serverVars, wire, faults>>

\* The styles query waits for its next try; the content query fails.
Refused(s) ==
  LET f == job[s].fam IN
  /\ job[s].phase = "failed"
  /\ view' = IF ~Wanted(s) THEN view
             ELSE IF f = "styles" THEN [view EXCEPT ![f].slot = 0]
             ELSE [view EXCEPT ![f].slot = 0, ![f].fetching = FALSE, ![f].failed = TRUE]
  /\ job' = [job EXCEPT ![s] = NoJob]
  /\ UNCHANGED <<files, owed, serverVars, wire, live, faults>>

JobStep(s) ==
  \/ ImportRouteCssSet(s) \/ ReadSources(s) \/ VerifyPass(s) \/ Enrich(s)
  \/ LandAnswer(s) \/ Refused(s)

----------------------------------------------------------------------------

ViewsNext ==
  \/ \E f \in Families : Save(f) \/ Deliver(f) \/ Mount(f)
  \/ FlushInvalidations \/ CloseWorker
  \/ HearInvalidation \/ RetryTick \/ SettleDeadline
  \/ \E s \in Slots : JobStep(s) \/ PlaneFails(s)

ViewsSpec == ViewsInit /\ [][ViewsNext]_viewsVars

\* The watcher, the timers, the stream and the inspections make progress;
\* nothing forces a save, a fault, a stop or the deadline.
ViewsFairness ==
  /\ WF_viewsVars(\E f \in Families : Deliver(f))
  /\ WF_viewsVars(FlushInvalidations)
  /\ WF_viewsVars(HearInvalidation)
  /\ WF_viewsVars(RetryTick)
  /\ WF_viewsVars(\E s \in Slots : JobStep(s))

FairViewsSpec == ViewsSpec /\ ViewsFairness

----------------------------------------------------------------------------
(* Properties.                                                             *)

Shown(f) == view[f].data # None

\* What the editor shows is one world: the compiled selectors pair with the
\* source's, and the raw text a grant comes with is the bytes the records'
\* ranges were computed over, whatever was saved, cancelled and retried in
\* between (parity.ts, enrichStylesFile).
ServedIsCoherent ==
  \A f \in Families : Shown(f) =>
    /\ view[f].data.raw # None => view[f].data.raw = view[f].data.src
    /\ f = "styles" => Paired(view[f].data.compiled, view[f].data.src)

\* A styles payload is never older than its stamp claims: it reflects every
\* save whose event is counted in its invalidation revision.
StampIsHonest ==
  LET p == view["styles"].data IN
  Shown("styles") /\ p.base > 0 => p.src >= told[p.base]

\* A view that is behind the disk catches up, unless its query ended in a
\* diagnostic, the invalidation met the query's first load, or the worker
\* was stopped.
Behind == \E f \in Families : Shown(f) /\ view[f].data.src # files[f]
Settled(f) ==
  \/ ~Shown(f) \/ view[f].data.src = files[f]
  \/ view[f].failed \/ view[f].missed \/ worker = "stopped"
ViewsCatchUp == Behind ~> (\A f \in Families : Settled(f))

\* What is served and shown is of one world, and no newer than it says.
ServedIsTrue == ServedIsCoherent /\ StampIsHonest

=============================================================================
