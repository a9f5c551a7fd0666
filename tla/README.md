# Astroix: verification of sessions, edits, inspections and the hosts around them

Astroix is a desktop and web application for editing Astro projects. One control plane
(a Node process) keeps a registry of projects, runs at most one project *session* at a time,
starts the processes that session needs, and is the only one that may write into the project.
A browser shell or an Electron window shows the project and edits it through that control plane.
These modules model that system in TLA+, check it with TLC on small instances and prove the
invariants that matter most with TLAPS for every value of the constants.

The reference is the code. Every definition that models code is listed in `PROJECT.json`
under `map` with the lines it stands for; source paths below are relative to
`src/packages/runtime/` unless they start with `src/`.

## 1. Inventory

### The parts and how they interact

```
 app shell (browser)                     desktop main process (Electron)
   content form, CSS sidebar                window, document guard, injected capability
   queries, event stream                       | private IPC (two FIFO queues)
      | HTTP + SSE                             v
      |                                 control-plane child (same control plane)
      v                                        |
 API spine -> control plane: executor.ts -- SessionSupervisor -- ActivationAttempt
                 |    |   |        |              |
   ProjectRegistry    |   |   EditFence       ProjectRun facade
   (files on disk)    |   |   receipts           |
            origin lease  |   write executor   plane supervisor
            host router   |   (own process,       |        |
                       SSE hub  kernel lease)  worker   astro dev
                                               (processes it owns)
```

A request to activate a project makes the supervisor reserve a *generation* and start a
run. When the run is ready the candidate commits: at once if nothing is seated, otherwise
after the old session's edit fence has drained, a receipt has been issued for it and spent, and
the old authority has been revoked. Edits go through the fence of the seated session into a
forked write executor that holds an app-global kernel lease. A saved file travels back the
other way: watcher, debounced invalidation, event stream, refetch, inspection. A run that dies
clears its session.

### Components

| Component | State | Operations | What is hard | Correct when |
|---|---|---|---|---|
| Edit fence (`session-supervisor/fence`) | ledger of accepted edits, state, deadline timer, report | submit, fence, settle, deadline, resume | a settlement racing the deadline; an old deadline firing in a new drain | serial, honest about every accepted edit, always answers, keeps the drain contract |
| Switch coordinator (`commit`) | one-use receipts | prepare normal or forced, commit, deactivate, resume | a receipt spent after its fence was reopened or drained again | authority is revoked only over a quiet fence |
| Session supervisor and activation attempt (`staging`) | active session, slot, bindings, host capabilities, snapshot | begin, bind, commit, rollback, cancel, revoke, promise reactions | late reactions of ended attempts; crash of a candidate | one live attempt, authority follows the active session |
| Executor: activate, deactivate (`src/apps/web/src/executor.ts`) | seats, fences, candidate store | first activation, switch, deactivation, failure aftermath | four kinds of waits interleaved with other requests, edits and crashes | transitions over a seat are serial, nobody loses another's authority |
| Revocation and completion (`revocation`, `completion`) | none of their own | ordered pass over lease, streams, grants, bindings, capability | runs after waits, by key and not by session | takes exactly the old session's authority |
| Write path (`executor.ts` applyEdit, `edit-authority`, `kernel-lease`) | executor table, grants, per-executor queue, lease | plan, boot, dispatch, validate, rename, reply, time out, stop | a timed-out executor that still commits; a kill between rename and reply | no blind overwrite, honest answers, no leaked executor |
| Run facade, plane supervisor, worker, dev server (`project-runtime`, `project-plane`) | run outcome, close stage, wire, two children | launch, readiness, inspect, stop, crash, close with a kill ladder | four events compete for one outcome; children that ignore signals | the close report is true, every inspection settles, no orphan |
| Registry and file store (`registry`, `persistence`) | document in memory, three files | register, rename, remove, restore, load, close | stops between two file operations, damaged files, retries | nothing acknowledged is lost |
| Content form (`src/packages/app-shell/src/features/content`) | draft, write-loop machine, awaited baseline | type, submit, settle, refresh, land | late answers, two server truths at different paces | never reopens on the text before its write |
| CSS auto-write (`features/css`, `editor/edit-drain`) | timers, edit queue, anchor, undo, write loop | schedule, flush, plan, send, settle, undo, reset | debounce and refresh racing a write, another program and a session change | an edit lands on the text it was planned on, once |
| Event streams (`sse`, `origin`, `app-client.ts`) | live streams, watermark, revoked pairs, client loop | admit, supersede, publish, end, reconnect | supersession before the cap, stale publications, two-second revocations | a revoked session stays silent, the current editor gets in |
| Inspections and views (`astro-project-adapter`, `project-worker.ts`, `shell-provider.tsx`) | module graph, revision, debounce, queries, grants | save, invalidate, inspect, cancel, refetch | the disk moves during a pass; lost or late invalidations | what is shown is one world, and catches up |
| Desktop host and child (`src/apps/desktop/src/main`, `private-boot`) | injected capability, window document, pending requests, quit | activate, switch, deactivate, reload, crash, quit | two processes hold copies of one capability | capability, window and session agree; everything settles |
| Core functions (`src/packages/core`, `api/pagination`, `styles/join`) | none | resolve, splice, page, join | boundaries, overlaps, moved baselines | agree with their definitions |
| Boot tombstone (`tombstone`) | one record on disk | record, admit, recover by lease proof | proof and delete are two steps | blocks activation after an incomplete reap of this boot |
| API spine (`api/http`, `api/errors`, `origin/virtual-hosts.ts`) | none of its own; reads session, bindings and capabilities | classify, admit, execute, answer | readers that decode differently; a request of an earlier session; an answer that tells a stranger something | admits what the documents of the seated session send and nothing else |
| Packaged assets (`internal/packaged-assets.ts`) | none | verify a bundle | links on the way, files of another version | accepts the bundle that was built, and no other |
| Proxy (`proxy`, `origin-listener.ts`) | tracked sockets | route, tunnel | sockets opened while the lease is revoked | no byte of an old session after its revocation |

`PROJECT.json` lists all of them with their sources and why the rest is not modelled, and
under `hazards` what in this code is hard to test, line by line.

## 2. The modules

A step of a module runs from one real wait to the next (an `await` of something that is not
already settled, a message, a timer, an exit). Promise reactions that are queued but not run
are state where another event can come first; otherwise they belong to the step.

### EditFence, DrainContract and SwitchReceipts
`EditFence` is one fence (`fence/edit-fence.ts`, `fence/drain-report.ts`). `accepted` is the
sealed ledger, `terminalCount`, `inFlight` and `firstFailure` are the counters of the code,
`timers` the deadline ticks still armed, each remembering the drain it was armed for. `Submit`
is `submit` with the pump it starts, `SettleSome` a settlement with the next dispatch and the
terminality check, `OnDeadline` the five-second tick.

`DrainContract` is the abstract specification: what a transition may rely on, without queue,
timers or reports. Edits are owed from admission to outcome, none is admitted while a
transition holds the fence, a wait may be given up without giving up the edits, and nothing
reopens over an edit that is still owed. `EditFence` implements it under the refinement mapping
`Contract` (`owed` is the number of accepted edits that are not terminal, `bad` whether one
failed), checked as the property `KeepsContract` and proved.

`SwitchReceipts` extends the fence with `commit/switch-coordinator.ts` and `switch-receipt.ts`:
several callers, each of which fences, has its transition prepared by the drain's verdict or by
force (the session's last executor is killed and its exit awaited), and spends its receipt. Between
any two of those steps edits settle, deadlines tick and other callers act; any caller may reopen the
fence. The session's write executors are numbered in the order they are forked: `seated` says whether
the last one is in the executor table, `runsOn` on which one each edit of the ledger runs. An exit or
a disposal takes an executor out of the table (`Evict`), and the next edit forks a successor (`Fork`).

### SessionSupervisor
`staging/session-supervisor.ts` and `staging/activation-attempt.ts` over a run that can
become ready, fail, crash or be stopped. Per generation `att` keeps the attempt's phase and
outcome, the run, and which promise reactions are still queued (`OnReady`,
`OnReadyRejected`, `StopReports`, `ObserveActiveClose`). `frame` is the last snapshot given to
subscribers.

### SwitchTransition
`activate`, `deactivate` and everything they call in the web host, one action per stretch
between waits, over an abstract supervisor, abstract fences and the authority record
(`auth`: lease, route, editor binding, host capabilities, edit grants). `CommitAndAdopt` is
the commit with the adoption up to its first wait, `RouteRevoked` and `RestRevoked` are the two
halves of the revocation pass around its wait for sockets, `clearExcept` and `runOf` the
candidate store.

### WriteExecutors and EditContract
`applyEdit` through plan, executor boot, dispatch and settlement; the executor child's boot,
validation, rename and reply; the app-global lease; the child's death at any point; one file
that an IDE also writes. Control plane and child are separate processes: a message or exit
happens in one and is observed later in the other; a sent SIGKILL lands later. Session changes
appear as `SealFence`, `ResumeFence`, `Revoke`, `Adopt` and `SessionDies`.

`EditContract` is what the author of edits is promised of all this: one file, the texts edits
were planned on, which of them reached the file, and their answers. `WriteExecutors` implements
it with the identity on those four (`KeepsContract`, proved); fences, queues, executors, leases
and sessions are hidden. It implies `NoBlindOverwrite` and `HonestAnswers`, which the module still
states for the reader and `WriteExecutorsProofs` proves on their own.

### PlaneSupervisor and RunContract
One run: the facade (`project-runtime.ts`), the plane supervisor with `runClose`, the wire
and the worker at its other end, the dev server child, and the control plane's own death.
`close` is the close sequence (graceful request, probes, reaping with SIGTERM then SIGKILL),
`child` what was sent to a child and whether its exit was *seen*, which is later than its
death. Left out: the health phase of the proxy (the shipped composition injects the satisfied
default), certification facts, event subscriptions, the accounting of kill escalations.

`RunContract` is what the owner of a run relies on: started once, `ready` settled once, a crash
reported only of a child that is gone, one close report, complete only over children that are
gone, inspections accepted while the run lasts and settled at most once. `PlaneSupervisor`
implements it (`KeepsContract`, proved); its `stage` is read off the plane's state and the close,
and the wire, the probes and the kill ladder are steps the owner does not see.

### ProjectRegistry and RegistryContract
The registry over the fixed-file store. `disk` is what a running system reads, `disks` what a
power loss may leave: every state since the last directory sync. `step` is where the boot or
the running command is; each file operation is an action of its own, each may throw, and the
process or the machine may stop before and after each. `known` and `evidence` are history: the
last acknowledged document with those written since, and whether an unusable document was
found that no restore has replaced. Commands wait in one promise queue and read nothing until
they run, so a waiting command is chosen when it runs.

`RegistryContract` is one document instead of three files: what the host is shown, the document a
running command asks for, those a start may come back to, and the seal that damage leaves until
a restore. `ProjectRegistry` implements it (`KeepsContract`, proved): boots, mirror writes, directory
syncs and the moves of a damaged file show the host nothing. It implies `QuarantineSticks`.

### WriteLoop, EntryWrite and CssAutoWrite
`WriteLoop` is the phase machine the two editors of the shell share (`reduceWrite`).

`EntryWrite` is the content form for one entry: the draft store, `useEntryForm`,
`useEntryWrite` and the shell's inspection of that entry. The server has two truths that follow
the file at their own pace, the digest (`rev`) and the values the content layer serves (`vals`);
an apply-edit can commit without its answer arriving. A failed inspection covers the form with its
error (`errored`, no revisions on screen) until one succeeds. `Land`, `Tick` and `GiveUp` are the
effects that look for the awaited baseline.

`CssAutoWrite` is one mount of `useAutoWrite` for one sheet: the debounce scheduler, the serial
edit queue, the anchor and undo stores, the splice planned on the granted text, the grant that
a newer inspection supersedes, the two loss paths of an answer, the refresh, and the reset of
the session's stores. A sheet is a sequence of cells, and a plan is a range of them: an intent's
record is found by its selector in the text that an inspection indexed (`Records`), and its range is
cut out of the anchor's text (`Located`, `IntentPlans`), which may be another one; an undo compares
the bytes at its old range (`UndoPlans`). Values have widths, so that an edit moves what is behind it.
`MCCssAutoWrite` gives the sheets.

### EventStream
The hub (`sse/sse-hub.ts`), the admission of a stream in the order of its checks
(`sse-admission.ts`, `admission-spine.ts`, host router), what a commit, a deactivation, a
refused adoption and a crash do to the streams and to the authority that the admission reads,
and the browser loop that reads, reconnects or settles (`app-client.ts`). A session is its
generation; each tab has one stream it reads and one it is rid of but the server has not
noticed.

### InspectionViews
From a saved file to the editor: the watcher's late event, the dev server's module graph, the
worker's debounce window and revision, the styles pass with its convergence check, the content
pass, the grants the executor adds, and the shell's queries that invalidate, cancel and refetch.
A file is its version; a cancelled inspection runs on at the server, because nothing tells it.

### DesktopHost
Main process and control-plane child over two first-in first-out queues: the delegated
requests and their settlement, the main-frame handshake by which an adoption binds the editor to
the document the window really shows, the capability the host injects, reloads, lost renderers,
a lost guard, a closed window, the child's crash or silence, and the ordered quit. An action ends
where the code waits: an activation is `Activate`, `Prepared`, `StartActivation`, then `FirstCommit`
or `StartSwitch`, `Drained` and `EndSwitch`, then the two answers of the handshake (`Answer`) or
`Aftermath`; a deactivation is `StartDeactivation`, `Drained` and `EndDeactivation`, each with the
seat it read before its first wait (`ending`); a teardown is `CloseTarget` and, when the window has
unloaded, `TeardownEnds`. In between the active run may crash, another request may be handled and
the document may change. Two history variables name what the code then does: `wiped`, that a late
teardown cleared a newer capability, and `ousted`, the sessions that lost the active entry to
another's ending or their run's.

### RouteResolver, EntryWriter, PageContract, SelectorJoin, PureFunctions
Functions without state, each in a module of its own, named as in the source.
`PureFunctions` calls them on every input of small sets and compares with definitions written
from what the answers are for; `MCPureFunctions` holds the inputs. `EntryWriter` uses RECURSIVE
operators, so these modules are TLC's only. `PureFunctions` extends `HostFunctions` and takes its
steps into its own, so that one run covers both.

### ApiDispatch, ForwardedHeaders, PackagedAssets, HostFunctions
The hosts' decisions without state, called the same way by `HostFunctions`, which has a specification
of its own (`HostSpec`) that the proofs are about, with the inputs of `MCHostFunctions`. `ApiDispatch` is one request to the
reserved namespace from its target and `Host` header to its answer: `handle` is the reserved
handler with the body's cap before everything else, `admitTransport` and `admitEnvelope` the two
halves of `dispatchApiRequest` in the order of their checks, `execute` what becomes of the
command's outcome. Targets and hosts are sequences of tokens with the escapes kept apart, so that
each reader's view of them can be computed; a body is its size, the first fault of its form, and
the three fields the checks read. `ForwardedHeaders` is the removal of the control plane's
authority from a proxied request (parsed headers) and from a tunnelled upgrade (raw pairs), and
the admission of upgrades. `PackagedAssets` verifies a bundle, a tree of files, directories and
links, against its manifest; its answer is a set where the order of a directory's listing
decides. `HostFunctions` also states what the answers are for: `Readings`, `Names` and `Exact` are
definitions of their own that share no step with the functions they are compared with.

### How they fit
Each module is closed: what its neighbour does appears as actions with the neighbour's
promises. `SwitchTransition` takes from `EditFence` what `DrainContract` says of it (the other contracts are
for layers above: `RunContract` for the supervisor, the other two for host and shell), and from
`SessionSupervisor` that commits are serial (`SlotHoldsLiveAttempt`). `SessionSupervisor` takes
from `PlaneSupervisor` that a stopped run closes (`CallersSettle`). `WriteExecutors` takes its
session changes from `SwitchTransition`. `EditFence`'s premise that executors answer is what
`EditsEnd` checks. `EventStream` and `DesktopHost` take from `SwitchTransition` the order of a
transition's steps. `EntryWrite` and `CssAutoWrite` take from `WriteExecutors` that an answer
is honest where there is one, and from `InspectionViews` how a served truth moves.

## 3. What the runs check

| Run | Module | Instance | Distinct states | Shows |
|---|---|---|---|---|
| fence | `SwitchReceipts` | 2 edits, 2 drains, 2 callers, 2 targets, 2 executors | 546,264 | serial execution; honest reports; the fence implements `DrainContract`; drains end; a receipt is spent only over a quiet fence |
| supervisor | `SessionSupervisor` | 2 projects, 2 generations | 6,259 | slot and authority over every order of late reactions; generations only go forward; endings land, crashes are noticed |
| switch | `SwitchTransition` | 2 projects, 3 generations, 2 deactivations, 1 crash | 138,395 | serial transitions, quiet revocation, a commit that stays possible, no lost or left-over authority; every request is answered |
| write | `WriteExecutors` | 2 edits, 2 sessions, 2 executors, 1 foreign writer | 130,678 | the executors implement `EditContract`: no blind overwrite, honest answers; no stranded executor; every edit is answered and stops finish |
| plane | `PlaneSupervisor` | 1 inspection and the readiness probe | 322,058 | true reports, no orphan after a crash; the plane implements `RunContract`; closes end, inspections settle |
| registry | `ProjectRegistry` | 2 keys, 2 roots, 2 names, 3 commands, 2 stops, 1 damaged file | 483,796 | no stop loses an acknowledged mutation, at boot or by restore; the three files implement `RegistryContract`: quarantine ends only by restore |
| entry | `EntryWrite` | 2 contents, 2 attempts, 1 outside event, 1 refresh attempt | 168,488 | the form's phase is that of the attempt it names; it reopens only on its commit; a refresh that waits with revisions on screen ends |
| css | `MCCssAutoWrite` | 3 rules, 2 values of different width, 3 edits, 2 intents, 1 undo, 1 outside event (a sheet with a rule gone and the others moved) | 415,945 | stores hold true text and nothing after a reset; a commit lands on the bytes it was planned over, one rule's declaration, and the edited rule's if the records were of that text; the queue drains |
| events | `EventStream` | 2 projects, 2 generations, 2 editor tabs, 1 launcher, 1 pending frame | 409,010 | a revoked session's streams stay ended and silent; the current editor is admitted; a superseded tab settles |
| views | `InspectionViews` | 2 saves, 1 fault, 3 concurrent jobs | 920,595 | what is served is one world and honestly stamped; views catch up |
| desktop | `DesktopHost` | 2 generations, 4 documents, 3 requests, 1 fault | 523,746 | capability, window and session agree; a deactivation ends the session it named; requests and quit settle |
| functions | `MCPureFunctions` | see `MCPureFunctions.tla`; targets and hosts of at most 4 tokens, requests two changes from a correct one, bundles two from an exact one | 274,077 | URLs and entries invert each other, saves merge, walks are exact, rules join their own compiled rule; every reader takes a target for the same, a host is named by its own spellings, headers are forwarded alike on both ways; admission is sound and complete; an accepted bundle is the one that was built |

**Bounds.** Two edits and two drains let a timed-out or failed drain be followed by another
one, with an edit of its own; two callers can hold receipts of different drains; two executors are
one that was reaped and its successor, which may run an edit while the other's receipt is unspent. Two generations are one ended attempt
beside its successor, where every late reaction meets the next owner; three in the switch run
add a candidate staged during an adoption. Two executors are a hung one and its successor; with
two sessions the predecessor may belong to either. One inspection suffices because inspections
share nothing but the wire, and the probe is a second request on it. Two stops are a crash and
a crash in its recovery. In the editor runs two attempts are an unanswered one and its retry; one
outside event is another program's write, an invalidation or a move to another entry, at any
moment; one refresh attempt is the last one, since attempts differ only in how many are left. In the css run the long value is as wide as a rule, so that
a range of the text before an edit falls on another rule of the text after it. In
the views run three jobs are two that the shell cancelled beside the one it waits for. In the
desktop run four documents are a load, its reload and the same of the next session. Where a
proof exists (section 6) the bound plays no role for it. `CHECK_DEADLOCK FALSE` is set
throughout: each system really may stop, for good (a closed plane) or because nobody asks
anything; the functions run stops after an answer.

`TypeOK` is in every module and proved where the module has proofs; the runs state it only
where a property builds on it.

## 4. Fairness

Nothing is assumed of users, of projects or of children that are alive. Assumed are:

- timers fire (`OnDeadline`, `Timeout`, `StopTimesOut`, `StartupTimeout`, the close bounds, the
  debounce windows and refresh pauses of the shell);
- the control plane's event loop runs queued reactions and delivers messages and exits; effects
  of a mounted component run;
- SIGKILL is delivered;
- a forked executor boots or exits (`WriteExecutors`): nothing bounds a boot in the code, so
  an executor that hangs while booting is outside this property;
- a run that was told to stop closes (`SessionSupervisor`, `SwitchTransition`): this is what
  `PlaneSupervisor`'s `CallersSettle` shows of it;
- every wait of a request ends (`SwitchTransition`): readiness and drains have deadlines,
  waiting for sockets is bounded, file reads answer;
- a request of the shell ends, with an answer or without one (`EntryWrite`, `CssAutoWrite`,
  `InspectionViews`): the client's connection breaks if nothing else does;
- the loop of the *watched* tab runs (`EventStream`); the other tab and the launcher may stall;
- the two event loops of the desktop host and its child run while they live (`DesktopHost`);
  preparations, loads and unloads settle, drains and socket closes end by their bounds. The child
  need not boot, close or exit: `QuitEnds` rests on the graceful and kill timers of the ordered stop,
  and on Electron for the teardown before it, which has no timer: it waits for the window's `closed`
  and for the clearing of its storage (`desktop-composition-target.ts:240-252`).

`DrainsEnd` has its premise inside: *if* executors answer, a timed-out fence becomes
resumable. `ProjectRegistry` states no liveness: a failing disk may fail for ever.

## 5. What the code does that its documents or a reader would not expect

The models keep each of these as the code has it. The properties are stated so that they hold of
the code; where an exemption was needed it is named.

**Sessions and edits.**
- `begin` enforces one plane per root by looking at the active session and the slot only
  (`session-supervisor.ts:394`, against the law at `:66`): the run of a session just switched away is
  still being stopped when a second run starts over its root.
- A drain that ends failed or timed out is never resumed (`executor.ts:470`, `:607`; ADR-0006 section 4
  step 3 and `executor.ts:472` say otherwise): the old session stays active behind a fence that
  refuses every edit, switch and deactivation.
- Another activation admitted while an adoption waits for the grant table clears the remembered run
  (`executor.ts:1505`, against `:311`): the session is seated without the run it needs.
- `supervisor.revoke` names no session (`executor.ts:643`): when the deactivated session dies while its
  sockets close and a waiting activation commits, the newer session is cleared, and its run is not
  stopped. `DeactivatesTheNamed` exempts it by `ousted`.
- The crash path revokes no origin lease (`session-supervisor.ts:299`, against `CONTEXT.md:45`): every
  later activation is refused as lease-occupied.
- An edit that planned before a switch forks an executor after it (`executor.ts:1061`, against `:1053`);
  nothing stops that executor and it holds the app-global lease.
- A candidate whose run dies between its readiness and its commit can still be committed; the
  crash is noticed afterwards (`EndingsLand`).
- The host capability is revoked by project key: the aftermath of an old session that comes
  late takes the capability of a newer session of the same project.
- A receipt certifies by the fence's state only (`fenceStillCertified`; `switch-receipt.ts:113` says that
  consumption "re-checks it never left its certified state"): one prepared for a drain is spendable after
  a resume and another drain. A forced one is then certified by a drain whose edits run on another
  executor, forked after the exit it observed (`executor.ts:1066-1118`), and can be spent while one
  of them runs. `SpentOverQuiet` therefore promises of a forced receipt the exit it observed, and that
  nothing owed runs only while its own drain lasts.
- A dropped or rejected receipt blocks its identity for good; an old drain handle's `resume()` can
  reopen a newer transition's fence. The exit of an executor that was disposed of before the forced
  path may be unobserved. The shipped composition reaches none of this: it never takes the forced
  path, and `createEditFence()` passes no pending flush.
- A worker whose fork fails never settles the inner plane's `ready`; the facade's launch
  failure is what the caller sees. An `error` event of a live child counts as its exit.

**Registry.**
- A failed create in the fixed-file store leaves its partial file behind; the loader treats it
  as unusable.
- `project-registry.ts:396-406` says that a stop leaves the mirror one mutation behind. After a
  failed mirror write, or stops in a row, it can lag several; and a repeated `register` that is
  answered `existed` writes nothing. `AcknowledgedSurvives` therefore speaks of acknowledged
  mutations only.
- Boot does not sync the directory. The model takes a power loss to leave the directory as it
  was at some moment since the last sync, which the qualified file systems (APFS, ext4) keep.
- `deleteIn` does not sync the directory either, although its comment speaks of callers that
  rely on the deletion.
- The shipped hosts dispatch only `register`; `rename`, `remove` and `restore` are modelled as
  the registry implements them. `isActiveProjectKey` is not handed to it by
  `src/apps/web/src/control-plane.ts:243`, so the refusal to remove an active project is not modelled.

**Editors** (`src/packages/app-shell/src/features`).
- A landing observed before the refresh begins clears what the refresh waits for, and the form stays in
  `refresh-required` (`use-entry-write.ts:136`, `:141`). So does a form whose inspection fails while
  it waits: with `retry: false` the view becomes `NO_ENTRY_VIEW` with no revisions
  (`use-entry-form.ts:242-249`), and the retry effect returns without a timer (`use-entry-write.ts:137`,
  against the bounded retry its comment at `:123-129` promises) until some inspection succeeds.
  `WaitingEnds` speaks of a refresh that still waits, with revisions on screen. The CSS sidebar recovers
  from both through its 15-second quiet bound.
- Uncertain and rejected settlements keep the awaited baseline, and a later served truth clears the
  draft; typing during a write is discarded at the landing; `buildEntryWritePlan` runs outside
  `submit`'s `try`.
- In `use-auto-write.ts` a busy refusal resets the machine while a write is pending, an unmount drops
  scheduled intents. A failed styles inspection leaves no payload, so the landing and retry effects stop.
- A plan takes its ranges from the records on screen and its text from the anchor, and nothing checks
  that the text there has the record's selector (`use-auto-write.ts:355-391`, `splice-plan.ts:70-100`).
  After a give-up or the 15-second bound the records can be of an earlier text, and a commit lands in
  another rule whose declaration stands at the old range. An undo compares the bytes at its old range
  only (`:499`), whichever rule now holds them. `OneRulePerCommit` promises the edited rule when the records
  were of the text that is cut.
- `entry-writer.ts`: deleting a cleared field of a file whose frontmatter is empty or a comment throws
  (`deleteIn` on null contents, `:204`, `:236`), although the frontmatter parses and `:96-100` names only
  one the Document API cannot parse. `SavesMerge` names it.
- `entry-writer.ts`: a body-only write to a file without frontmatter prepends a newline each time; a
  baseline that lacks a group replaces the whole group, protected paths included; deletions ignore
  `protectedPaths`. `SavesMerge` names these cases.

**Streams, views and desktop.**
- The last snapshot of a deactivation is refused by the hub (`control-plane.ts:438` and
  `sse-hub.ts:70`). A reset in the middle of a stream settles the client loop as failed while a
  graceful end reconnects; frames between the two are lost. Tabs that share a capability evict each
  other. A crashed session's open streams stay open.
- An invalidation during a query's first load can leave its view behind (`ViewsCatchUp` exempts it by
  `missed`). A pass that ends by its deadline shows a diagnostic until the next invalidation. Content
  `data` may lag `revision` and `raw`. A cancelled inspection runs on and its grant supersedes the
  newer one, against `executor.ts:829`.
- The second phase of the adoption handshake binds the editor without asking whether its session is
  still active (`control-plane.ts:619-650`, `document-authority.ts:161-230`; only `adoptSession` asks,
  `executor.ts:1475`). A deactivation handled in between leaves the ended session's grant at the document
  of the torn-down window; no later navigation sweeps it, and it refuses every later `bindEditor` as a
  second editor until the restart. `EditorIsTheDocument` exempts exactly that document.
- A teardown clears the capability after its waits (`desktop-composition-target.ts:240-252`), also one
  that was adopted meanwhile (`wiped`): the window then sends none.
- After a boot timeout the child lives on with the lease. The page's requests during a load carry no
  capability, so its event stream settles as failed. After a reload, a lost renderer or a lost guard the
  editor's grant is swept, and deactivation and switching are refused until quit. A crashed run leaves
  lease and grant, so later adoptions are refused.

**Functions.**
- `effective-selector-join.ts`: the owner of a compiled module is the longest file *with scoped static
  rules*; a nested file without any, whose path ends in an outer file's path, is taken for the outer
  block. `JoinsItsOwn` excludes it by `NothingShadowed`.
- `matcher.ts`: on equal specificity the earlier rule wins, unlike CSS, and a selector list has
  the specificity of its strongest member.
- `route-resolver.ts`: mixed and multi-parameter routes are invisible to it, and an on-demand route of
  higher priority may be what Astro serves; `route-selection.ts` lets a rest match no segment where the
  resolver needs one.
- `virtual-hosts.ts`: a target whose query sign is escaped (`%3F`) stays natural, as each reader of
  the model takes it too; a host's port may have leading zeros.
- A body over the cap is answered `payload-too-large` before the host's capability is looked at
  (`reserved-handler.ts:90`); the answer depends on nothing else, so it tells a stranger nothing.
- `packaged-assets.ts`: of two listings of the node executable the last one's executable bit counts,
  while each is verified; the root of a subtree may be a link for the walk, and is refused by the
  ancestry check of the resources below it.
- The project list answers its first page only; `pagedInspection` and `collectPages` are not used by
  the shipped composition.

## 6. What is proved

Eight modules hold theorems. Each proves `Spec => []IInv` for an inductive `IInv` (checked by
TLC first, as an invariant of a trial run), then reads the properties off. The proof that a step
preserves `IInv` has a lemma or a step per action, and under it one per conjunct the action can
disturb.

| Module | Of | Assumptions | Theorems |
|---|---|---|---|
| `SwitchReceiptsProofs` | `EditFence` | `BoundsAssumption`: the bounds are naturals | `FenceInvariant`, `FenceTypeOK`, `FenceLedger` (from `FenceSerial`, `FenceHonest`), `FenceNoSilentWork`, `FenceOwnDeadline`, `FenceSealed`, `FenceKeepsContract` |
| | `SwitchReceipts` | as above, and `ExecutorsAssumption`: the bound on executors is a natural | `ReceiptsAreUnique`, `ReceiptsSpentOverQuiet` |
| `SwitchTransitionProofs` | `SwitchTransition` | `SwitchAssumption`: at least one generation, a number of crashes, no project is 0 | `SwitchInvariant`, `SwitchTypeOK`, `SwitchRevokesQuietly`, `SwitchCommitPossible`, `SwitchAuthority` |
| `WriteExecutorsProofs` | `WriteExecutors` | `WriteAssumption`: at least one session, executor and foreign write; edits, foreign writes and no contents differ | `WriteTypeCorrect`, `AnswersAreHonest`, `NoExecutorIsStranded`, `OneServingExecutor`, `EditsNeverOverwriteBlindly`, `WriteKeepsContract` |
| `SessionAndHostsProofs` | `SessionSupervisor` | `SupervisorAssumption`: at least one generation; no project is 0 | `SupervisorInvariant`, `SupervisorTypeOK`, `SupervisorSeats` (from `SupervisorSlot`, `SupervisorAuthority`), `SupervisorSubscribers`, `SupervisorNoAbandoned`, `SupervisorForwardOnly` |
| | `HostFunctions` | `NamesAssumption`: host names are no separators and no refusals, the port is no 0; `RequestsAssumption`: the types of requests, and no capability for no project; `CorrectAssumption`: what the documents send (`app-client.ts`); `BundlesAssumption`: a tree has paths, and a manifest that parses lists paths | `HostTargetsAndHosts`, `HostAdmissionIsSound`, `HostBundleIsExact` |
| `PlaneSupervisorProofs` | `PlaneSupervisor` | `PlaneAssumption`: inspection ids are positive, finitely many | `PlaneInvariant`, `PlaneTypeOK`, `PlaneHonestReport`, `PlaneOutcome`, `PlaneReportsAreTrue`, `PlaneKeepsContract` |
| `RegistryAndDesktopProofs` | `ProjectRegistry` | `RegistryAssumption`: a document differs from no file and from an unreadable one | `RegistryInvariant`, `RegistryTypeOK`, `RegistryAcknowledgedSurvives`, `RegistryQuarantineSticks`, `RegistryKeepsContract` |
| | `DesktopHost` | `DesktopAssumption`: at least one generation, document and request, a number of faults; "none" is neither a number nor a capability | `DesktopInvariant`, `DesktopTypeCorrect`, `DesktopAuthorityFits`, `DesktopDeactivatesTheNamed` |
| `EntryAndViewsProofs` | `EntryWrite` | `EntryAssumption`: the first text is a text; the bounds are naturals | `EntryInvariant`, `EntryTypeCorrect`, `EntryPhaseFitsEdit`, `EntryReopensOnCommit` |
| | `InspectionViews` | `ViewsAssumption`: at least one save and one inspection, a number of faults; "none" is not a number | `ViewsInvariant`, `ViewsTypeCorrect`, `ViewsServedIsTrue` |
| `SheetAndStreamsProofs` | `CssAutoWrite` | `CssAssumption`: there are rules and values, widths are positive, the sheets are texts; the bounds are naturals | `CssInvariant`, `CssTypeCorrect`, `CssStoresTrue`, `CssOneRulePerCommit` |
| | `EventStream` | `StreamAssumption`: at least one generation and one pending frame; editor and launcher tabs differ; the first project is one; "none" is not | `StreamInvariant`, `StreamTypeCorrect`, `StreamRevokedIsOver`, `StreamEditorAdmitted` |

The theorems of `HostFunctions` hold for targets, Host values and paths of any length, for any set of
projects, and for any number of requests and files. The bounds are constants too, so the theorems hold for every number of edits, drains, callers,
generations, commands and stops, and for every set of projects, keys, roots and names.

**Why the invariants need strengthening.**

- *Edit fence.* That a report is honest depends on the ledger at the moment the drain ends, so
  `HonestVerdict` ties the pending verdict to the ledger, `SerialQueue` says which ledger entries
  may execute, `NeverIdle` that work left is work started, and `TimeoutAccounts` that a timeout
  report counts exactly what was open. `OwnDeadline` is part of it because a deadline of an
  earlier drain would end a later one. The refinement `FenceKeepsContract` uses the same invariant:
  under the mapping every fence step is a step of `DrainContract` or leaves its state alone.
- *Receipts.* The invariant of `SwitchReceipts` is the fence's own, and more: a holder's
  certificate says how it was earned (`HoldersCertified`); the ledger of unspent receipts fits the
  holders they were given to (`LedgerFitsHolders`); every edit of the ledger has an executor that was
  forked (`ExecutorsTyped`), and only the one in the table may run (`OthersDying`). `ForcedReaped` is what
  a forced receipt rests on: while its drain lasts no edit of the ledger runs on an executor younger
  than the one it killed, because a closed fence admits no edit and so forks no executor, and a holder has
  seen that one exit.
- *Switch transition.* A transition's guard looks at a fence once and acts later, so the invariant
  says what holds in between: `HoldersFenced`, that a request that drains or revokes holds the fence of
  a session whose adoption is over, drained and quiet once it has gone past the drain;
  `HoldersDiffer`, that no other request holds the same one. The two are inductive only together,
  because the guard of a second transition is that the fence is open. `CommitStaysPossible` needs
  nothing else. Authority needs who may hold it at all (`AuthorityHasHolder`: an adoption in
  progress or a seat; `SeatedIsDone`), that a revocation takes the lease first, so that a seat
  without it is being revoked (`LeaseGoesFirst`), and that an adoption that waits for the grant
  table keeps what it has granted so far (`AdoptingHasAuthority`).
- *Write executors.* `Queues` says that every queued edit is its session's own and unanswered
  unless its caller gave up, that it is queued once, that an executor works only on the head of its
  queue and that no edit behind the head has landed. `WorkFits` says what the stage of the work
  tells of the file. `Others` says that an unqueued edit left no trace, that a table entry is of its
  session, that only the holder of the lease serves, and that between the recheck of the base and
  the rename only a foreign write gets in. The last two are what `NoBlindOverwrite` rests on:
  two executors that both rechecked before either renamed would break it. The refinement
  `WriteKeepsContract` needs in addition that every planned base, every grant's text and the file
  itself are texts the file has had, and that only an answered request has an answer (`Based`).
- *Session supervisor.* The slot can hold only a live attempt because an attempt that failed has
  reported (`Phases`), ids are handed out in order (`Reserved`), and whatever is active is older
  than what is in flight (`Newest`). Without the last, a late reaction of a committed attempt
  could be taken for one of the slot's. `ForwardOnly` is an action property proved from the same
  invariant.
- *Plane supervisor.* The close report is computed from what the supervisor has *seen*;
  `SeenGone` and `GracefulSeen` say that what it has seen of a child is true, `Unlaunched` covers
  the plane before and after a failed launch, and `CloseFollowsState` and `ReadyFollowsState` make
  the stages of the close and of readiness agree with the state the outcome is derived from.
  `PlaneKeepsContract` adds `Fresh`: before the launch nothing was sent, and only a close that is over
  has something to report.
- *Registry.* The properties speak of the next boot, so the invariant speaks of every disk a
  stop could leave: `FilesKnown` that each file of each of them is known or unusable and that an
  absent one is a first boot only if the empty document is known, `EvidenceFits` that a document
  moved aside stays visible in all of them, `StepFits` how far each file is at each step, and
  `JobKnown` that the document being written counts as known before it is. They suffice for
  `RegistryKeepsContract` too: a start shows a known document because every file a stop can leave is
  one, and never over a seal because the evidence stays.
- *Content form.* `PhaseFitsEdit` is inductive with the types and with `AttemptNamed` (a machine that
  is not idle works on a minted attempt). `ReopensOnCommit` needs where texts can come from:
  `OneWriter` says that until somebody else writes, every copy of the file, on disk, in the
  projection, in the served payload, in a fetch under way and under the draft, is the first text or
  the text of a sent attempt, and that a landing is awaited off the first. `EditsMinted` bounds the
  attempts that can have been sent.
- *Inspection views.* `JobIsTrue` says, phase by phase, what an inspection's reading is known to
  be: complete, no older than its stamp, paired once verified, granted over its own bytes. A stamp is
  a count of revisions and what it promises is about saves, so the invariant carries the history
  between them: `ToldIsPast`, that what a revision noted was on disk then, and `RevisionsCounted`,
  that revisions told and saves still owed by the watcher never outnumber the saves, without
  which a stamp could leave its type. `ShownIsStamped` carries the stamp into what is shown.
- *Styles sidebar.* The anchor is its own invariant (`AnchorTrue`). A commit's one rule needs to know
  of the request under way, and of one the client has given up, what its splice was planned over
  (`PlanTrue`): the range lies in the text of its grant, holds there what the planner found, a declaration
  unless it is an undo's, and the wanted rule's declaration if the records were of that text
  (`MatchedRecords`: between a rule's selector and its declaration no other rule begins). The server
  executes only while the file is the text of the grant, and `ResetIsFinal` says that no step after
  the reset refills a store.
- *Event streams.* The parts of a session's authority go one by one, and a request can arrive between
  any two. `Minted` says which generations can be named at all, `TransitionRevokes` that the active
  session is revoked exactly while its transition runs and that its route is gone by then,
  `BoundIsRouted` that there is one binding at most and that it has its route or is being revoked,
  `JarsFit` that a tab which shows the active session holds the cookie its commit minted, and
  `LiveIsHeld` that a registered stream is of a session not revoked, under an installed binding.
  From the last and `BoundIsRouted` follows that the cap never counts a stream the request does not
  itself supersede, which is `BoundEditorAdmitted`. `Tolerated` is for the types alone.
- *Desktop.* The two processes agree only once their queues are empty, so the invariant says what
  each message on its way can still do. It speaks of the messages of a queue as sets: all of them
  (`Msgs`), those behind a question or an answer (`Behind`), and the last report (`Last`); how a send
  and a receipt change these is proved once, as lemmas about sequences. Since requests wait in the middle of
  their work, it says of each what is still true of what it read before the wait: `ExecFits` relates the
  activation under way, the active session and the seat, `HoldsFit` gives each fence one holder, and says of
  the session it holds that it is still active or in `ousted`, `GrantsFit` that there is one grant at most, of
  the newest document observed or of a window torn down since. `OneQuestion` says that one
  question of the handshake is under way at most, `ToldFits` and `CapsFit` that the last report on its
  way carries what the child says by now and that, with none on its way, the host injects it, unless
  a loss is still to be heard or a late teardown wiped it, `TrackedFits` that a granted document of the
  present window is the one shown or its navigation is on its way, `SeatFits` that what is seated is of that
  window. `DeactivatesTheNamed` rests on `HoldsFit`, on `ShownFits` (no report of another session is
  behind a question, so that the session shown while the answer travels is the active one) and on `ClicksFit`
  (a click on its way names the seated session or will find none). `ReqsUsed` and `RequestsFit` say which
  requests were made and that a message is of its request's kind; `EndingsFit` and `NotBooted` cover what is
  on its way after a deactivation and before the boot.
- *Hosts' functions.* A call stays with its answer, so the invariant (`HostInv`) is the properties and, for
  a request that may already have been executed, what it knows of its answer (`RequestInv`); the work is in
  the lemmas about the functions. `TargetsRead` compares the listener's one reading with readings that undo
  any selection of escapes: all of them begin with the same tokens once one is known to be reserved
  (`ReadingsAgree`). `HostIsNamed` is the parser of a Host header against the spellings of a name, which
  needs where the first colon is (`FirstPlace`) and that digits which read as the port are zeros and the
  port (`SignificantDigits`, `ZerosAndPort`). `HandleFacts` turns the nested refusals of an admission into
  the conjunction of what an executed request must satisfy; `WordsDoNotShow` says that up to the check of
  the capability no decision reads what the request says. `PassedIsExact` takes the verification of a
  bundle apart: an ancestry check passes exactly over real directories (`AncestryIsRealWay`), which the
  manifest's own reading does not check, but the required files beside it do (`RootsAreReal`); along real
  directories nothing hides a node (`NothingHides`), so the walk of the subtrees misses nothing
  (`InventoryIsComplete`).

**Only model-checked.** All liveness properties (the prover has no support for fairness and
ENABLED); the functions of `PureFunctions`; and `HeadersForwarded`, the third conjunct of
`OneReadingPerRequest`, whose other two are `HostTargetsAndHosts`. These functions walk lists and
trees by recursion or filter them with `SelectSeq`, and what such a walk computes for every input is an
induction over data, which is out of the prover's reach. Every other property of the runs is a theorem.
What is only model-checked is shown for the bounds of section 3.


## 7. What is not modelled

`PROJECT.json` gives each component's reason. In short:

- *Boot tombstone*: three operations on one record over the fixed-file store; the shipped web
  composition passes an empty `recordIncompleteReap`, so nothing writes the record.
- *Schemas of the protocol*: the first fault of an envelope's form is an input of `ApiDispatch`.
- *Proxy streams and health*: bytes and sockets; the sockets that a revocation waits for are
  counted in `SwitchTransition`.
- *Astro certification, schema loading, readers of styles and routes*: results depend on what
  the installed Astro pair puts into files; a fresh process is started per reading.
- *Form tree, indexer, matcher*: walks over schema, source and selector text without state.
- *React components, windows and menus, packaging, release and qualification scripts*: presentation
  and tooling.

- *Desktop*: a drain that fails, a candidate that dies after the revocation and an activation that
  begins during an adoption are `SwitchTransition`'s subject; the read of the grant table inside
  `adoptSession` is part of its step.
- *Styles*: edits of selectors (`planSelectorSplice`). *Bundle*: files that change between the
  verification and their use. *Request targets*: dot segments are not among the readings that
  `OneReadingPerRequest` compares, and an escaped slash inside a segment is outside the inputs of
  `RouteResolver`.

Inside modelled components these are abstracted everywhere: contents of files and messages
(model values), error wording, logging, schemas and path checks.

## 8. Plan

In order of what is most likely to be wrong and hardest to test:

1. **Composition over the contracts**: `SessionSupervisor` over `RunContract` in place of its own
   abstract run, `EntryWrite` and `CssAutoWrite` over `EditContract` in place of their server.
2. **Boot tombstone** over the fixed-file store, beside the registry.
3. **Sockets of the proxy** while a lease is revoked.
4. The **core text algorithms** (form tree, indexer, matcher) as further operators of `PureFunctions`.
