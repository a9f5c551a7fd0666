---------------------------- MODULE CssAutoWrite ----------------------------
(***************************************************************************)
(* The CSS sidebar's auto-write (app-shell features/css/use-auto-write with *)
(* the edit-drain's debounce scheduler and edit queue, the anchor and undo *)
(* stores), for one style sheet and one mount.  The sheet is a text of     *)
(* rules with one edited declaration each; an inspection answers the       *)
(* records it indexed, the places of the rules, and, while the file still  *)
(* has those bytes, the write facts: the text and a grant, which           *)
(* supersedes the grant before it.                                         *)
(***************************************************************************)
EXTENDS WriteLoop, Sequences, FiniteSets

CONSTANTS
    Keys,         \* rules of the sheet: the debounce keys
    Values,       \* values of a declaration
    Width,        \* how long each value is
    Start,        \* the sheet at first
    Outside,      \* the sheets that other programs write
    Edits,        \* the rules and values that are edited
    MaxIntents,   \* bound: edits scheduled
    MaxUndos,     \* bound: undo clicks
    MaxOutside,   \* bound: writes by others and invalidation events
    MaxAttempts   \* refresh attempts, 40 in the code

\* A text is a sequence of cells: a selector with its opening brace, the parts
\* of a value, a closing brace.
Selector(key) == <<"selector", key>>
Closing == <<"closing">>
Heads == {Selector(k) : k \in Keys}
Cells == Heads \cup (Values \X Nat) \cup {Closing}
Texts == Seq(Cells)

Declaration(value) == [i \in 1 .. Width[value] |-> <<value, i>>]
RuleText(key, value) == <<Selector(key)>> \o Declaration(value) \o <<Closing>>

ASSUME CssAssumption ==
    /\ Keys # {} /\ Values # {} /\ Edits \subseteq Keys \X Values
    /\ Width \in [Values -> Nat \ {0}]
    /\ Start \in Texts /\ Outside \subseteq Texts
    /\ {MaxIntents, MaxUndos, MaxOutside, MaxAttempts} \subseteq Nat

VARIABLES
    disk,           \* the sheet's file
    payload, fetch, \* the inspection on screen and the one under way
    anchor, undo,   \* the anchor and undo stores
    timers,         \* the debounce scheduler's pending keys
    intents,        \* intentsRef
    queue,          \* the edit queue: tasks not started
    runner,         \* the task that runs, and how far it is
    edit, late,     \* its apply-edit, and the last one whose answer was lost
    write, seqMint, awaited, attempts,
    current,        \* the session gate
    bounds          \* bound counters

stores == <<anchor, undo>>
loop == <<write, seqMint, awaited, attempts>>
pending == <<timers, intents, queue>>
vars == <<disk, payload, fetch, stores, pending, runner, edit, late, loop, current, bounds>>

AnyKey == CHOOSE k \in Keys : TRUE
AnyValue == CHOOSE v \in Values : TRUE

NoIntent == [set |-> FALSE, value |-> AnyValue]
Intent(value) == [set |-> TRUE, value |-> value]

NoAnchor == [set |-> FALSE, raw |-> Start, base |-> Start, live |-> FALSE]
NoAwaited == [set |-> FALSE, raw |-> Start, served |-> FALSE]
NoFetch == [at |-> "none", rec |-> Start, facts |-> FALSE, live |-> FALSE]
Invalidated == [NoFetch EXCEPT !.at = "sent"]

\* Places in a text, both ends included; an empty one ends before it begins.
Spans == {d \in [from : Nat \ {0}, to : Nat] : d.from <= d.to + 1}
NoSpan == [from |-> 1, to |-> 0]

\* A splice: the span it replaces, what it puts there and what it found there;
\* the rule it was meant for, and whether the records were of the text it cuts.
Splices == [undo : BOOLEAN, key : Keys, at : Spans, put : Texts, found : Texts,
            matched : BOOLEAN]
NoSplice == [undo |-> TRUE, key |-> AnyKey, at |-> NoSpan, put |-> <<>>, found |-> <<>>,
             matched |-> FALSE]

\* An undo entry is the inverse of a landed splice.
Entries == [at : Spans, put : Texts, found : Texts]
NoEntry == [at |-> NoSpan, put |-> <<>>, found |-> <<>>]

Tasks == [undo : BOOLEAN, key : Keys, entry : Entries]
FireTask(key) == [undo |-> FALSE, key |-> key, entry |-> NoEntry]
UndoTask(entry) == [undo |-> TRUE, key |-> AnyKey, entry |-> entry]

Rest == [at |-> "none", task |-> FireTask(AnyKey)]
NoEdit == [server |-> "none", plan |-> NoSplice, raw |-> Start, base |-> Start,
           answer |-> "lost", live |-> FALSE, nextLive |-> FALSE]

\* spliceText, the same on both sides of the wire.
spliceText(text, plan) ==
    SubSeq(text, 1, plan.at.from - 1) \o plan.put \o SubSeq(text, plan.at.to + 1, Len(text))

\* What the server makes of its grant's baseline.
EditText(e) == spliceText(e.base, e.plan)

Init ==
    /\ disk = Start
    /\ payload = [seen |-> TRUE, rec |-> Start, facts |-> TRUE]
    /\ fetch = NoFetch
    /\ anchor = [set |-> TRUE, raw |-> Start, base |-> Start, live |-> TRUE]
    /\ undo = <<>>
    /\ timers = {} /\ intents = [k \in Keys |-> NoIntent] /\ queue = <<>>
    /\ runner = Rest /\ edit = NoEdit /\ late = NoEdit
    /\ write = IdleWrite /\ seqMint = 0 /\ awaited = NoAwaited /\ attempts = 0
    /\ current = TRUE
    /\ bounds = [intents |-> 0, undos |-> 0, outside |-> 0]

Count(bound, max) == bounds[bound] < max /\ bounds' = [bounds EXCEPT ![bound] = @ + 1]

\* The machine after `w`; the retry counter restarts outside a refresh.
Machine(w) ==
    /\ write' = w
    /\ attempts' = IF w.phase = "refresh-required" THEN attempts ELSE 0

Rearmed(w) == IF w.phase = "rejected" THEN IdleWrite ELSE w

\* refuse(): a refused attempt has a sequence number of its own.
Refuse(w, code) ==
    /\ seqMint' = seqMint + 1
    /\ Machine(reduceBoth(w, Event("submitted", seqMint + 1), Rejected(seqMint + 1, code)))

-----------------------------------------------------------------------------
(* The file and the inspections.                                           *)

ForeignWrite(text) ==
    /\ Count("outside", MaxOutside)
    /\ disk' = text
    /\ UNCHANGED <<payload, fetch, stores, pending, runner, edit, late, loop, current>>

\* reloadStyles() and the session's invalidation events: a fetch under way is
\* dropped and another one is sent.
Invalidate ==
    /\ current /\ Count("outside", MaxOutside)
    /\ fetch' = Invalidated
    /\ UNCHANGED <<disk, payload, stores, pending, runner, edit, late, loop, current>>

\* The worker's records are of the file, or still of an earlier text; while the
\* file has the bytes they index (the freshness proof), facts are granted too,
\* which supersedes the live grant.
FetchRead ==
    /\ fetch.at = "sent"
    /\ \E facts \in BOOLEAN, rec \in {disk, payload.rec} :
          /\ facts => rec = disk
          /\ fetch' = [at |-> "read", rec |-> rec, facts |-> facts, live |-> facts]
          /\ anchor' = [anchor EXCEPT !.live = @ /\ ~facts]
          /\ edit' = [edit EXCEPT !.live = @ /\ ~facts, !.nextLive = @ /\ ~facts]
          /\ late' = IF facts THEN NoEdit ELSE late
    /\ UNCHANGED <<disk, payload, undo, pending, runner, loop, current, bounds>>

\* The answer lands and the payload effect notes its facts as the anchor.
FetchLand ==
    /\ fetch.at = "read" /\ fetch' = NoFetch
    /\ payload' = [seen |-> TRUE, rec |-> fetch.rec, facts |-> fetch.facts]
    /\ awaited' = [awaited EXCEPT !.served = awaited.set]
    /\ anchor' = IF fetch.facts /\ current
                 THEN [set |-> TRUE, raw |-> fetch.rec, base |-> fetch.rec, live |-> fetch.live]
                 ELSE anchor
    /\ UNCHANGED <<disk, undo, pending, runner, edit, late, write, seqMint, attempts, current, bounds>>

\* The inspection fails, before or after its facts were granted: its diagnostic
\* replaces the payload until an inspection succeeds.
FetchFail ==
    /\ fetch.at # "none" /\ fetch' = NoFetch
    /\ payload' = [payload EXCEPT !.seen = FALSE]
    /\ UNCHANGED <<disk, stores, pending, runner, edit, late, loop, current, bounds>>

\* The shell reset: queries removed, the feature stores cleared.  The timers,
\* the queue and an apply-edit under way stay.
ShellReset ==
    /\ current /\ current' = FALSE
    /\ fetch' = NoFetch
    /\ anchor' = NoAnchor /\ undo' = <<>>
    /\ Machine(IdleWrite)
    /\ UNCHANGED <<disk, payload, pending, runner, edit, late, seqMint, awaited, bounds>>

-----------------------------------------------------------------------------
(* Scheduling.                                                             *)

\* schedule(): the newest intent of a key stands, its debounce restarts.
Schedule(key, value) ==
    /\ Count("intents", MaxIntents)
    /\ intents' = [intents EXCEPT ![key] = Intent(value)]
    /\ timers' = timers \cup {key}
    /\ Machine(Rearmed(write))
    /\ UNCHANGED <<disk, payload, fetch, stores, queue, runner, edit, late, seqMint, awaited, current>>

\* The debounce runs out: fireKey().
Fire(key) ==
    /\ key \in timers /\ timers' = timers \ {key}
    /\ queue' = Append(queue, FireTask(key))
    /\ UNCHANGED <<disk, payload, fetch, stores, intents, runner, edit, late, loop, current, bounds>>

\* undo(): the entry is popped at the click, its task runs in its turn.
Undo ==
    /\ undo # <<>> /\ Count("undos", MaxUndos)
    /\ undo' = SubSeq(undo, 1, Len(undo) - 1)
    /\ queue' = Append(queue, UndoTask(undo[Len(undo)]))
    /\ UNCHANGED <<disk, payload, fetch, anchor, timers, intents, runner, edit, late, loop, current>>

\* The pane unmounts: what is only scheduled is dropped, what is queued runs.
Unmount ==
    /\ timers' = {} /\ intents' = [k \in Keys |-> NoIntent]
    /\ <<timers, intents>> # <<timers', intents'>>
    /\ UNCHANGED <<disk, payload, fetch, stores, queue, runner, edit, late, loop, current, bounds>>

-----------------------------------------------------------------------------
(* The queue's task.                                                       *)

\* Its turn: a refused machine is re-armed, then it waits for quiet.
StartTask ==
    /\ runner.at = "none" /\ queue # <<>>
    /\ runner' = [at |-> "quiet", task |-> Head(queue)]
    /\ queue' = Tail(queue)
    /\ Machine(Rearmed(write))
    /\ UNCHANGED <<disk, payload, fetch, stores, timers, intents, edit, late, seqMint, awaited, current,
                   bounds>>

\* Mutant: the wait has no bound.
QuietEndsOnIdle(busy) == write.phase = "idle" /\ ~busy

\* waitForQuiet() ends on an idle machine, or after its bound.
QuietEnds(busy) == busy <=> write.phase # "idle"

WantedKey == runner.task.key
WantedValue == intents[WantedKey].value

\* The intent is taken when the wait ends, never earlier.
Taken ==
    intents' = IF runner.task.undo THEN intents ELSE [intents EXCEPT ![WantedKey] = NoIntent]

TakesWork == runner.task.undo \/ intents[WantedKey].set

\* An earlier task of the key took the intent already.
NothingLeft ==
    /\ runner.at = "quiet" /\ ~TakesWork /\ \E busy \in BOOLEAN : QuietEnds(busy)
    /\ runner' = Rest
    /\ UNCHANGED <<disk, payload, fetch, stores, pending, edit, late, loop, current, bounds>>

\* refuseBusy(): after the bound, the intent is reported and dropped.
RefuseBusy ==
    /\ runner.at = "quiet" /\ TakesWork /\ QuietEnds(TRUE)
    /\ Taken /\ Refuse(IdleWrite, "busy")
    /\ runner' = Rest
    /\ UNCHANGED <<disk, payload, fetch, stores, timers, queue, edit, late, awaited, current, bounds>>

\* The records an inspection indexed of the wanted rule; of several under one
\* selector the nearest is taken, which is any of them.
Records(text) ==
    {r \in [from : 1 .. Len(text), to : 1 .. Len(text)] :
        /\ text[r.from] = Selector(WantedKey) /\ text[r.to] = Closing
        /\ \A j \in r.from .. r.to - 1 : text[j] # Closing}

\* The span is the declaration of a rule of the text.
DeclaredBy(text, key, at) ==
    /\ 1 < at.from /\ at.from <= at.to /\ at.to < Len(text)
    /\ text[at.from - 1] = Selector(key) /\ text[at.to + 1] = Closing
    /\ \A j \in at.from .. at.to : text[j] \notin Heads \cup {Closing}

\* Mutant: the declaration is looked up in the text that was indexed.
LocatedInRecords(raw, r) ==
    {at \in [from : r.from .. r.to, to : r.from .. r.to] :
        \E k \in Keys : DeclaredBy(payload.rec, k, at)}

\* parseRule of the slice at a record's range: the first rule that opens in it
\* and closes in it, whichever rule that is.
Located(raw, r) ==
    {at \in [from : r.from + 1 .. r.to, to : r.from + 1 .. r.to] :
        /\ at.to < r.to
        /\ \E k \in Keys : DeclaredBy(raw, k, at)
        /\ \A j \in r.from .. at.from - 2 : raw[j] \notin Heads \cup {Closing}}

Cut(text, at) == SubSeq(text, at.from, at.to)

\* planDeclarationSplice: the record's range, of the inspection's text, is cut
\* out of the anchor's.
IntentPlans ==
    {[undo |-> FALSE, key |-> WantedKey, at |-> at, put |-> Declaration(WantedValue),
      found |-> Cut(anchor.raw, at), matched |-> payload.rec = anchor.raw] :
        at \in UNION {Located(anchor.raw, r) :
                        r \in {q \in Records(payload.rec) : q.to <= Len(anchor.raw)}}}

\* An undo is planned where its edit left it, while those bytes are there.
UndoPlans ==
    LET entry == runner.task.entry
    IN  {[undo |-> TRUE, key |-> WantedKey, at |-> at, put |-> entry.put,
          found |-> entry.found, matched |-> FALSE] :
            at \in {d \in {entry.at} : d.to <= Len(anchor.raw) /\ Cut(anchor.raw, d) = entry.found}}

\* The splices that runIntent() or undo() may send of the anchor's text.
Plans ==
    IF ~anchor.set THEN {}
    ELSE IF runner.task.undo THEN UndoPlans
    ELSE {plan \in IntentPlans : plan.put # plan.found}

Reload == fetch' = IF current THEN Invalidated ELSE fetch

\* The rule is gone, there is no anchor, or the range runs off the anchor's text.
Drifted ==
    \/ ~anchor.set
    \/ \A r \in Records(payload.rec) : r.to > Len(anchor.raw)

\* runIntent() refuses: a stale session, no inspection, or nothing to change;
\* drift reloads the facts.
RefuseIntent ==
    /\ runner.at = "quiet" /\ ~runner.task.undo /\ TakesWork /\ QuietEnds(FALSE)
    /\ ~current \/ ~payload.seen \/ Plans = {}
    /\ Taken /\ Refuse(write, "refused")
    /\ runner' = Rest
    /\ IF current /\ payload.seen /\ Drifted THEN Reload ELSE UNCHANGED fetch
    /\ UNCHANGED <<disk, payload, anchor, undo, timers, queue, edit, late, awaited, current, bounds>>

\* undo() refuses: without an anchor, or over other bytes than its edit's, which
\* costs the undo stack.
RefuseUndo ==
    /\ runner.at = "quiet" /\ runner.task.undo /\ QuietEnds(FALSE)
    /\ Plans = {}
    /\ Refuse(write, "refused")
    /\ runner' = Rest
    /\ undo' = IF anchor.set THEN <<>> ELSE undo
    /\ Reload
    /\ UNCHANGED <<disk, payload, anchor, timers, intents, queue, edit, late, awaited, current, bounds>>

\* submitSplice(): the plan goes out with the anchor's grant.
Submit ==
    /\ runner.at = "quiet" /\ TakesWork /\ QuietEnds(FALSE)
    /\ runner.task.undo \/ (current /\ payload.seen)
    /\ \E plan \in Plans :
          edit' = [server |-> "sent", plan |-> plan, raw |-> anchor.raw, base |-> anchor.base,
                   answer |-> "lost", live |-> anchor.live, nextLive |-> FALSE]
    /\ Taken
    /\ seqMint' = seqMint + 1
    /\ Machine(reduceWrite(write, Event("submitted", seqMint + 1)))
    /\ awaited' = IF payload.seen THEN [set |-> TRUE, raw |-> anchor.raw, served |-> FALSE]
                  ELSE NoAwaited
    /\ runner' = [runner EXCEPT !.at = "sent"]
    /\ UNCHANGED <<disk, payload, fetch, stores, timers, queue, late, current, bounds>>

\* The server: a superseded grant is refused, a file that moved is a conflict,
\* a commit mints the next grant, a failure may come after the replacement.
Execute(answer) ==
    /\ edit.server = "sent"
    /\ CASE answer = "refused" -> ~edit.live
         [] answer = "conflict" -> edit.live /\ disk # edit.base
         [] OTHER -> edit.live /\ disk = edit.base
    /\ disk' \in CASE answer = "committed" -> {EditText(edit)}
                   [] answer = "failed" -> {disk, EditText(edit)}
                   [] OTHER -> {disk}
    /\ LET committed == answer = "committed"
       IN  /\ edit' = [edit EXCEPT !.server = "done", !.answer = answer, !.live = FALSE,
                          !.nextLive = committed]
           /\ anchor' = [anchor EXCEPT !.live = @ /\ ~committed]
           /\ fetch' = [fetch EXCEPT !.live = @ /\ ~committed]
           /\ late' = IF committed THEN NoEdit ELSE late
    /\ UNCHANGED <<payload, undo, pending, runner, loop, current, bounds>>

\* A request whose answer was lost is executed all the same.
ExecuteLate ==
    /\ late.live /\ disk = late.base
    /\ late' = NoEdit
    /\ disk' = EditText(late)
    /\ anchor' = [anchor EXCEPT !.live = FALSE]
    /\ fetch' = [fetch EXCEPT !.live = FALSE]
    /\ edit' = [edit EXCEPT !.live = FALSE, !.nextLive = FALSE]
    /\ UNCHANGED <<payload, undo, pending, runner, loop, current, bounds>>

\* Mutant: the anchor keeps its text while its grant is renewed.
NotedAtCommit ==
    [set |-> TRUE, raw |-> edit.raw, base |-> EditText(edit), live |-> edit.nextLive]

\* continueCommitted(): the splice oracle's text, of what the anchor said at the
\* submission, and the follow-on grant.
Noted ==
    [set |-> TRUE, raw |-> spliceText(edit.raw, edit.plan), base |-> EditText(edit),
     live |-> edit.nextLive]

\* What was found goes back to where the splice left its own text.
invertSplice(plan) ==
    [at |-> [from |-> plan.at.from, to |-> plan.at.from + Len(plan.put) - 1],
     put |-> plan.found, found |-> plan.put]

\* The stores are bound to the session that edits, and drop the notes of another.
StoresBound == current

SettleCommitted ==
    /\ runner.at = "sent" /\ edit.server = "done" /\ edit.answer = "committed"
    /\ Machine(reduceWrite(write, SettleEvent(seqMint, "committed")))
    /\ anchor' = IF StoresBound THEN Noted ELSE anchor
    /\ undo' = IF StoresBound /\ ~runner.task.undo
               THEN Append(undo, invertSplice(edit.plan))
               ELSE undo
    /\ runner' = [runner EXCEPT !.at = "settled"]
    /\ UNCHANGED <<disk, payload, fetch, pending, edit, late, seqMint, awaited, current, bounds>>

\* A conflict and a refusal clear the undo stack and reload the facts.
SettleRefused ==
    /\ runner.at = "sent" /\ edit.server = "done" /\ edit.answer \in {"conflict", "refused"}
    /\ Machine(reduceWrite(write, SettleEvent(seqMint, edit.answer)))
    /\ undo' = <<>>
    /\ fetch' = IF current THEN Invalidated ELSE fetch
    /\ runner' = Rest /\ edit' = NoEdit
    /\ UNCHANGED <<disk, payload, anchor, pending, late, seqMint, awaited, current, bounds>>

\* Any other answer, or none: the outcome is unknown.
SettleUncertain ==
    /\ runner.at = "sent"
    /\ edit.server = "done" => edit.answer \notin {"conflict", "refused"}
    /\ Machine(reduceWrite(write, SettleEvent(seqMint, "lost")))
    /\ runner' = [runner EXCEPT !.at = "settled"]
    /\ edit' = NoEdit
    /\ late' = IF edit.server = "sent" /\ edit.live THEN edit ELSE late
    /\ UNCHANGED <<disk, payload, fetch, stores, pending, seqMint, awaited, current, bounds>>

\* refreshAfterSettle(): a macrotask later the facts are fetched again.
RefreshBegun ==
    /\ runner.at = "settled"
    /\ Machine(reduceWrite(write, Event("refresh-begun", seqMint)))
    /\ fetch' = IF current THEN Invalidated ELSE fetch
    /\ runner' = [runner EXCEPT !.at = "refetching"]
    /\ UNCHANGED <<disk, payload, stores, pending, edit, late, seqMint, awaited, current, bounds>>

\* Their arrival ends the task, and an uncertain write's refresh.
RefreshDone ==
    /\ runner.at = "refetching" /\ fetch.at = "none"
    /\ Machine(IF edit.answer = "committed" THEN write
               ELSE reduceWrite(write, Event("refresh-landed", seqMint)))
    /\ runner' = Rest /\ edit' = NoEdit
    /\ UNCHANGED <<disk, payload, fetch, stores, pending, late, seqMint, awaited, current, bounds>>

-----------------------------------------------------------------------------
(* The effects that wait for the landing.                                  *)

\* landingServed(): both the revision and the file's text have moved.
landingServed == awaited.served /\ payload.facts /\ payload.rec # awaited.raw

Land ==
    /\ current /\ payload.seen /\ awaited.set /\ landingServed
    /\ awaited' = NoAwaited
    /\ write' = reduceWrite(write, Event("refresh-landed", write.seq)) /\ attempts' = 0
    /\ UNCHANGED <<disk, payload, fetch, stores, pending, runner, edit, late, seqMint, current, bounds>>

Waiting ==
    /\ current /\ payload.seen /\ write.phase = "refresh-required"
    /\ awaited.set /\ ~landingServed

\* The retry timer refetches, without dropping a fetch under way.
Tick ==
    /\ Waiting /\ attempts < MaxAttempts /\ attempts' = attempts + 1
    /\ fetch' = IF fetch.at = "none" THEN Invalidated ELSE fetch
    /\ UNCHANGED <<disk, payload, stores, pending, runner, edit, late, write, seqMint, awaited, current,
                   bounds>>

\* The bounded retry gives up: the served truth stands.
GiveUp ==
    /\ Waiting /\ attempts >= MaxAttempts
    /\ awaited' = NoAwaited
    /\ Machine(reduceWrite(write, Event("refresh-landed", write.seq)))
    /\ UNCHANGED <<disk, payload, fetch, stores, pending, runner, edit, late, seqMint, current, bounds>>

-----------------------------------------------------------------------------

UserStep ==
    \/ \E e \in Edits : Schedule(e[1], e[2])
    \/ Undo \/ Unmount \/ ShellReset

TaskStep ==
    \/ StartTask \/ NothingLeft \/ RefuseBusy \/ RefuseIntent \/ RefuseUndo \/ Submit
    \/ SettleCommitted \/ SettleRefused \/ SettleUncertain
    \/ RefreshBegun \/ RefreshDone

FetchStep == FetchRead \/ FetchLand \/ FetchFail

Next ==
    \/ UserStep
    \/ \E k \in Keys : Fire(k)
    \/ TaskStep
    \/ \E answer \in Answers \ {"lost"} : Execute(answer)
    \/ ExecuteLate
    \/ \E text \in Outside : ForeignWrite(text)
    \/ Invalidate \/ FetchStep
    \/ Land \/ Tick \/ GiveUp

Spec == Init /\ [][Next]_vars

\* Timers fire, effects run, requests end, with an answer or without.
Fairness ==
    /\ \A k \in Keys : WF_vars(Fire(k))
    /\ WF_vars(TaskStep) /\ WF_vars(FetchStep)
    /\ WF_vars(Land) /\ WF_vars(Tick) /\ WF_vars(GiveUp)

FairSpec == Spec /\ Fairness

-----------------------------------------------------------------------------
(* Properties.                                                             *)

TypeOK ==
    /\ disk \in Texts
    /\ payload \in [seen : BOOLEAN, rec : Texts, facts : BOOLEAN]
    /\ fetch \in [at : {"none", "sent", "read"}, rec : Texts, facts : BOOLEAN,
                  live : BOOLEAN]
    /\ anchor \in [set : BOOLEAN, raw : Texts, base : Texts, live : BOOLEAN]
    /\ undo \in Seq(Entries) /\ queue \in Seq(Tasks)
    /\ timers \subseteq Keys
    /\ intents \in [Keys -> [set : BOOLEAN, value : Values]]
    /\ runner \in [at : {"none", "quiet", "sent", "settled", "refetching"}, task : Tasks]
    /\ {edit, late} \subseteq [server : {"none", "sent", "done"}, plan : Splices, raw : Texts,
                 base : Texts, answer : Answers, live : BOOLEAN, nextLive : BOOLEAN]
    /\ write \in WriteMachine /\ seqMint \in Nat
    /\ awaited \in [set : BOOLEAN, raw : Texts, served : BOOLEAN]
    /\ attempts \in 0 .. MaxAttempts /\ current \in BOOLEAN

\* "Byte-surgical by proof": the text a splice is planned on is the one its
\* grant's baseline names, whether a fetch or a commit put it there.
AnchorTrue == anchor.set => anchor.raw = anchor.base

\* The splice of `e` reaches the file: it replaces the bytes that its planner
\* found, an edit those of one rule's declaration, and of the very rule that was
\* edited when the records it was planned by were of the anchor's text.
SplicesItsOwn(e) ==
    /\ Cut(disk, e.plan.at) = e.plan.found
    /\ disk' = spliceText(disk, e.plan)
    /\ ~e.plan.undo => \E k \in Keys : DeclaredBy(disk, k, e.plan.at)
    /\ e.plan.matched => DeclaredBy(disk, e.plan.key, e.plan.at)

\* A commit changes one rule's declaration, over every interleaving of commits,
\* refetches and foreign writes: whatever the file, the records and the anchor
\* went through between the plan and the commit, the splice lands on the bytes
\* it was planned over.  Records that are not of the anchor's text may name
\* another rule's place in it.
OneRulePerCommit ==
    [][/\ (\E answer \in Answers : Execute(answer)) /\ disk' # disk => SplicesItsOwn(edit)
       /\ ExecuteLate /\ disk' # disk => SplicesItsOwn(late)]_vars

\* The session's end is final: whatever was in flight or queued then, no text,
\* grant or undo entry comes back, and no splice can be planned.
NothingAfterReset == ~current => ~anchor.set /\ undo = <<>> /\ Plans = {}

\* The queue never gets stuck behind a task: an intent whose debounce ran out
\* and an undo are sent, superseded or refused aloud.
QueueDrains == (queue # <<>>) ~> (queue = <<>> /\ runner.at = "none")

\* What the shell remembers between edits is true: the anchor while the session
\* lasts, and nothing at all after it.
StoresTrue == AnchorTrue /\ NothingAfterReset

=============================================================================
