----------------------------- MODULE EntryWrite -----------------------------
(***************************************************************************)
(* The content form's draft and its write loop (app-shell features/content *)
(* use-entry-form, form-draft-store, use-entry-write), for one entry and   *)
(* one document.  A content is a model of the file's text and of the       *)
(* values parsed from it: an inspection answers `rev`, the digest of the   *)
(* file now, and `vals`, what the dev server's content layer serves, which *)
(* follows the file at its own pace.                                       *)
(***************************************************************************)
EXTENDS WriteLoop, FiniteSets

CONSTANTS
    Contents,     \* texts the entry's file can have
    Start,        \* the text at first
    MaxSeq,       \* bound: write attempts
    MaxOutside,   \* bound: writes by others, invalidations, moves to another entry
    MaxAttempts   \* refresh attempts, 40 in the code

ASSUME EntryAssumption ==
    /\ Start \in Contents
    /\ {MaxSeq, MaxOutside, MaxAttempts} \subseteq Nat

VARIABLES
    disk, projection, \* the file, and the content layer's view of it
    payload,          \* the inspection on screen
    errored,          \* the last inspection ended in an error
    fetch,            \* the inspection under way
    draft,            \* the form's draft
    write, seqMint,   \* the write-loop store
    awaited,          \* awaitedRef: the baseline the last write left behind
    attempts,         \* refreshAttempts
    edits,            \* per attempt: apply-edit on the server and in the client
    current,          \* the session gate
    foreign, outside  \* writes by others, and what MaxOutside counts

server == <<disk, projection>>
client == <<draft, write, seqMint, awaited, attempts, current>>
bounds == <<foreign, outside>>
vars == <<server, payload, errored, fetch, client, edits, bounds>>

Seqs == 1 .. MaxSeq
Truth == [rev : Contents, vals : Contents]
NoTruth == [rev |-> Start, vals |-> Start]
NoAwaited == [set |-> FALSE, truth |-> NoTruth]

Closed == [open |-> FALSE, base |-> NoTruth, now |-> Start, bad |-> FALSE]
Opened(truth) ==
    [open |-> TRUE, base |-> truth, now |-> truth.vals, bad |-> FALSE]

UnusedEdit == [server |-> "unused", answer |-> "lost", client |-> "unused",
               kind |-> "uncertain", base |-> Start, text |-> Start]

Init ==
    /\ disk = Start /\ projection = Start
    /\ payload = NoTruth /\ errored = FALSE
    /\ fetch = [at |-> "none", truth |-> NoTruth]
    /\ draft = Closed
    /\ write = IdleWrite /\ seqMint = 0
    /\ awaited = NoAwaited /\ attempts = 0
    /\ edits = [s \in Seqs |-> UnusedEdit]
    /\ current = TRUE
    /\ foreign = 0 /\ outside = 0

-----------------------------------------------------------------------------
(* What the form shows.                                                    *)

baselineRevision == IF draft.open THEN draft.base.rev ELSE payload.rev
liveRevision == payload.rev
shownValues == IF draft.open THEN draft.now ELSE payload.vals

\* After a failed inspection the form is replaced by the diagnostic: it shows no
\* values and no revisions, and its actions do nothing (NO_ENTRY_VIEW).
formShows == IF errored THEN {} ELSE {shownValues}

\* validateDraft(); a value that breaks the schema is one more unready draft.
issues == {i \in {"parse", "stale-baseline"} :
              IF i = "parse" THEN draft.bad ELSE draft.base.rev # payload.rev}

\* intentStateOf()
intentState ==
    IF ~draft.open THEN "none"
    ELSE IF "parse" \in issues THEN "invalid"
    ELSE IF draft.now = draft.base.vals THEN "none"
    ELSE IF issues # {} THEN "invalid" ELSE "ready"

servedProjectionMoved == awaited.set /\ payload.vals # awaited.truth.vals

\* The machine after `event`; the retry counter restarts outside a refresh.
Dispatch(event) ==
    /\ write' = reduceWrite(write, event)
    /\ attempts' = IF write'.phase = "refresh-required" THEN attempts ELSE 0

\* The stable refusal is re-armed as soon as the shown values change.
Rearmed(w, changed) == IF w.phase = "rejected" /\ changed THEN IdleWrite ELSE w

-----------------------------------------------------------------------------
(* The file, the dev server and the inspections.                           *)

Outside == outside < MaxOutside /\ outside' = outside + 1

ForeignWrite(c) ==
    /\ Outside /\ foreign' = foreign + 1
    /\ disk' = c
    /\ UNCHANGED <<projection, payload, errored, fetch, client, edits>>

Converge ==
    /\ projection # disk
    /\ projection' = disk
    /\ UNCHANGED <<disk, payload, errored, fetch, client, edits, bounds>>

\* invalidateQueries(): a fetch under way is dropped and another one is sent.
Invalidated == [at |-> "sent", truth |-> NoTruth]

\* An invalidation event of the session's stream.
Invalidate ==
    /\ current
    /\ Outside
    /\ fetch' = Invalidated
    /\ UNCHANGED <<server, payload, errored, client, edits, foreign>>

FetchRead ==
    /\ fetch.at = "sent"
    /\ fetch' = [at |-> "read", truth |-> [rev |-> disk, vals |-> projection]]
    /\ UNCHANGED <<server, payload, errored, client, edits, bounds>>

\* The answer lands, or the inspection fails: its error covers the form until
\* an inspection succeeds, a refetch under way included.
FetchLand ==
    /\ fetch.at = "read"
    /\ \/ payload' = fetch.truth /\ errored' = FALSE
       \/ errored' = TRUE /\ UNCHANGED payload
    /\ fetch' = [fetch EXCEPT !.at = "none"]
    /\ UNCHANGED <<server, draft, seqMint, awaited, attempts, current, edits, bounds>>
    /\ write' = Rearmed(write, formShows' # formShows)

-----------------------------------------------------------------------------
(* The draft.                                                              *)

\* useEntryForm's open effect, and form-draft-store open(): once per binding.
Open ==
    /\ current /\ ~draft.open
    /\ draft' = Opened(payload)
    /\ write' = Rearmed(write, FALSE)
    /\ UNCHANGED <<server, payload, errored, fetch, seqMint, awaited, attempts, current, edits, bounds>>

\* reportFormValues(), or reportRawText() of text that parses.
Type(c) ==
    /\ current /\ ~errored /\ draft.open /\ c # draft.now
    /\ draft' = [draft EXCEPT !.now = c, !.bad = FALSE]
    /\ write' = Rearmed(write, TRUE)
    /\ UNCHANGED <<server, payload, errored, fetch, seqMint, awaited, attempts, current, edits, bounds>>

\* reportRawText() of text that does not parse keeps the last values.
TypeBad ==
    /\ current /\ ~errored /\ draft.open /\ ~draft.bad
    /\ draft' = [draft EXCEPT !.bad = TRUE]
    /\ UNCHANGED <<server, payload, errored, fetch, write, seqMint, awaited, attempts, current, edits,
                   bounds>>

\* setMode(): leaving the raw pane drops text that does not parse.
SetMode ==
    /\ current /\ ~errored /\ draft.open /\ draft.bad
    /\ draft' = [draft EXCEPT !.bad = FALSE]
    /\ UNCHANGED <<server, payload, errored, fetch, write, seqMint, awaited, attempts, current, edits,
                   bounds>>

\* Another entry is opened, which replaces the draft, and this one again: the
\* binding effect resets the machine and forgets the awaited landing.
Rebind ==
    /\ current
    /\ Outside
    /\ draft' = Closed
    /\ awaited' = NoAwaited
    /\ Dispatch(ResetEvent)
    /\ UNCHANGED <<server, payload, errored, fetch, seqMint, current, edits, foreign>>

\* The shell reset at the session's end: queries removed, stores cleared.
ShellReset ==
    /\ current /\ current' = FALSE
    /\ fetch' = [at |-> "none", truth |-> NoTruth]
    /\ draft' = Closed
    /\ Dispatch(ResetEvent)
    /\ UNCHANGED <<server, payload, errored, seqMint, awaited, edits, bounds>>

-----------------------------------------------------------------------------
(* submit() and what follows an answer.                                    *)

\* The one refusal that an enabled button leaves: the serializer's.
SubmitRefused ==
    /\ current /\ ~errored /\ write.phase = "idle" /\ intentState = "ready"
    /\ seqMint < MaxSeq /\ seqMint' = seqMint + 1
    /\ write' = reduceBoth(write, Event("submitted", seqMint + 1),
                           Rejected(seqMint + 1, "refused"))
    /\ UNCHANGED <<server, payload, errored, fetch, draft, awaited, attempts, current, edits, bounds>>

Submit ==
    /\ current /\ ~errored /\ write.phase = "idle" /\ intentState = "ready"
    /\ seqMint < MaxSeq /\ seqMint' = seqMint + 1
    /\ Dispatch(Event("submitted", seqMint + 1))
    /\ awaited' = [set |-> TRUE, truth |-> draft.base]
    /\ edits' = [edits EXCEPT ![seqMint + 1] =
                    [server |-> "sent", answer |-> "lost", client |-> "waiting",
                     kind |-> "uncertain", base |-> draft.base.rev, text |-> draft.now]]
    /\ UNCHANGED <<server, payload, errored, fetch, draft, current, bounds>>

\* The server commits over the granted baseline only, refuses, or fails before
\* or after the replacement.
Execute(s) ==
    /\ edits[s].server = "sent"
    /\ \E answer \in {"committed", "conflict", "refused", "failed"} :
          /\ answer = "conflict" => disk # edits[s].base
          /\ answer = "committed" => disk = edits[s].base
          /\ edits' = [edits EXCEPT ![s].server = "done", ![s].base = Start,
                          ![s].answer = IF edits[s].client = "waiting" THEN answer ELSE "lost"]
          /\ disk' \in CASE answer = "committed" -> {edits[s].text}
                         [] answer = "failed" /\ disk = edits[s].base -> {disk, edits[s].text}
                         [] OTHER -> {disk}
    /\ UNCHANGED <<projection, payload, errored, fetch, client, bounds>>

\* settleDispatch(): the answer, or the loss of it at any time.
Settle(s) ==
    /\ edits[s].client = "waiting"
    /\ \E answer \in {"lost"} \cup (IF edits[s].server = "done" THEN {edits[s].answer} ELSE {}) :
          /\ Dispatch(SettleEvent(s, answer))
          /\ edits' = [edits EXCEPT ![s].client = "settled", ![s].answer = "lost",
                          ![s].kind = IF answer = "committed" THEN "committed" ELSE "uncertain"]
    /\ UNCHANGED <<server, payload, errored, fetch, draft, seqMint, awaited, current, bounds>>

\* refreshAfterSettle(), one macrotask later: the content key is invalidated.
RefreshBegun(s) ==
    /\ edits[s].client = "settled"
    /\ Dispatch(Event("refresh-begun", s))
    /\ edits' = [edits EXCEPT ![s].client = "refetching"]
    /\ fetch' = IF current THEN Invalidated ELSE fetch
    /\ UNCHANGED <<server, payload, errored, draft, seqMint, awaited, current, bounds>>

\* The invalidations are answered: that answers an uncertain write.
RefreshDone(s) ==
    /\ edits[s].client = "refetching" /\ fetch.at = "none"
    /\ IF edits[s].kind = "uncertain" THEN Dispatch(Event("refresh-landed", s))
       ELSE UNCHANGED <<write, attempts>>
    /\ edits' = [edits EXCEPT ![s].client = "done"]
    /\ UNCHANGED <<server, payload, errored, fetch, draft, seqMint, awaited, current, bounds>>

-----------------------------------------------------------------------------
(* The effects that wait for the landing.                                  *)

\* Mutant: the digest alone counts as the landing.
LandedTorn ==
    /\ ~errored /\ awaited.set
    /\ baselineRevision = awaited.truth.rev
    /\ liveRevision # awaited.truth.rev

\* Both the file's digest and the served values have moved off the baseline,
\* and the form shows them.
Landed ==
    /\ ~errored /\ awaited.set
    /\ baselineRevision = awaited.truth.rev
    /\ liveRevision # awaited.truth.rev
    /\ servedProjectionMoved

\* The landing effect runs in whatever phase the machine is.
Land ==
    /\ current /\ Landed
    /\ awaited' = NoAwaited
    /\ draft' = Closed
    /\ write' = Rearmed(reduceWrite(write, Event("refresh-landed", write.seq)),
                        shownValues # payload.vals)
    /\ attempts' = 0
    /\ UNCHANGED <<server, payload, errored, fetch, seqMint, current, edits, bounds>>

\* The retry effect arms its timer for revisions that the form shows.
Waiting ==
    /\ current /\ ~errored /\ write.phase = "refresh-required" /\ awaited.set
    /\ ~(baselineRevision # liveRevision /\ servedProjectionMoved)

\* Mutant: the retries are not counted.
TickUncounted ==
    /\ Waiting /\ attempts < MaxAttempts
    /\ fetch' = IF fetch.at = "none" THEN Invalidated ELSE fetch
    /\ UNCHANGED <<server, payload, errored, client, edits, bounds>>

\* The retry timer refetches, without dropping a fetch under way.
Tick ==
    /\ Waiting /\ attempts < MaxAttempts
    /\ attempts' = attempts + 1
    /\ fetch' = IF fetch.at = "none" THEN Invalidated ELSE fetch
    /\ UNCHANGED <<server, payload, errored, draft, write, seqMint, awaited, current, edits, bounds>>

\* The bounded retry gives up: the served truth stands.
GiveUp ==
    /\ Waiting /\ attempts >= MaxAttempts
    /\ awaited' = NoAwaited
    /\ Dispatch(Event("refresh-landed", write.seq))
    /\ UNCHANGED <<server, payload, errored, fetch, draft, seqMint, current, edits, bounds>>

-----------------------------------------------------------------------------

UserStep == Open \/ TypeBad \/ SetMode \/ Rebind \/ ShellReset \/ SubmitRefused \/ Submit
Answering == \E s \in Seqs : Execute(s) \/ Settle(s) \/ RefreshBegun(s) \/ RefreshDone(s)
Refreshing == FetchRead \/ FetchLand \/ Land \/ Tick \/ GiveUp

Next ==
    \/ \E c \in Contents : ForeignWrite(c) \/ Type(c)
    \/ Converge \/ Invalidate
    \/ UserStep
    \/ Answering
    \/ Refreshing

Spec == Init /\ [][Next]_vars

\* Timers fire, effects run, a request ends and inspections answer.
Fairness ==
    /\ \A s \in Seqs : WF_vars(Settle(s)) /\ WF_vars(RefreshBegun(s)) /\ WF_vars(RefreshDone(s))
    /\ WF_vars(FetchRead) /\ WF_vars(FetchLand)
    /\ WF_vars(Land) /\ WF_vars(Tick) /\ WF_vars(GiveUp)

FairSpec == Spec /\ Fairness

-----------------------------------------------------------------------------
(* Properties.                                                             *)

TypeOK ==
    /\ {disk, projection} \subseteq Contents
    /\ payload \in Truth /\ errored \in BOOLEAN
    /\ fetch \in [at : {"none", "sent", "read"}, truth : Truth]
    /\ draft \in [open : BOOLEAN, base : Truth, now : Contents, bad : BOOLEAN]
    /\ write \in WriteMachine /\ seqMint \in 0 .. MaxSeq
    /\ awaited \in [set : BOOLEAN, truth : Truth]
    /\ attempts \in 0 .. MaxAttempts
    /\ edits \in [Seqs -> [server : {"unused", "sent", "done"}, answer : Answers,
                           client : {"unused", "waiting", "settled", "refetching", "done"},
                           kind : {"committed", "uncertain"}, base : Contents, text : Contents]]
    /\ current \in BOOLEAN

\* The badge never speaks of another attempt (write-loop-state.ts reduceWrite):
\* whatever late answers and refreshes arrive after the form moved on, the
\* phase shown is that of the attempt it names.
PhaseFitsEdit ==
    LET e == edits[write.seq]
    IN  /\ write.phase = "pending" => e.client = "waiting"
        /\ write.phase = "committed" => e.client = "settled" /\ e.kind = "committed"
        /\ write.phase = "irreversible-postcommit" => e.client = "settled" /\ e.kind = "uncertain"
        /\ write.phase = "refresh-required" =>
              \/ e.client = "refetching"
              \/ e.client = "done" /\ e.kind = "committed"

\* "The pane never reopens on the pre-write truth" (use-entry-write.ts): when a
\* landing closes the draft after a commit that nobody else disturbed, what
\* the form reopens on is the committed text, in both streams.
ReopensOnCommit ==
    [][(Land /\ foreign = 0 /\ awaited.truth.rev = awaited.truth.vals
          /\ \A s \in Seqs : edits[s].server # "unused" => s = seqMint) =>
        /\ payload.rev = edits[seqMint].text
        /\ payload.vals = edits[seqMint].text]_vars

\* A refresh that still waits for its landing ends, by the landing or by the
\* bounded give-up, even when the content layer never converges; unless an
\* inspection fails while it waits, after which no timer runs (use-entry-write.ts
\* :137) and only the next inspection that succeeds lets it go on.
WaitingEnds ==
    (write.phase = "refresh-required" /\ awaited.set) ~>
        (write.phase # "refresh-required" \/ errored)

=============================================================================
