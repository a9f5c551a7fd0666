--------------------------- MODULE DrainContract ---------------------------
(***************************************************************************)
(* What a session transition is promised by the edit fence, without its    *)
(* queue, its timers and its reports (the contract of `EditFence` and      *)
(* `EditDrain`, runtime/session-supervisor/fence/edit-fence.ts): edits are *)
(* owed from admission to their outcome, none is admitted while a          *)
(* transition holds the fence, the wait may be given up without giving up  *)
(* the edits, and nothing reopens over an edit that is still owed.         *)
(***************************************************************************)
EXTENDS Naturals

VARIABLES
    state,  \* EditFenceState
    owed,   \* accepted edits that have no outcome yet
    bad     \* did an accepted edit fail since the fence was last opened?

vars == <<state, owed, bad>>

\* What a fence with nothing owed tells the transition that holds it.
Verdict(failed) == IF failed THEN "failed" ELSE "drained"

Init == state = "open" /\ owed = 0 /\ bad = FALSE

\* EditFence.submit
Accept ==
    /\ state = "open"
    /\ owed' = owed + 1
    /\ UNCHANGED <<state, bad>>

\* EditFence.fence: the pending debounces join what is owed, and with nothing
\* owed the answer is immediate.
Seal ==
    /\ state = "open"
    /\ owed' \in Nat /\ owed' >= owed
    /\ state' = IF owed' = 0 THEN Verdict(bad) ELSE "draining"
    /\ UNCHANGED bad

\* An accepted edit gets its outcome; the last one ends the wait, or the
\* tracking of a wait that was given up.
Finish ==
    /\ owed > 0 /\ owed' = owed - 1
    /\ bad' \in {bad, TRUE}
    /\ state' = IF owed' > 0 \/ state = "open" THEN state
                ELSE IF state = "draining" THEN Verdict(bad')
                ELSE "terminal-after-timeout"

\* The deadline: the transition stops waiting, the edits stay owed.
GiveUp ==
    /\ state = "draining"
    /\ state' = "timed-out"
    /\ UNCHANGED <<owed, bad>>

\* EditDrain.resume
Reopen ==
    /\ state \in {"drained", "failed", "terminal-after-timeout"} /\ owed = 0
    /\ state' = "open" /\ bad' = FALSE
    /\ UNCHANGED owed

Next == Accept \/ Seal \/ Finish \/ GiveUp \/ Reopen

Spec == Init /\ [][Next]_vars

\* A transition that waits is always answered.
Answered == (state = "draining") ~> (state # "draining")

=============================================================================
