---------------------------- MODULE RunContract ----------------------------
(***************************************************************************)
(* What the owner of a project run is promised, without the wire, the kill *)
(* ladder and the close sequence (the contract of `ProjectRun`,            *)
(* runtime/project-runtime/project-runtime.ts, as the supervisor of        *)
(* sessions relies on it): the children are started once, `ready` settles  *)
(* once and says how the run ended if it ended first, a crash is reported  *)
(* only of a child that is gone, the close is reported once and calls      *)
(* itself complete only over children that are gone, and each inspection   *)
(* is accepted while the run lasts and settled at most once.               *)
(***************************************************************************)
CONSTANT Calls    \* the owner's inspections

VARIABLES
    stage,   \* "launching", "up", "ending" or "over"
    ready,   \* "pending", "resolved", or why it was rejected
    reason,  \* why the run ended, "none" before
    clean,   \* is there a report, and is it complete?
    alive,   \* the children that live
    call     \* per inspection: "idle", "asked", "resolved" or "rejected"

vars == <<stage, ready, reason, clean, alive, call>>

Children == {"worker", "managed-astro"}

Init ==
    /\ stage = "launching" /\ ready = "pending" /\ reason = "none"
    /\ clean = FALSE /\ alive = {}
    /\ call = [i \in Calls |-> "idle"]

\* Both children are started; a run that was stopped before ends at once.
Launched ==
    /\ stage = "launching" /\ alive' = Children
    /\ \/ stage' = "up" /\ UNCHANGED <<ready, reason>>
       \/ stage' = "ending" /\ ready' = "cancelled" /\ reason' = "cancelled"
    /\ UNCHANGED <<clean, call>>

\* Nothing was started, so nothing is left and nothing will be answered.
NeverLaunched ==
    /\ stage = "launching" /\ stage' = "over"
    /\ ready' = "launch-failed" /\ reason' = "cancelled" /\ clean' = TRUE
    /\ call' = [i \in Calls |-> IF call[i] = "asked" THEN "rejected" ELSE call[i]]
    /\ UNCHANGED alive

BecomesReady ==
    /\ stage = "up" /\ ready = "pending" /\ ready' = "resolved"
    /\ UNCHANGED <<stage, reason, clean, alive, call>>

\* May the run end for this reason now?
Fits(why) ==
    \/ why = "stopped" /\ ready = "resolved"
    \/ why \in {"cancelled", "startup-timeout"} /\ ready = "pending"
    \/ why = "worker-crash" /\ "worker" \notin alive
    \/ why = "managed-astro-crash" /\ "managed-astro" \notin alive

\* Calls that were asked are settled, once.
MaySettle ==
    /\ DOMAIN call' = Calls
    /\ \A i \in Calls :
          \/ call'[i] = call[i]
          \/ call[i] = "asked" /\ call'[i] \in {"resolved", "rejected"}

Ends ==
    /\ stage = "up" /\ stage' = "ending"
    /\ \E why \in {"stopped", "cancelled", "startup-timeout",
                   "worker-crash", "managed-astro-crash"} :
          /\ Fits(why)
          /\ reason' = why
          /\ ready' = IF ready = "pending" THEN why ELSE ready
    /\ MaySettle
    /\ UNCHANGED <<clean, alive>>

Ask(i) ==
    /\ call[i] = "idle"
    /\ \/ stage \in {"launching", "up"} /\ call' = [call EXCEPT ![i] = "asked"]
       \/ call' = [call EXCEPT ![i] = "rejected"]
    /\ UNCHANGED <<stage, ready, reason, clean, alive>>

Settle ==
    /\ stage # "launching"
    /\ MaySettle
    /\ UNCHANGED <<stage, ready, reason, clean, alive>>

ChildEnds ==
    /\ \E c \in alive : alive' = alive \ {c}
    /\ UNCHANGED <<stage, ready, reason, clean, call>>

\* A complete report leaves no child behind.
Reports ==
    /\ stage = "ending" /\ stage' = "over"
    /\ clean' \in BOOLEAN /\ clean' => alive = {}
    /\ UNCHANGED <<ready, reason, alive, call>>

Next ==
    \/ Launched \/ NeverLaunched \/ BecomesReady \/ Ends \/ Reports
    \/ Settle \/ ChildEnds \/ \E i \in Calls : Ask(i)

Spec == Init /\ [][Next]_vars

=============================================================================
