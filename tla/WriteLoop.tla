----------------------------- MODULE WriteLoop -----------------------------
(***************************************************************************)
(* The write-loop machine that the content form and the CSS sidebar share  *)
(* (app-shell edit-drain).  A machine is [phase, seq, code]; an event is   *)
(* [type, seq, code].  Only what distinguishes refusals is kept of a code. *)
(***************************************************************************)
EXTENDS Naturals

Phases == {"idle", "pending", "committed", "rejected", "irreversible-postcommit",
           "refresh-required"}

Codes == {"none", "refused", "conflict", "busy"}

IdleWrite == [phase |-> "idle", seq |-> 0, code |-> "none"]

Event(type, seq) == [type |-> type, seq |-> seq, code |-> "none"]
Rejected(seq, code) == [type |-> "rejected", seq |-> seq, code |-> code]
ResetEvent == Event("reset", 0)

\* The phase an answer puts a pending machine into.
SettledPhase ==
    [committed |-> "committed", uncertain |-> "irreversible-postcommit",
     rejected |-> "rejected", conflict |-> "rejected"]

\* Mutant: an event of an earlier attempt moves the machine.
reduceWriteAnySeq(w, e) ==
    CASE e.type = "reset" -> IdleWrite
      [] e.type = "submitted" ->
            IF w.phase = "idle" /\ e.seq > w.seq
            THEN [phase |-> "pending", seq |-> e.seq, code |-> "none"] ELSE w
      [] e.type = "refresh-begun" ->
            IF w.phase \in {"committed", "irreversible-postcommit"}
            THEN [w EXCEPT !.phase = "refresh-required"] ELSE w
      [] e.type = "refresh-landed" ->
            IF w.phase = "refresh-required" THEN IdleWrite ELSE w
      [] OTHER ->
            IF w.phase = "pending"
            THEN [phase |-> SettledPhase[e.type], seq |-> w.seq, code |-> e.code] ELSE w

\* reduceWrite(): a submission needs an idle machine, every other event one
\* that works on the same attempt.
reduceWrite(w, e) ==
    CASE e.type = "reset" -> IdleWrite
      [] e.type = "submitted" ->
            IF w.phase = "idle" /\ e.seq > w.seq
            THEN [phase |-> "pending", seq |-> e.seq, code |-> "none"] ELSE w
      [] e.type # "submitted" /\ e.type # "reset" /\ e.seq # w.seq -> w
      [] e.type = "refresh-begun" /\ e.seq = w.seq ->
            IF w.phase \in {"committed", "irreversible-postcommit"}
            THEN [w EXCEPT !.phase = "refresh-required"] ELSE w
      [] e.type = "refresh-landed" /\ e.seq = w.seq ->
            IF w.phase = "refresh-required" THEN IdleWrite ELSE w
      [] OTHER ->
            IF w.phase = "pending"
            THEN [phase |-> SettledPhase[e.type], seq |-> e.seq, code |-> e.code] ELSE w

\* Two events dispatched in one turn.
reduceBoth(w, first, second) == reduceWrite(reduceWrite(w, first), second)

\* What comes back of an apply-edit: the server's answer, or none.
Answers == {"committed", "conflict", "refused", "failed", "lost"}

\* classifySettle(): only a named refusal proves that nothing was written;
\* every other failure may have been.
classifySettle(answer) ==
    CASE answer = "committed" -> "committed"
      [] answer = "conflict" -> "conflict"
      [] answer = "refused" -> "rejected"
      [] OTHER -> "uncertain"

\* The machine event of an answer.
SettleEvent(seq, answer) ==
    [type |-> classifySettle(answer), seq |-> seq,
     code |-> IF answer \in {"conflict", "refused"} THEN answer ELSE "none"]

WriteMachine == [phase : Phases, seq : Nat, code : Codes]
=============================================================================
