---------------------------- MODULE EditContract ----------------------------
(***************************************************************************)
(* What the author of edits is promised about a file, without fences,      *)
(* executors, leases and kills (the contract of `applyEdit`,               *)
(* src/apps/web/src/executor.ts, with ADR-0006 section 6): an edit is      *)
(* planned on text the file has had, reaches the file at most once and     *)
(* over that text only, or over a foreign write in the disclosed window;   *)
(* it is answered at most once, truthfully, and an edit that was refused   *)
(* never reaches the file afterwards.                                      *)
(***************************************************************************)
CONSTANTS
    Edits,       \* edits, each also the text it would write
    Foreign,     \* texts from outside
    NoContents   \* no text

VARIABLES
    file,     \* the file's text
    base,     \* per edit: the text it was planned on, once it was asked for
    written,  \* the edits that reached the file
    answer    \* per edit: "none" or its answer

vars == <<file, base, written, answer>>

\* The texts the file may have had.
Known == Foreign \cup written

Init ==
    /\ file \in Foreign
    /\ base = [e \in Edits |-> NoContents]
    /\ written = {}
    /\ answer = [e \in Edits |-> "none"]

OutsideWrite ==
    /\ file' \in Foreign
    /\ UNCHANGED <<base, written, answer>>

Plan ==
    /\ \E e \in Edits, text \in Known :
          base[e] = NoContents /\ base' = [base EXCEPT ![e] = text]
    /\ UNCHANGED <<file, written, answer>>

\* An edit that is not answered, or given up as uncertain, reaches the file.
Write ==
    /\ \E e \in Edits \ written :
          /\ base[e] # NoContents /\ answer[e] \in {"none", "uncertain"}
          /\ file = base[e] \/ file \in Foreign
          /\ file' = e /\ written' = written \cup {e}
    /\ UNCHANGED <<base, answer>>

\* What an edit may be told.
Truthful(e) ==
    {"uncertain"} \cup IF e \in written THEN {"committed"} ELSE {"conflict", "draining"}

\* Edits that were asked for are answered; a gone executor answers several at once.
Answer ==
    /\ DOMAIN answer' = Edits
    /\ \A e \in Edits :
          \/ answer'[e] = answer[e]
          \/ base[e] # NoContents /\ answer[e] = "none" /\ answer'[e] \in Truthful(e)
    /\ UNCHANGED <<file, base, written>>

Next == OutsideWrite \/ Plan \/ Write \/ Answer

Spec == Init /\ [][Next]_vars

=============================================================================
