-------------------------- MODULE RegistryContract --------------------------
(***************************************************************************)
(* What the desktop host is promised by the registry of projects, without  *)
(* its files, its mirror and its boot steps (the contract of               *)
(* `ProjectRegistry`, runtime/registry/project-registry.ts): a document of *)
(* projects that a command changes in one project or not at all, that a    *)
(* stop at any point brings back as it was acknowledged or as a later      *)
(* command asked for, and that is sealed from the moment it is found       *)
(* damaged until one of the documents it may have held is restored.        *)
(***************************************************************************)
CONSTANTS
    Keys,      \* project keys
    Documents  \* sets of records with a key, no key or root twice

VARIABLES
    status,   \* "down", "ok" or "quarantined"
    shown,    \* the document a caller sees; empty unless "ok"
    offered,  \* the document the running command asks for, if one runs
    known,    \* the last acknowledged document, and those offered since
    seal,     \* "held" from the finding of damage until a restore begins to show
    damaged   \* may a start find the document damaged?

vars == <<status, shown, offered, known, seal, damaged>>

Init ==
    /\ status = "down" /\ shown = {} /\ offered = {}
    /\ known = {{}} /\ seal = "none" /\ damaged = FALSE

\* Damage goes away with the file that was damaged.
MayHeal == damaged' \in {damaged, FALSE}

\* One project's record differs, comes or goes.
TouchesOne(before, after) ==
    \E key \in Keys :
        {r \in before : r.key # key} = {r \in after : r.key # key}

\* register, rename or remove
Change ==
    /\ status = "ok" /\ offered = {}
    /\ \E next \in Documents :
          /\ TouchesOne(shown, next)
          /\ offered' = {next} /\ known' = known \cup {next}
    /\ UNCHANGED <<status, shown, seal, damaged>>

\* restore, which brings nothing that was not there before
Recover ==
    /\ status = "quarantined" /\ offered = {}
    /\ \E old \in known : offered' = {old}
    /\ UNCHANGED <<status, shown, known, seal, damaged>>

\* A restored document begins to show: a stop may now lift the seal or leave it.
BreakSeal ==
    /\ seal = "held" /\ seal' = "restoring"
    /\ status = "quarantined" /\ offered # {}
    /\ UNCHANGED <<status, shown, offered, known, damaged>>

\* What the command asked for is durable, and seen by the callers.
Adopt ==
    /\ seal # "held"
    /\ shown' \in offered /\ status' = "ok" /\ seal' = "none"
    /\ MayHeal
    /\ UNCHANGED <<offered, known>>

\* The command is answered: no start goes back behind what it asked for.
Acknowledge ==
    /\ status = "ok" /\ shown \in offered /\ seal = "none"
    /\ known' = {shown} /\ offered' = {}
    /\ MayHeal
    /\ UNCHANGED <<status, shown, seal>>

\* The command is rejected; a start may still find what it wrote.
Fail ==
    /\ offered # {} /\ offered' = {}
    /\ UNCHANGED <<status, shown, known, seal, damaged>>

\* The process or the machine stops.
Stop ==
    /\ status' = "down" /\ shown' = {} /\ offered' = {}
    /\ MayHeal
    /\ UNCHANGED <<known, seal>>

\* A start finds the damage before it can show anything.
FindDamage ==
    /\ status = "down" /\ damaged
    /\ seal' = "held"
    /\ UNCHANGED <<status, shown, offered, known, damaged>>

\* A start shows a known document, but never over a seal.
Start ==
    /\ status = "down" /\ status' = "ok"
    /\ shown' \in known /\ seal # "held"
    /\ UNCHANGED <<offered, known, seal, damaged>>

StartSealed ==
    /\ status = "down" /\ status' = "quarantined"
    /\ damaged \/ seal # "none"
    /\ seal' = "held"
    /\ MayHeal
    /\ UNCHANGED <<shown, offered, known>>

\* Something outside the program damages the document.
Spoil ==
    /\ damaged' = TRUE
    /\ UNCHANGED <<status, shown, offered, known, seal>>

Next ==
    \/ Change \/ Recover \/ BreakSeal \/ Adopt \/ Acknowledge \/ Fail
    \/ Stop \/ FindDamage \/ Start \/ StartSealed \/ Spoil

Spec == Init /\ [][Next]_vars

=============================================================================
