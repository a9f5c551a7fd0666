--------------------------- MODULE ProjectRegistry --------------------------
(***************************************************************************)
(* The registry of projects (runtime/registry) over the fixed-file store   *)
(* (runtime/persistence): one process that loads, edits and restores the   *)
(* registry document, the three files it keeps, and what is left of them   *)
(* after the process or the machine stops between two steps, after a       *)
(* system error, or after a file was damaged from outside.                 *)
(*                                                                         *)
(* Commands wait in one promise queue and read nothing before they run, so *)
(* a waiting command is chosen when it runs.  Documents are sets of        *)
(* records; which bytes make a file unusable is left open.                 *)
(***************************************************************************)
EXTENDS Naturals, FiniteSets

CONSTANTS
    Keys,         \* project keys the allocator may draw
    Roots,        \* canonical roots
    Names,        \* display names the disclosure guard accepts
    Absent,       \* "contents" of a file that does not exist
    Unusable,     \* contents classified corrupt or unsupported-future
    MaxCommands,  \* bound: commands run
    MaxStops,     \* bound: process exits and power losses
    MaxDamage     \* bound: files damaged from outside

VARIABLES
    step,      \* where the process is; "down" when there is none
    closed,    \* was close() called?
    mem,       \* RegistryState
    job,       \* the document the running command writes
    disk,      \* the files as a running system reads them
    disks,     \* the files a power loss may leave: the disks since the last directory sync
    known,     \* history: the last acknowledged document, and those written since
    evidence,  \* history: an unusable document was found and no restore finished since
    commands, stops, damages    \* bounds

bounds == <<commands, stops, damages>>
vars == <<step, closed, mem, job, disk, disks, known, evidence, bounds>>

Files == {"registry", "mirror", "quarantine"}

Record == [key : Keys, root : Roots, name : Names]

ASSUME RegistryAssumption ==
    /\ Absent # Unusable
    /\ \A doc \in SUBSET Record : doc # Absent /\ doc # Unusable
    /\ MaxCommands \in Nat /\ MaxStops \in Nat /\ MaxDamage \in Nat

\* The schema's superRefine: no key and no root twice.
WellFormed(doc) ==
    \A r, s \in doc : r # s => r.key # s.key /\ r.root # s.root

Documents == {doc \in SUBSET Record : WellFormed(doc)}

\* classifyRegistryDocument, of a file that may not exist.
Readable(contents) == contents \notin {Absent, Unusable} /\ WellFormed(contents)

Disk == [Files -> (SUBSET Record) \cup {Absent, Unusable}]

Healthy(doc) == [status |-> "ok", doc |-> doc, restorable |-> FALSE]
Quarantined(d) ==
    [status |-> "quarantined", doc |-> {}, restorable |-> Readable(d["mirror"])]

\* What loadState makes of the files.
Loaded(d) ==
    IF Readable(d["registry"]) THEN Healthy(d["registry"])
    ELSE IF d["registry"] # Absent \/ d["quarantine"] # Absent THEN Quarantined(d)
    ELSE Healthy({})

Init ==
    /\ step = "down" /\ closed = FALSE
    /\ mem = Healthy({}) /\ job = {}
    /\ disk = [f \in Files |-> Absent]
    /\ disks = {disk}
    /\ known = {{}} /\ evidence = "none"
    /\ commands = 0 /\ stops = 0 /\ damages = 0

----------------------------------------------------------------------------
(* The store: a directory change is visible at once and durable after the  *)
(* next directory sync; the qualified filesystems (APFS, ext4) journal the *)
(* changes of a directory in order.  The temporary file is complete and    *)
(* synced before it is renamed, so a rename shows whole contents.          *)

\* Mutant: the rename is left to the kernel's own flush.
ForgetsTheSync == UNCHANGED disks

\* rename(temporary file, f) or unlink(f)
Put(f, contents) ==
    /\ disk' = [disk EXCEPT ![f] = contents]
    /\ disks' = disks \cup {disk'}

\* renameIn(registry, quarantine)
MoveAside ==
    /\ disk' = [disk EXCEPT !["registry"] = Absent, !["quarantine"] = disk["registry"]]
    /\ disks' = disks \cup {disk'}

syncDirectory == disks' = {disk}

----------------------------------------------------------------------------
(* Boot: createProjectRegistry and loadState                               *)

Boot ==
    /\ step = "down"
    /\ closed' = FALSE
    /\ IF disk["registry"] # Absent /\ ~Readable(disk["registry"])
       THEN step' = "setAside" /\ evidence' = "held" /\ UNCHANGED mem
       ELSE /\ mem' = Loaded(disk)
            /\ step' = IF Readable(disk["registry"]) /\ disk["quarantine"] # Absent
                       THEN "sweep" ELSE "idle"
            /\ evidence' = IF mem'.status = "quarantined" THEN "held" ELSE evidence
    /\ UNCHANGED <<job, disk, disks, known, bounds>>

SetAside ==
    /\ step = "setAside" /\ step' = "settingAside"
    /\ MoveAside
    /\ UNCHANGED <<closed, mem, job, known, evidence, bounds>>

SettledAside ==
    /\ step = "settingAside" /\ step' = "idle"
    /\ syncDirectory
    /\ mem' = Loaded(disk)
    /\ UNCHANGED <<closed, job, disk, known, evidence, bounds>>

\* The residue of an interrupted restore goes; unlink is not followed by a sync.
Sweep ==
    /\ step = "sweep" /\ step' = "idle"
    /\ Put("quarantine", Absent)
    /\ UNCHANGED <<closed, mem, job, known, evidence, bounds>>

----------------------------------------------------------------------------
(* Commands                                                                *)

Running == step = "idle" /\ commands < MaxCommands

\* A command ends without a write: closed, quarantined or healthy, an unknown key,
\* an unavailable root, a refused name, an active record, nothing to restore, or a
\* root that is registered already.
EndWithoutWrite ==
    /\ Running
    /\ commands' = commands + 1
    /\ UNCHANGED <<step, closed, mem, job, disk, disks, known, evidence, stops, damages>>

Register ==
    \E key \in Keys, root \in Roots, name \in Names :
        /\ root \notin {r.root : r \in mem.doc}
        /\ key \notin {r.key : r \in mem.doc}
        /\ job' = mem.doc \cup {[key |-> key, root |-> root, name |-> name]}

Rename ==
    \E r \in mem.doc, name \in Names :
        job' = (mem.doc \ {r}) \cup {[r EXCEPT !.name = name]}

\* Mutant: the projects of a display name go together.
RemovesTheNamesakes == \E r \in mem.doc : job' = {s \in mem.doc : s.name # r.name}

Remove == \E r \in mem.doc : job' = mem.doc \ {r}

\* dispatch: a mutation has its next document and enters persist.
Mutate ==
    /\ Running /\ ~closed /\ mem.status = "ok"
    /\ Register \/ Rename \/ Remove
    /\ step' = "replace" /\ known' = known \cup {job'}
    /\ commands' = commands + 1
    /\ UNCHANGED <<closed, mem, disk, disks, evidence, stops, damages>>

\* restore: the mirror is read again and must still be usable.
Restore ==
    /\ Running /\ ~closed /\ mem.status = "quarantined" /\ mem.restorable
    /\ Readable(disk["mirror"])
    /\ job' = disk["mirror"] /\ step' = "replace" /\ known' = known \cup {job'}
    /\ commands' = commands + 1
    /\ UNCHANGED <<closed, mem, disk, disks, evidence, stops, damages>>

ReplaceRegistry ==
    /\ step = "replace" /\ step' = "replaced"
    /\ Put("registry", job)
    /\ evidence' = IF evidence = "held" THEN "restoring" ELSE evidence
    /\ UNCHANGED <<closed, mem, job, known, bounds>>

\* The new document is durable and adopted; a mutation goes on to the mirror, a
\* restore to the quarantine file.
Adopt ==
    /\ step = "replaced"
    /\ step' = IF mem.status = "ok" THEN "mirror" ELSE "clear"
    /\ syncDirectory
    /\ mem' = Healthy(job)
    /\ evidence' = "none"
    /\ UNCHANGED <<closed, job, disk, known, bounds>>

ReplaceMirror ==
    /\ step = "mirror" /\ step' = "mirrored"
    /\ Put("mirror", job)
    /\ UNCHANGED <<closed, mem, job, known, evidence, bounds>>

Acknowledge ==
    /\ step' = "idle" /\ known' = {job} /\ job' = {}
    /\ UNCHANGED <<closed, mem, bounds>>

AnswerMutation ==
    /\ step = "mirrored"
    /\ syncDirectory
    /\ Acknowledge
    /\ UNCHANGED <<disk, evidence>>

AnswerRestore ==
    /\ step = "clear"
    /\ Put("quarantine", Absent)
    /\ Acknowledge
    /\ UNCHANGED evidence

close ==
    /\ step # "down" /\ ~closed
    /\ closed' = TRUE
    /\ UNCHANGED <<step, mem, job, disk, disks, known, evidence, bounds>>

----------------------------------------------------------------------------
(* Failures                                                                *)

\* A system call throws: a command rejects and later ones still run; a boot gives up.
SystemError ==
    /\ \/ step \in {"replace", "replaced", "mirror", "mirrored", "clear"} /\ step' = "idle"
       \/ step \in {"setAside", "settingAside", "sweep"} /\ step' = "down"
    /\ job' = {} /\ mem' = IF step' = "down" THEN Healthy({}) ELSE mem
    /\ UNCHANGED <<closed, disk, disks, known, evidence, bounds>>

Stopped ==
    /\ stops < MaxStops /\ stops' = stops + 1
    /\ step' = "down" /\ closed' = FALSE /\ mem' = Healthy({}) /\ job' = {}
    /\ UNCHANGED <<known, evidence, commands, damages>>

\* The process ends, in order after close() or at any point: the kernel keeps the files.
ProcessExit ==
    /\ step # "down" /\ Stopped
    /\ UNCHANGED <<disk, disks>>

PowerLoss ==
    /\ Stopped
    /\ disk' \in disks /\ disks' = {disk'}

\* Something outside the program rewrites a file, or another version of it does;
\* bound: not while a directory change is still unsynced.
Damage ==
    /\ damages < MaxDamage /\ damages' = damages + 1
    /\ disks = {disk}
    /\ \E f \in Files :
          /\ disk[f] # Absent
          /\ disk' = [disk EXCEPT ![f] = Unusable] /\ disks' = {disk'}
    /\ UNCHANGED <<step, closed, mem, job, known, evidence, commands, stops>>

----------------------------------------------------------------------------
Next ==
    \/ Boot \/ SetAside \/ SettledAside \/ Sweep
    \/ EndWithoutWrite \/ Mutate \/ Restore
    \/ ReplaceRegistry \/ Adopt \/ ReplaceMirror \/ AnswerMutation \/ AnswerRestore
    \/ close
    \/ SystemError \/ ProcessExit \/ PowerLoss \/ Damage

Spec == Init /\ [][Next]_vars

----------------------------------------------------------------------------
(* Properties                                                              *)

\* Types; the document in memory and the one about to be written can be read back:
\* no key and no root twice.
TypeOK ==
    /\ step \in {"down", "setAside", "settingAside", "sweep", "idle",
                 "replace", "replaced", "mirror", "mirrored", "clear"}
    /\ closed \in BOOLEAN
    /\ mem \in [status : {"ok", "quarantined"}, doc : Documents, restorable : BOOLEAN]
    /\ job \in Documents
    /\ disk \in Disk /\ disk \in disks /\ disks \subseteq Disk
    /\ known \subseteq Documents /\ evidence \in {"none", "held", "restoring"}
    /\ commands \in Nat /\ stops \in Nat /\ damages \in Nat

\* Whatever a stop leaves of the files, the next boot shows the last acknowledged
\* document or one that a later, unacknowledged command wrote; and it finds the
\* registry quarantined only if its document was damaged (persist, restore and
\* loadState over the store's write discipline).
BootKeepsAcknowledged ==
    \A d \in disks :
        /\ Loaded(d).status = "ok" => Loaded(d).doc \in known
        /\ Loaded(d).status = "quarantined" =>
               d["registry"] = Unusable \/ evidence # "none"

\* Whatever a stop leaves of the files, an explicit restore loses no acknowledged
\* mutation: a usable mirror holds the last acknowledged document or a later one, and
\* it is missing only if no mutation was ever acknowledged (persist, loadState).
RestoreKeepsAcknowledged ==
    \A d \in disks :
        /\ Readable(d["mirror"]) => d["mirror"] \in known
        /\ d["mirror"] = Absent => {} \in known

\* Once an unusable document was found, nothing but the restore command makes the
\* registry healthy again: not a restart, a failed restore, or a stop at any point, on
\* which a first boot could be assumed (loadState, quarantineCurrent, restore).
QuarantineSticks ==
    evidence = "held" =>
        /\ step \in {"idle", "replace"} => mem.status = "quarantined"
        /\ \A d \in disks : Loaded(d).status = "quarantined"

\* No acknowledged mutation is lost, neither by the next boot nor by a restore.
AcknowledgedSurvives == BootKeepsAcknowledged /\ RestoreKeepsAcknowledged

\* The registry's promise to its host: a boot shows nothing before it is settled, a
\* command's document is at risk from its first write to its answer, and the document
\* may be found damaged while a stop can leave it so.
Shows == step \notin {"down", "setAside", "settingAside", "sweep"}

Contract == INSTANCE RegistryContract WITH
    status <- IF Shows THEN mem.status ELSE "down",
    shown <- IF Shows THEN mem.doc ELSE {},
    offered <- IF step \in {"replace", "replaced", "mirror", "mirrored", "clear"}
               THEN {job} ELSE {},
    seal <- evidence,
    damaged <- \E d \in disks : d["registry"] = Unusable

\* Every step of the three files is a step of one document, or shows nothing: a command
\* changes one project or none, is seen once it is durable, and is acknowledged as it is
\* seen; a stop anywhere brings back the acknowledged document or a later one; and
\* damage, once found, keeps the registry sealed over every stop until a restore brings
\* back a document it may have held (createProjectRegistry, persist, restore).
KeepsContract == Contract!Spec

=============================================================================
