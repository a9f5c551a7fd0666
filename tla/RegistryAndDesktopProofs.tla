---------------------- MODULE RegistryAndDesktopProofs -----------------------
(***************************************************************************)
(* Proofs about ProjectRegistry, for every set of keys, roots and names    *)
(* and every number of commands, stops and damaged files, and, below them, *)
(* about DesktopHost, for every number of sessions, documents, requests    *)
(* and faults.                                                             *)
(***************************************************************************)
EXTENDS ProjectRegistry, DesktopHost, SequenceTheorems, TLAPS

----------------------------------------------------------------------------
(* The registry: what a stop may leave of its files.                       *)

\* The files without a usable document that are no first boot.
Lost(d) ==
    \/ d["registry"] = Unusable
    \/ d["registry"] = Absent /\ d["quarantine"] # Absent

Writing == {"replace", "replaced", "mirror", "mirrored", "clear"}

\* The running command's document may be found at the next boot.
JobKnown == step \in Writing => job \in known

\* What any stop leaves: known documents, and no false first boot.
FilesKnown ==
    \A d \in disks :
        /\ d["registry"] \in known \cup {Absent, Unusable}
        /\ d["mirror"] \in known \cup {Absent, Unusable}
        /\ d["mirror"] = Absent => {} \in known
        /\ d["registry"] = Absent => d["quarantine"] # Absent \/ {} \in known

\* A document moved aside is remembered, and held on to whatever stop comes.
EvidenceFits ==
    /\ evidence = "none" =>
           \A d \in disks : d["registry"] = Absent => d["quarantine"] = Absent
    /\ evidence = "held" => \A d \in disks : Lost(d)
    /\ Lost(disk) => \A d \in disks : Lost(d)
    /\ evidence = "held" /\ step \in {"idle", "replace"} => mem.status = "quarantined"

\* How far the boot or the command is, read off the files.
StepFits ==
    /\ step = "setAside" => evidence = "held" /\ disk["registry"] = Unusable
    /\ step = "settingAside" => evidence = "held"
    /\ step = "sweep" => evidence # "held" /\ disk["registry"] # Absent
    /\ step = "sweep" => mem.status = "ok" /\ mem.doc \in known
    /\ step \in {"replace", "replaced"} /\ mem.status = "quarantined" =>
           disk["mirror"] \in {job, Unusable}
    /\ step = "replaced" => evidence # "held" /\ disk["registry"] \in {job, Unusable}
    /\ step \in {"mirror", "mirrored", "clear"} =>
           /\ evidence = "none" /\ mem.status = "ok" /\ mem.doc = job
           /\ \A d \in disks : d["registry"] \in {job, Unusable}
    /\ step = "mirrored" => disk["mirror"] \in {job, Unusable}
    /\ step = "clear" => \A d \in disks : d["mirror"] \in {job, Unusable}

IInv == TypeOK /\ JobKnown /\ FilesKnown /\ EvidenceFits /\ StepFits

MemState == [status : {"ok", "quarantined"}, doc : Documents, restorable : BOOLEAN]

----------------------------------------------------------------------------
\* Helpers

\* What loadState makes of files that hold known documents.
LEMMA LoadedFacts ==
    ASSUME TypeOK, FilesKnown, NEW d \in disks
    PROVE  /\ Loaded(d) \in MemState
           /\ Loaded(d).status = "quarantined" <=> Lost(d)
           /\ Loaded(d).status = "ok" => Loaded(d).doc \in known
           /\ Readable(d["registry"]) <=> d["registry"] \in known
           /\ Readable(d["mirror"]) <=> d["mirror"] \in known
<1>1. \A k \in known : Readable(k) /\ k \in Documents /\ k # Absent /\ k # Unusable
    BY RegistryAssumption DEF TypeOK, Documents, Readable
<1>2. ~Readable(Absent) /\ ~Readable(Unusable) /\ Absent \notin known /\ Unusable \notin known
    BY <1>1 DEF Readable
<1>3. Readable(d["registry"]) <=> d["registry"] \in known
    BY <1>1, <1>2 DEF FilesKnown
<1>4. Readable(d["mirror"]) <=> d["mirror"] \in known
    BY <1>1, <1>2 DEF FilesKnown
<1>5. {} \in Documents
    BY DEF Documents, WellFormed
<1>6. Quarantined(d) \in MemState /\ Quarantined(d).status = "quarantined"
    BY <1>5 DEF Quarantined, MemState, Readable
<1>7. ASSUME NEW saved \in Documents
      PROVE  /\ Healthy(saved) \in MemState
             /\ Healthy(saved).status = "ok" /\ Healthy(saved).doc = saved
    BY DEF Healthy, MemState
<1>8. CASE d["registry"] \in known
    <2>1. Loaded(d) = Healthy(d["registry"])
        BY <1>3, <1>8 DEF Loaded
    <2>2. ~Lost(d)
        BY <1>2, <1>8 DEF Lost
    <2> QED
        BY <1>1, <1>3, <1>4, <1>7, <1>8, <2>1, <2>2
<1>9. CASE Lost(d)
    <2>1. Loaded(d) = Quarantined(d)
        BY <1>2, <1>9, RegistryAssumption DEF Loaded, Lost
    <2> QED
        BY <1>3, <1>4, <1>6, <1>9, <2>1
<1>10. CASE d["registry"] = Absent /\ d["quarantine"] = Absent
    <2>1. Loaded(d) = Healthy({})
        BY <1>2, <1>10 DEF Loaded
    <2>2. {} \in known /\ ~Lost(d)
        BY <1>10, RegistryAssumption DEF FilesKnown, Lost
    <2> QED
        BY <1>3, <1>4, <1>5, <1>7, <2>1, <2>2
<1> QED
    BY <1>8, <1>9, <1>10 DEF FilesKnown, Lost

\* A document a mutation makes of a readable one is readable.
LEMMA MutationReadable ==
    ASSUME mem.doc \in Documents, Register \/ Rename \/ Remove
    PROVE  job' \in Documents
<1>1. mem.doc \subseteq Record /\ WellFormed(mem.doc)
    BY DEF Documents
<1>2. CASE Register
    <2>1. PICK key \in Keys, root \in Roots, name \in Names :
              /\ root \notin {r.root : r \in mem.doc}
              /\ key \notin {r.key : r \in mem.doc}
              /\ job' = mem.doc \cup {[key |-> key, root |-> root, name |-> name]}
        BY <1>2 DEF Register
    <2> DEFINE new == [key |-> key, root |-> root, name |-> name]
    <2>2. new \in Record /\ new.key = key /\ new.root = root
        BY DEF Record
    <2>3. \A r \in mem.doc : r.key # new.key /\ r.root # new.root
        BY <2>1, <2>2
    <2>4. job' = mem.doc \cup {new}
        BY <2>1
    <2> HIDE DEF new
    <2> QED
        BY <1>1, <2>2, <2>3, <2>4 DEF WellFormed, Documents
<1>3. CASE Rename
    <2>1. PICK r \in mem.doc, name \in Names :
              job' = (mem.doc \ {r}) \cup {[r EXCEPT !.name = name]}
        BY <1>3 DEF Rename
    <2> DEFINE new == [r EXCEPT !.name = name]
    <2>2. new \in Record /\ new.key = r.key /\ new.root = r.root
        BY <1>1, <2>1 DEF Record
    <2>3. \A s \in mem.doc \ {r} : s.key # new.key /\ s.root # new.root
        BY <1>1, <2>1, <2>2 DEF WellFormed
    <2>4. job' = (mem.doc \ {r}) \cup {new}
        BY <2>1
    <2> HIDE DEF new
    <2> QED
        BY <1>1, <2>2, <2>3, <2>4 DEF WellFormed, Documents
<1>4. CASE Remove
    BY <1>1, <1>4 DEF Remove, WellFormed, Documents
<1> QED
    BY <1>2, <1>3, <1>4

----------------------------------------------------------------------------
\* The inductive invariant

LEMMA InitEstablishes == Init => IInv
<1> SUFFICES ASSUME Init PROVE IInv
    OBVIOUS
<1>1. {} \in Documents
    BY DEF Documents, WellFormed
<1> QED
    BY <1>1, RegistryAssumption
    DEF Init, IInv, TypeOK, JobKnown, FilesKnown, EvidenceFits, StepFits, Writing, Lost,
        Healthy, Disk, Files

\* Every step of the registry, and a stuttering step, keeps the invariant.
LEMMA StepPreserves == IInv /\ [Next]_vars => IInv'
<1> SUFFICES ASSUME IInv, [Next]_vars PROVE IInv'
    OBVIOUS
<1> USE RegistryAssumption
<1>a. \A d \in disks :
          /\ Loaded(d) \in MemState
          /\ Loaded(d).status = "quarantined" <=> Lost(d)
          /\ Loaded(d).status = "ok" => Loaded(d).doc \in known
          /\ Readable(d["registry"]) <=> d["registry"] \in known
          /\ Readable(d["mirror"]) <=> d["mirror"] \in known
    BY LoadedFacts DEF IInv
<1>b. disk \in disks /\ disk \in Disk
    BY DEF IInv, TypeOK
<1>c. {} \in Documents
    BY DEF Documents, WellFormed
<1>d. \A k \in known : k \in Documents /\ k # Absent /\ k # Unusable
    BY DEF IInv, TypeOK, Documents
<1>e. \A k \in Documents : k \in SUBSET Record /\ k # Absent /\ k # Unusable
    BY DEF Documents
<1>1. CASE UNCHANGED vars
    BY <1>1
       DEF IInv, TypeOK, JobKnown, FilesKnown, EvidenceFits, StepFits, Lost, vars, bounds
<1>2. CASE Boot
    <2>1. CASE disk["registry"] # Absent /\ ~Readable(disk["registry"])
        <3>1. /\ step' = "setAside" /\ evidence' = "held" /\ mem' = mem /\ closed' = FALSE
              /\ UNCHANGED <<job, disk, disks, known, bounds>>
            BY <1>2, <2>1 DEF Boot
        <3>2. disk["registry"] = Unusable /\ Lost(disk)
            BY <1>a, <1>b, <2>1 DEF IInv, FilesKnown, Lost
        <3> QED
            BY <3>1, <3>2 DEF IInv, TypeOK, JobKnown, FilesKnown, EvidenceFits, StepFits,
                              Lost, Writing, bounds
    <2>2. CASE ~(disk["registry"] # Absent /\ ~Readable(disk["registry"]))
        <3>1. /\ mem' = Loaded(disk) /\ closed' = FALSE
              /\ step' = IF Readable(disk["registry"]) /\ disk["quarantine"] # Absent
                         THEN "sweep" ELSE "idle"
              /\ evidence' = IF mem'.status = "quarantined" THEN "held" ELSE evidence
              /\ UNCHANGED <<job, disk, disks, known, bounds>>
            BY <1>2, <2>2 DEF Boot
        <3>2. mem' \in MemState /\ (mem'.status = "quarantined" <=> Lost(disk))
            BY <1>a, <1>b, <3>1
        <3>3. evidence' = "held" <=> Lost(disk)
            BY <1>b, <3>1, <3>2 DEF IInv, EvidenceFits
        <3>4. step' = "sweep" => /\ disk["registry"] # Absent /\ ~Lost(disk)
                                 /\ mem'.status = "ok" /\ mem'.doc \in known
            BY <1>a, <1>b, <1>d, <3>1, <3>2 DEF Lost, MemState
        <3> QED
            BY <3>1, <3>2, <3>3, <3>4
            DEF IInv, TypeOK, JobKnown, FilesKnown, EvidenceFits, StepFits, Lost, Writing,
                MemState, bounds
    <2> QED
        BY <2>1, <2>2
<1>3. CASE SetAside
    BY <1>3, <1>b
       DEF SetAside, MoveAside, IInv, TypeOK, JobKnown, FilesKnown, EvidenceFits,
        StepFits, Lost, Writing, Disk, Files, bounds
<1>4. CASE SettledAside
    BY <1>4, <1>a, <1>b
       DEF SettledAside, syncDirectory, IInv, TypeOK, JobKnown, FilesKnown,
        EvidenceFits, StepFits, Lost, Writing, MemState, bounds
<1>5. CASE Sweep
    BY <1>5, <1>b DEF Sweep, Put, IInv, TypeOK, JobKnown, FilesKnown, EvidenceFits,
        StepFits, Lost, Writing, Disk, Files, bounds
<1>6. CASE EndWithoutWrite
    BY <1>6
       DEF EndWithoutWrite, IInv, TypeOK, JobKnown, FilesKnown, EvidenceFits, StepFits,
        Lost, Running
<1>7. CASE Mutate
    <2>1. job' \in Documents
        BY <1>7, MutationReadable DEF Mutate, IInv, TypeOK
    <2>2. /\ step = "idle" /\ step' = "replace" /\ mem.status = "ok"
          /\ known' = known \cup {job'} /\ commands' = commands + 1
          /\ UNCHANGED <<closed, mem, disk, disks, evidence, stops, damages>>
        BY <1>7 DEF Mutate, Running
    <2> QED
        BY <2>1, <2>2
           DEF IInv, TypeOK, JobKnown, FilesKnown, EvidenceFits, StepFits, Lost,
            Writing
<1>8. CASE Restore
    <2>1. disk["mirror"] \in known
        BY <1>8, <1>a, <1>b DEF Restore
    <2> QED
        BY <1>8, <1>d, <2>1 DEF Restore, Running, IInv, TypeOK, JobKnown, FilesKnown,
            EvidenceFits, StepFits, Lost, Writing
<1>9. CASE ReplaceRegistry
    BY <1>9, <1>b, <1>d, <1>e
       DEF ReplaceRegistry, Put, IInv, TypeOK, JobKnown, FilesKnown,
        EvidenceFits, StepFits, Lost, Writing, Disk, Files, bounds
<1>10. CASE Adopt
    BY <1>10, <1>b, <1>d
       DEF Adopt, syncDirectory, Healthy, IInv, TypeOK, JobKnown, FilesKnown,
        EvidenceFits, StepFits, Lost, Writing, bounds
<1>11. CASE ReplaceMirror
    BY <1>11, <1>b, <1>d, <1>e DEF ReplaceMirror, Put, IInv, TypeOK, JobKnown, FilesKnown,
        EvidenceFits, StepFits, Lost, Writing, Disk, Files, bounds
<1>12. CASE AnswerMutation
    BY <1>12, <1>b, <1>c, <1>d
       DEF AnswerMutation, Acknowledge, syncDirectory, IInv, TypeOK,
        JobKnown, FilesKnown, EvidenceFits, StepFits, Lost, Writing, bounds
<1>13. CASE AnswerRestore
    BY <1>13, <1>b, <1>c, <1>d
       DEF AnswerRestore, Acknowledge, Put, IInv, TypeOK, JobKnown,
        FilesKnown, EvidenceFits, StepFits, Lost, Writing, Disk, Files, bounds
<1>14. CASE close
    BY <1>14 DEF close, IInv, TypeOK, JobKnown, FilesKnown, EvidenceFits, StepFits, Lost,
        bounds
<1>15. CASE SystemError
    BY <1>15, <1>c
       DEF SystemError, Healthy, IInv, TypeOK, JobKnown, FilesKnown, EvidenceFits,
        StepFits, Lost, Writing, bounds
<1>s. ASSUME Stopped
      PROVE  /\ step' = "down" /\ closed' = FALSE /\ mem' \in MemState /\ job' = {}
             /\ stops' \in Nat /\ UNCHANGED <<known, evidence, commands, damages>>
    BY <1>s, <1>c DEF Stopped, Healthy, MemState, IInv, TypeOK
<1>16. CASE ProcessExit
    <2>1. Stopped /\ UNCHANGED <<disk, disks>>
        BY <1>16 DEF ProcessExit
    <2> QED
        BY <1>c, <1>s, <2>1
           DEF IInv, TypeOK, JobKnown, FilesKnown, EvidenceFits, StepFits, Lost,
            Writing, MemState
<1>17. CASE PowerLoss
    <2>1. Stopped /\ disk' \in disks /\ disks' = {disk'}
        BY <1>17 DEF PowerLoss
    <2> QED
        BY <1>c, <1>s, <2>1
           DEF IInv, TypeOK, JobKnown, FilesKnown, EvidenceFits, StepFits, Lost,
            Writing, MemState
<1>18. CASE Damage
    <2>1. PICK f \in Files :
              /\ disk[f] # Absent
              /\ disk' = [disk EXCEPT ![f] = Unusable] /\ disks' = {disk'}
        BY <1>18 DEF Damage
    <2>2. /\ disks = {disk} /\ damages' = damages + 1
          /\ UNCHANGED <<step, closed, mem, job, known, evidence, commands, stops>>
        BY <1>18 DEF Damage
    <2> QED
        BY <1>b, <1>d, <2>1, <2>2
           DEF IInv, TypeOK, JobKnown, FilesKnown, EvidenceFits, StepFits,
            Lost, Writing, Disk, Files
<1> QED
    BY <1>1, <1>2, <1>3, <1>4, <1>5, <1>6, <1>7, <1>8, <1>9, <1>10, <1>11, <1>12, <1>13,
       <1>14, <1>15, <1>16, <1>17, <1>18 DEF Next

----------------------------------------------------------------------------
\* The inductive invariant holds in every reachable state, for every set of keys, roots
\* and names and every bound.
THEOREM RegistryInvariant == Spec => []IInv
<1> QED
    BY InitEstablishes, StepPreserves, PTL DEF Spec

\* Type correctness; the documents in memory and about to be written can be read back
\* (registryDocumentSchema, register, rename, remove).
THEOREM RegistryTypeOK == Spec => []TypeOK
<1>1. IInv => TypeOK
    BY DEF IInv
<1> QED
    BY RegistryInvariant, <1>1, PTL

\* Whatever a stop leaves of the files, the next boot shows the last acknowledged document
\* or a later one, and quarantines only what was damaged (persist, restore, loadState).
THEOREM RegistryBootKeepsAcknowledged == Spec => []BootKeepsAcknowledged
<1>1. IInv => BootKeepsAcknowledged
    <2> SUFFICES ASSUME IInv, NEW d \in disks
                 PROVE  /\ Loaded(d).status = "ok" => Loaded(d).doc \in known
                        /\ Loaded(d).status = "quarantined" =>
                               d["registry"] = Unusable \/ evidence # "none"
        BY DEF BootKeepsAcknowledged
    <2>1. /\ Loaded(d).status = "ok" => Loaded(d).doc \in known
          /\ Loaded(d).status = "quarantined" => Lost(d)
        BY LoadedFacts DEF IInv
    <2> QED
        BY <2>1 DEF IInv, EvidenceFits, Lost
<1> QED
    BY RegistryInvariant, <1>1, PTL

\* Whatever a stop leaves of the files, a restore loses no acknowledged mutation (persist).
THEOREM RegistryRestoreKeepsAcknowledged == Spec => []RestoreKeepsAcknowledged
<1>1. IInv => RestoreKeepsAcknowledged
    <2> SUFFICES ASSUME IInv, NEW d \in disks
                 PROVE  /\ Readable(d["mirror"]) => d["mirror"] \in known
                        /\ d["mirror"] = Absent => {} \in known
        BY DEF RestoreKeepsAcknowledged
    <2>1. Readable(d["mirror"]) => d["mirror"] \in known
        BY LoadedFacts DEF IInv
    <2> QED
        BY <2>1 DEF IInv, FilesKnown
<1> QED
    BY RegistryInvariant, <1>1, PTL

\* A quarantined registry stays quarantined, whatever stop comes, until a restore writes
\* its document (loadState, quarantineCurrent, restore).
THEOREM RegistryQuarantineSticks == Spec => []QuarantineSticks
<1>1. IInv => QuarantineSticks
    <2> SUFFICES ASSUME IInv, evidence = "held"
                 PROVE  /\ step \in {"idle", "replace"} => mem.status = "quarantined"
                        /\ \A d \in disks : Loaded(d).status = "quarantined"
        BY DEF QuarantineSticks
    <2>1. ASSUME NEW d \in disks PROVE Loaded(d).status = "quarantined" <=> Lost(d)
        BY LoadedFacts DEF IInv
    <2> QED
        BY <2>1 DEF IInv, EvidenceFits
<1> QED
    BY RegistryInvariant, <1>1, PTL

\* Neither a boot nor a restore loses an acknowledged mutation, whatever the stops and
\* the damage leave of the files (persist, restore, loadState).
THEOREM RegistryAcknowledgedSurvives == Spec => []AcknowledgedSurvives
<1>1. BootKeepsAcknowledged /\ RestoreKeepsAcknowledged => AcknowledgedSurvives
    BY DEF AcknowledgedSurvives
<1> QED
    BY <1>1, RegistryBootKeepsAcknowledged, RegistryRestoreKeepsAcknowledged, PTL

----------------------------------------------------------------------------
\* The contract with the host.

\* A command writes a document that differs from the one in memory in one project.
LEMMA MutationTouchesOne ==
    ASSUME mem.doc \in Documents, Register \/ Rename \/ Remove
    PROVE  Contract!TouchesOne(mem.doc, job')
<1>1. mem.doc \subseteq Record /\ \A r \in mem.doc : r.key \in Keys
    BY DEF Documents, Record
<1>2. CASE Register
    <2>1. PICK key \in Keys, root \in Roots, name \in Names :
              job' = mem.doc \cup {[key |-> key, root |-> root, name |-> name]}
        BY <1>2 DEF Register
    <2> DEFINE new == [key |-> key, root |-> root, name |-> name]
    <2>2. new.key = key /\ job' = mem.doc \cup {new}
        BY <2>1
    <2> HIDE DEF new
    <2> QED
        BY <2>2 DEF Contract!TouchesOne
<1>3. CASE Rename
    <2>1. PICK r \in mem.doc, name \in Names :
              job' = (mem.doc \ {r}) \cup {[r EXCEPT !.name = name]}
        BY <1>3 DEF Rename
    <2> DEFINE new == [r EXCEPT !.name = name]
    <2>2. new.key = r.key /\ r.key \in Keys /\ job' = (mem.doc \ {r}) \cup {new}
        BY <1>1, <2>1 DEF Record
    <2> HIDE DEF new
    <2> QED
        BY <2>2 DEF Contract!TouchesOne
<1>4. CASE Remove
    BY <1>1, <1>4 DEF Remove, Contract!TouchesOne
<1> QED
    BY <1>2, <1>3, <1>4

\* A quarantined registry shows no document.
LEMMA SealedShowsNothing ==
    ASSUME NEW d, Loaded(d).status = "quarantined"
    PROVE  Loaded(d).doc = {}
BY DEF Loaded, Healthy, Quarantined

\* A registry step is one of the contract's, or shows the host nothing.
LEMMA StepKeepsContract ==
    IInv /\ IInv' /\ [Next]_vars => [Contract!Next]_(Contract!vars)
<1> SUFFICES ASSUME IInv, IInv', [Next]_vars PROVE Contract!Next \/ UNCHANGED Contract!vars
    OBVIOUS
<1> USE RegistryAssumption DEF Shows
<1>a. \A d \in disks :
          /\ Loaded(d) \in MemState
          /\ Loaded(d).status = "quarantined" <=> Lost(d)
          /\ Loaded(d).status = "ok" => Loaded(d).doc \in known
          /\ Readable(d["registry"]) <=> d["registry"] \in known
          /\ Readable(d["mirror"]) <=> d["mirror"] \in known
    BY LoadedFacts DEF IInv
<1>b. /\ disk \in disks /\ disk \in Disk
      /\ disk' \in disks' /\ disk' \in Disk'
      /\ mem \in MemState /\ mem' \in MemState
      /\ job \in Documents /\ job' \in Documents
    BY DEF IInv, TypeOK, MemState
<1>c. \A k \in Documents : k # Absent /\ k # Unusable
    BY DEF Documents
<1>1. CASE UNCHANGED vars
    BY <1>1 DEF vars, Contract!vars
<1>2. CASE Boot
    <2>1. CASE disk["registry"] # Absent /\ ~Readable(disk["registry"])
        <3>1. disk["registry"] = Unusable
            BY <1>a, <1>b, <2>1 DEF IInv, FilesKnown
        <3> QED
            BY <1>2, <1>b, <2>1, <3>1 DEF Boot, bounds, Contract!Next, Contract!FindDamage
    <2>2. CASE ~(disk["registry"] # Absent /\ ~Readable(disk["registry"]))
        <3>1. /\ step = "down" /\ mem' = Loaded(disk)
              /\ step' = IF Readable(disk["registry"]) /\ disk["quarantine"] # Absent
                         THEN "sweep" ELSE "idle"
              /\ evidence' = IF mem'.status = "quarantined" THEN "held" ELSE evidence
              /\ UNCHANGED <<job, disk, disks, known>>
            BY <1>2, <2>2 DEF Boot
        <3>2. CASE step' = "sweep"
            BY <1>a, <1>b, <1>c, <3>1, <3>2 DEF Contract!vars, IInv, TypeOK, Lost
        <3>3. CASE step' = "idle" /\ mem'.status = "ok"
            <4>1. evidence # "held" /\ mem'.doc \in known
                BY <1>a, <1>b, <3>1, <3>3 DEF IInv, EvidenceFits
            <4> QED
                BY <3>1, <3>3, <4>1 DEF Contract!Next, Contract!Start
        <3>4. CASE step' = "idle" /\ mem'.status = "quarantined"
            <4>1. mem'.doc = {} /\ Lost(disk)
                BY <1>a, <1>b, <3>1, <3>4, SealedShowsNothing
            <4>2. disk["registry"] = Unusable \/ evidence # "none"
                BY <1>b, <4>1 DEF Lost, IInv, EvidenceFits
            <4> QED
                BY <1>b, <3>1, <3>4, <4>1, <4>2
                DEF Contract!Next, Contract!StartSealed, Contract!MayHeal
        <3> QED
            BY <1>b, <3>1, <3>2, <3>3, <3>4 DEF MemState
    <2> QED
        BY <2>1, <2>2
<1>3. CASE SetAside
    BY <1>3, <1>b DEF SetAside, MoveAside, Contract!vars, Disk, Files
<1>4. CASE SettledAside
    <2>1. /\ step = "settingAside" /\ step' = "idle" /\ evidence = "held"
          /\ mem' = Loaded(disk) /\ UNCHANGED <<job, known, evidence>>
          /\ disks' = {disk} /\ disk' = disk
        BY <1>4 DEF SettledAside, syncDirectory, IInv, StepFits
    <2>2. mem'.status = "quarantined" /\ mem'.doc = {}
        BY <1>a, <1>b, <2>1, SealedShowsNothing DEF IInv, EvidenceFits
    <2> QED
        BY <1>b, <2>1, <2>2 DEF Contract!Next, Contract!StartSealed, Contract!MayHeal
<1>5. CASE Sweep
    BY <1>5, <1>b DEF Sweep, Put, IInv, StepFits, Contract!Next, Contract!Start, Disk, Files
<1>6. CASE EndWithoutWrite
    BY <1>6 DEF EndWithoutWrite, Contract!vars
<1>7. CASE Mutate
    <2>1. Contract!TouchesOne(mem.doc, job')
        BY <1>7, <1>b, MutationTouchesOne DEF Mutate, MemState
    <2> QED
        BY <1>7, <1>b, <2>1 DEF Mutate, Running, Contract!Next, Contract!Change
<1>8. CASE Restore
    <2>1. disk["mirror"] \in known
        BY <1>8, <1>a, <1>b DEF Restore
    <2>2. known' = known
        BY <1>8, <2>1 DEF Restore
    <2> QED
        BY <1>8, <2>1, <2>2 DEF Restore, Running, Contract!Next, Contract!Recover
<1>9. CASE ReplaceRegistry
    <2>1. (\E d \in disks : d["registry"] = Unusable)'
              = (\E d \in disks : d["registry"] = Unusable)
        BY <1>9, <1>b, <1>c DEF ReplaceRegistry, Put, Disk, Files
    <2> QED
        BY <1>9, <2>1 DEF ReplaceRegistry, IInv, EvidenceFits,
            Contract!vars, Contract!Next, Contract!BreakSeal
<1>10. CASE Adopt
    BY <1>10, <1>b
       DEF Adopt, syncDirectory, Healthy, IInv, StepFits, Contract!Next, Contract!Adopt, Contract!MayHeal
<1>11. CASE ReplaceMirror
    BY <1>11, <1>b DEF ReplaceMirror, Put, Contract!vars, Disk, Files
<1>12. CASE AnswerMutation
    BY <1>12, <1>b DEF AnswerMutation, Acknowledge, syncDirectory, IInv, StepFits,
        Contract!Next, Contract!Acknowledge, Contract!MayHeal
<1>13. CASE AnswerRestore
    BY <1>13, <1>b DEF AnswerRestore, Acknowledge, Put, IInv, StepFits,
        Contract!Next, Contract!Acknowledge, Contract!MayHeal, Disk, Files
<1>14. CASE close
    BY <1>14 DEF close, Contract!vars
<1>15. CASE SystemError
    BY <1>15 DEF SystemError, Healthy, Contract!vars, Contract!Next, Contract!Fail
<1>16. CASE ProcessExit
    BY <1>16 DEF ProcessExit, Stopped, Contract!Next, Contract!Stop, Contract!MayHeal
<1>17. CASE PowerLoss
    BY <1>17 DEF PowerLoss, Stopped, Contract!Next, Contract!Stop, Contract!MayHeal
<1>18. CASE Damage
    BY <1>18, <1>b DEF Damage, Contract!Next, Contract!Spoil, Contract!vars, Disk, Files
<1> QED
    BY <1>1, <1>2, <1>3, <1>4, <1>5, <1>6, <1>7, <1>8, <1>9, <1>10, <1>11, <1>12, <1>13,
       <1>14, <1>15, <1>16, <1>17, <1>18 DEF Next

\* The registry implements its contract with the host, for every set of keys, roots and
\* names and any number of stops and damages.
THEOREM RegistryKeepsContract == Spec => KeepsContract
<1>1. Init => Contract!Init
    BY RegistryAssumption DEF Init, Contract!Init, Shows, Files
<1>2. IInv /\ IInv' /\ [Next]_vars => [Contract!Next]_(Contract!vars)
    BY StepKeepsContract
<1> QED
    BY <1>1, <1>2, RegistryInvariant, PTL DEF Spec, KeepsContract, Contract!Spec

----------------------------------------------------------------------------
(* The invariant of the desktop.                                           *)

ToChildMsg ==
    [k : {"activate", "deactivate"}, id : Reqs, sess : Gens0]
    \cup [k : {"observed", "navigated"}, doc : Docs0, win : Nat]
    \cup [k : {"rendererLost", "targetDestroyed"}, win : Nat] \cup [k : {"revoked"}, cap : Caps]

ToHostMsg ==
    [k : {"booted", "ask", "replace"}]
    \cup [k : {"state"}, gen : Gens0, cap : Caps \cup {None}]
    \cup [k : {"result"}, id : Reqs, ok : BOOLEAN, cap : Caps \cup {None}]

QueuesTyped == toChild \in Seq(ToChildMsg) /\ toHost \in Seq(ToHostMsg)

\* The messages of a queue; those behind one of the kinds K; the last of the
\* kinds K.
Pos(q) == 1..Len(q)
Msgs(q) == {q[i] : i \in Pos(q)}
BehindPos(q, K) == {i \in Pos(q) : \E j \in Pos(q) : j < i /\ q[j].k \in K}
Behind(q, K) == {q[i] : i \in BehindPos(q, K)}
LastPos(q, K) == {i \in Pos(q) : q[i].k \in K /\ \A j \in Pos(q) : j > i => q[j].k \notin K}
Last(q, K) == {q[i] : i \in LastPos(q, K)}

InChild == Msgs(toChild)
InHost == Msgs(toHost)

AskKind == {"ask"}
QuestionKinds == {"ask", "replace"}
AnswerKind == {"observed"}
StateKind == {"state"}
ReportKinds == {"state", "result"}

\* Requests are used in their order.
ReqsUsed ==
    /\ \A r \in Reqs : req[r].kind = "none" <=> req[r].state = "unused"
    /\ \A r \in Reqs : req[r].state = "preparing" => req[r].kind = "activate"
    /\ \E n \in 0..MaxReq : \A r \in Reqs : req[r].state = "unused" <=> r > n

\* The child works on, and answers, requests of the kind the host made.
RequestsFit ==
    /\ exec # NoExec => req[exec.req].kind = "activate"
    /\ \A c \in InChild : c.k \in {"activate", "deactivate"} =>
          req[c.id].kind = c.k /\ (c.k = "deactivate" => req[c.id].sess = c.sess)
    /\ \A h \in InHost : h.k = "result" => req[h.id].kind # "none"

\* One question of the handshake is under way: asked, being answered by a
\* load, or answered.
OneQuestion ==
    /\ \A h \in InHost : h.k \in QuestionKinds =>
          /\ exec.phase = IF h.k = "ask" THEN "asked" ELSE "replacing"
          /\ load = "none"
          /\ \A c \in InChild : c.k \notin AnswerKind
    /\ load # "none" => exec.phase = "replacing" /\ \A c \in InChild : c.k \notin AnswerKind
    /\ \A c \in InChild : c.k \in AnswerKind => exec.phase \in {"asked", "replacing"}
    /\ \A h \in Behind(toHost, QuestionKinds) : h.k \notin QuestionKinds
    /\ \A c \in Behind(toChild, AnswerKind) : c.k \notin AnswerKind

\* The activation in flight, the active session and the seat.
ExecFits ==
    /\ exec.phase = "none" <=> exec = NoExec
    /\ exec # NoExec => exec.gen \in 1..nextGen /\ exec.req \in Reqs
    /\ active <= nextGen /\ seat.gen <= nextGen
    /\ exec.phase \in {"staging", "switching"} => exec.gen # active
    /\ exec.phase \in {"staging", "switching", "asked"} => exec.gen # seat.gen
    /\ exec.phase \in {"asked", "replacing", "stranded"} => active \in {0, exec.gen}
    /\ active # 0 /\ exec.phase \notin {"asked", "stranded"} => seat.gen = active
    /\ seat.gen = 0 => seat = NoSeat
    /\ seat.gen # 0 => seat.cap \in Caps /\ seat.cap[1] = seat.gen

\* Who holds the fence of the seat, and what became of that session.
HoldsFit ==
    /\ \A r \in Reqs : ending[r].phase # "none" =>
          /\ ending[r].gen \in 1..MaxGen
          /\ active = ending[r].gen \/ ending[r].gen \in ousted
          /\ \/ Switching(r)
             \/ req[r].kind = "deactivate" /\ ending[r].gen = req[r].sess
    /\ \A r, s \in Reqs :
          ending[r].phase # "none" /\ ending[s].phase # "none" /\ ending[r].gen = ending[s].gen
             => r = s
    /\ exec.phase = "switching" =>
          /\ ending[exec.req].phase # "none"
          /\ active \in {0, ending[exec.req].gen}

\* One grant at most: at the newest document observed or of a window torn
\* down since, and the seat's if it is the active session's.
GrantsFit ==
    /\ \A c, d \in grants : c = d
    /\ \A c \in grants :
          /\ c[2] = latest \/ c[2] < win
          /\ c[1] = active => Seated /\ c = seat.cap
          /\ c[1] <= nextGen
          /\ exec.phase \in {"staging", "switching", "asked"} => c[1] # exec.gen

DocumentsFit ==
    /\ latest <= doc /\ win <= doc + 1
    /\ \A c \in InChild :
          /\ c.k \in {"observed", "navigated"} => c.doc <= doc /\ c.win <= win
          /\ c.k \in {"rendererLost", "targetDestroyed"} => c.win <= win

\* Until the host hears of the boot, nothing else is under way.
NotBooted ==
    /\ \A h \in InHost : h.k = "booted" => target = "absent"
    /\ child = "boot" => target = "absent" /\ toHost = <<>>
    /\ target = "absent" =>
          /\ active = 0 /\ nextGen = 0 /\ exec = NoExec /\ grants = {} /\ seat = NoSeat
          /\ InChild = {} /\ load = "none" /\ shown = 0 /\ caps = None /\ closing = 0
          /\ Len(toHost) <= 1 /\ \A h \in InHost : h.k = "booted"
          /\ \A r \in Reqs : ending[r].phase = "none" /\ req[r].state # "preparing"

\* A deactivation that completed: nothing is seated, and nothing will be
\* before the host hears of it.
Ends(h) == h.k = "result" /\ h.ok /\ req[h.id].kind = "deactivate"

EndingsFit ==
    \A h \in InHost : Ends(h) =>
       /\ ~Seated
       /\ active # 0 /\ exec.phase = "asked" =>
             h \notin Behind(toHost, AskKind) /\ \A c \in InChild : c.k \notin AnswerKind

\* What is seated, or will be, is of the newest window, which is there.
SeatFits ==
    /\ Seated => seat.cap[2] >= win /\ (quit = "no" => target \in {"live", "destroyed"})
    /\ \A c \in InChild : c.k \in AnswerKind /\ c.doc # 0 /\ exec.gen = active =>
          c.doc >= win /\ (quit = "no" => target \in {"live", "destroyed"})
    /\ target = "none" => caps = None

\* The child knows the document shown, or its navigation is on the way.
Tracked == latest = doc \/ \E c \in InChild : c.k = "navigated" /\ c.doc = doc

TrackedFits ==
    open => /\ \A c \in grants : c[2] >= win => Tracked
            /\ \A c \in InChild : c.k \in AnswerKind /\ c.doc # 0
                  => c.doc = doc \/ c.doc < win \/ Tracked

\* The last report on its way carries what the child says by now.
Now == SeatCap(active, seat)
Changing == exec.phase \in {"replacing", "stranded"}

ToldFits ==
    open => \A h \in Last(toHost, ReportKinds) :
        h.cap \in {None, Now} /\ (~Changing => h.cap = Now)

\* With no report on its way, the host injects what the child says, or a late
\* clear took it.
LossPending == \E c \in InChild : \/ c.k \in {"rendererLost", "targetDestroyed"}
                                  \/ c.k = "revoked" /\ c.cap = Now

CapsFit ==
    open /\ (\A h \in InHost : h.k \notin ReportKinds) =>
        /\ caps \in {None, Now}
        /\ ~Changing /\ quit = "no" /\ ~wiped /\ Now # None /\ Now \in grants =>
              caps = Now \/ LossPending

\* The last session report on its way names the active session, and with
\* none the host shows it; it shows the session that is seated.
ShownFits ==
    /\ open => \A h \in Last(toHost, StateKind) : h.gen = active
    /\ open /\ (\A h \in InHost : h.k \notin StateKind) => shown = active
    /\ open /\ Seated => shown = active /\ \A h \in InHost : h.k \in StateKind => h.gen = active
    /\ exec.phase = "asked" /\ active # 0 =>
          \A h \in Behind(toHost, AskKind) : h.k \notin StateKind
    /\ exec.phase = "asked" /\ active # 0 /\ (\E c \in InChild : c.k \in AnswerKind) =>
          \A h \in InHost : h.k \notin StateKind

\* A click on its way names the seated session, or will not find one.
ClicksFit ==
    /\ \A c \in InChild : c.k = "deactivate" => active \in {0, c.sess} \/ seat.gen # active
    /\ exec.phase = "asked" /\ active # 0 =>
          \A c \in Behind(toChild, AnswerKind) : c.k = "deactivate" => active = c.sess

DesktopTyped == DesktopTypeOK /\ QueuesTyped

DesktopInv ==
    /\ DesktopTyped /\ ReqsUsed /\ RequestsFit /\ OneQuestion /\ ExecFits /\ HoldsFit
    /\ GrantsFit /\ DocumentsFit /\ NotBooted /\ EndingsFit /\ SeatFits /\ TrackedFits
    /\ ToldFits /\ CapsFit /\ ShownFits /\ ClicksFit

----------------------------------------------------------------------------
(* The queues and their messages.                                          *)

USE DEF AskKind, QuestionKinds, AnswerKind, StateKind, ReportKinds, InChild, InHost

Grew(p, q, m) ==
    /\ Len(p) = Len(q) + 1 /\ p[Len(p)] = m
    /\ \A i \in Pos(q) : p[i] = q[i]

Shrank(p, q) == Len(q) = Len(p) + 1 /\ \A i \in Pos(p) : p[i] = q[i + 1]

\* What a send over the channel does to the host's queue, or to the child's.
ToldTo(p, q, m) ==
    IF open
    THEN /\ Msgs(p) = Msgs(q) \cup {m} /\ Len(p) = Len(q) + 1
         /\ Last(p, ReportKinds) = IF m.k \in ReportKinds THEN {m} ELSE Last(q, ReportKinds)
         /\ Last(p, StateKind) = IF m.k \in StateKind THEN {m} ELSE Last(q, StateKind)
         /\ Behind(p, AskKind) \subseteq Behind(q, AskKind) \cup {m}
         /\ m \in Behind(p, AskKind) =>
               m \in Behind(q, AskKind) \/ \E h \in Msgs(q) : h.k \in AskKind
         /\ Behind(p, QuestionKinds) \subseteq Behind(q, QuestionKinds) \cup {m}
         /\ m \in Behind(p, QuestionKinds) =>
               m \in Behind(q, QuestionKinds) \/ \E h \in Msgs(q) : h.k \in QuestionKinds
    ELSE p = q

PostedTo(p, q, m) ==
    IF open
    THEN /\ Msgs(p) = Msgs(q) \cup {m}
         /\ Behind(p, AnswerKind) \subseteq Behind(q, AnswerKind) \cup {m}
         /\ m \in Behind(p, AnswerKind) =>
               m \in Behind(q, AnswerKind) \/ \E c \in Msgs(q) : c.k \in AnswerKind
    ELSE p = q

\* What the receipt of the first message does.
HeardFrom(p, q, h) ==
    /\ Msgs(q) = Msgs(p) \cup {h} /\ Len(q) = Len(p) + 1
    /\ Last(p, ReportKinds) \subseteq Last(q, ReportKinds)
    /\ h.k \in ReportKinds /\ (\A m \in Msgs(p) : m.k \notin ReportKinds) => h \in Last(q, ReportKinds)
    /\ Last(p, StateKind) \subseteq Last(q, StateKind)
    /\ h.k \in StateKind /\ (\A m \in Msgs(p) : m.k \notin StateKind) => h \in Last(q, StateKind)
    /\ Behind(p, AskKind) \subseteq Behind(q, AskKind)
    /\ h.k \in AskKind => Msgs(p) \subseteq Behind(q, AskKind)
    /\ Behind(p, QuestionKinds) \subseteq Behind(q, QuestionKinds)
    /\ h.k \in QuestionKinds => Msgs(p) \subseteq Behind(q, QuestionKinds)

TakenFrom(p, q, c) ==
    /\ Msgs(q) = Msgs(p) \cup {c}
    /\ Behind(p, AnswerKind) \subseteq Behind(q, AnswerKind)
    /\ c.k \in AnswerKind => Msgs(p) \subseteq Behind(q, AnswerKind)

\* A send appends its message.
LEMMA AppendGrows ==
    ASSUME NEW S, NEW q \in Seq(S), NEW m \in S
    PROVE  Append(q, m) \in Seq(S) /\ Grew(Append(q, m), q, m)
BY AppendProperties, LenProperties DEF Grew, Pos

\* A receipt takes the first message.
LEMMA TailShrinks ==
    ASSUME NEW S, NEW q \in Seq(S), q # <<>>
    PROVE  /\ Tail(q) \in Seq(S) /\ Head(q) \in S
           /\ Shrank(Tail(q), q) /\ Head(q) = q[1] /\ 1 \in Pos(q)
<1>1. Len(q) \in Nat /\ Len(q) >= 1
    BY LenProperties, EmptySeq
<1> QED
    BY <1>1, HeadTailProperties, LenProperties DEF Shrank, Pos

\* What an appended message adds to, and replaces among, the sets of messages.
LEMMA GrewFacts ==
    ASSUME NEW S, NEW q \in Seq(S), NEW p \in Seq(S), NEW m, Grew(p, q, m), NEW K
    PROVE  /\ Msgs(p) = Msgs(q) \cup {m}
           /\ Last(p, K) = IF m.k \in K THEN {m} ELSE Last(q, K)
           /\ Behind(p, K) \subseteq Behind(q, K) \cup {m}
           /\ m \in Behind(p, K) => m \in Behind(q, K) \/ \E h \in Msgs(q) : h.k \in K
<1>1. Len(q) \in Nat
    BY LenProperties
<1>2. /\ \A i \in Pos(q) : i \in Pos(p) /\ p[i] = q[i] /\ i < Len(p) /\ i \in Nat
      /\ \A i \in Pos(p) : i \in Pos(q) \/ i = Len(p)
      /\ Len(p) \in Pos(p) /\ p[Len(p)] = m /\ Len(p) \notin Pos(q)
    BY <1>1 DEF Grew, Pos
<1> DEFINE n == Len(p)
<1>3. n \in Nat /\ n \in Pos(p) /\ p[n] = m /\ n \notin Pos(q)
    BY <1>1, <1>2 DEF Grew
<1>4. \A i \in Pos(q) : i \in Pos(p) /\ p[i] = q[i] /\ i < n /\ i \in Nat
    BY <1>2
<1>5. \A i \in Pos(p) : i \in Pos(q) \/ i = n
    BY <1>2
<1> HIDE DEF n
<1>6. Msgs(p) = Msgs(q) \cup {m}
    BY <1>3, <1>4, <1>5 DEF Msgs
<1>7. ASSUME m.k \in K PROVE Last(p, K) = {m}
    <2>1. n \in LastPos(p, K)
        <3>1. \A j \in Pos(p) : ~(j > n)
            BY <1>3, <1>4, <1>5
        <3> QED
            BY <1>3, <1>7, <3>1 DEF LastPos
    <2>2. ASSUME NEW i \in LastPos(p, K)
          PROVE  i = n
        <3>1. i \in Pos(p) /\ ~(n > i)
            BY <1>3, <1>7 DEF LastPos
        <3> QED
            BY <1>4, <1>5, <3>1
    <2>3. LastPos(p, K) = {n}
        BY <2>1, <2>2
    <2> QED
        BY <1>3, <1>7, <2>3 DEF Last
<1>8. ASSUME m.k \notin K PROVE Last(p, K) = Last(q, K)
    <2>1. LastPos(p, K) = LastPos(q, K)
        <3>1. ASSUME NEW i \in LastPos(p, K)
              PROVE  i \in LastPos(q, K)
            <4>1. i \in Pos(p) /\ p[i].k \in K /\ \A j \in Pos(p) : j > i => p[j].k \notin K
                BY DEF LastPos
            <4>2. i \in Pos(q)
                BY <1>3, <1>5, <1>8, <4>1
            <4> QED
                BY <1>4, <4>1, <4>2 DEF LastPos
        <3>2. ASSUME NEW i \in LastPos(q, K)
              PROVE  i \in LastPos(p, K)
            <4>1. i \in Pos(q) /\ q[i].k \in K /\ \A j \in Pos(q) : j > i => q[j].k \notin K
                BY DEF LastPos
            <4>2. \A j \in Pos(p) : j > i => p[j].k \notin K
                BY <1>3, <1>4, <1>5, <1>8, <4>1
            <4> QED
                BY <1>4, <4>1, <4>2 DEF LastPos
        <3> QED
            BY <3>1, <3>2
    <2>2. \A i \in LastPos(q, K) : p[i] = q[i]
        BY <1>4 DEF LastPos
    <2> QED
        BY <1>8, <2>1, <2>2 DEF Last
<1>9. \A i \in BehindPos(p, K) : i \in BehindPos(q, K) \/ i = n
    BY <1>3, <1>4, <1>5 DEF BehindPos
<1>10. \A i \in BehindPos(q, K) : p[i] = q[i]
    BY <1>4 DEF BehindPos
<1>11. Behind(p, K) \subseteq Behind(q, K) \cup {m}
    BY <1>3, <1>9, <1>10 DEF Behind
<1>12. ASSUME m \in Behind(p, K), m \notin Behind(q, K)
       PROVE  \E h \in Msgs(q) : h.k \in K
    <2>1. PICK i \in BehindPos(p, K) : p[i] = m
        BY <1>12 DEF Behind
    <2>2. i = n
        BY <1>9, <1>10, <1>12, <2>1 DEF Behind
    <2>3. PICK j \in Pos(p) : j < n /\ p[j].k \in K
        BY <2>2, <2>1 DEF BehindPos
    <2>4. j \in Pos(q) /\ p[j] = q[j]
        BY <1>3, <1>4, <1>5, <2>3
    <2> QED
        BY <2>3, <2>4 DEF Msgs
<1> QED
    BY <1>6, <1>7, <1>8, <1>11, <1>12

\* What the removal of the first message leaves of those sets.
LEMMA ShrankFacts ==
    ASSUME NEW S, NEW q \in Seq(S), NEW p \in Seq(S), Shrank(p, q), 1 \in Pos(q), NEW K
    PROVE  /\ Msgs(q) = Msgs(p) \cup {q[1]}
           /\ Last(p, K) \subseteq Last(q, K)
           /\ q[1].k \in K /\ (\A m \in Msgs(p) : m.k \notin K) => q[1] \in Last(q, K)
           /\ Behind(p, K) \subseteq Behind(q, K)
           /\ q[1].k \in K => Msgs(p) \subseteq Behind(q, K)
<1>1. Len(p) \in Nat
    BY LenProperties
<1>2. /\ \A i \in Pos(p) : i + 1 \in Pos(q) /\ p[i] = q[i + 1] /\ i \in Nat /\ i >= 1
      /\ \A i \in Pos(q) : i = 1 \/ (i > 1 /\ i - 1 \in Pos(p) /\ p[i - 1] = q[i])
      /\ \A i \in Pos(q) : i \in Nat
    BY <1>1 DEF Shrank, Pos
<1>3. Msgs(q) = Msgs(p) \cup {q[1]}
    <2>1. \A m \in Msgs(q) : m \in Msgs(p) \/ m = q[1]
        BY <1>2 DEF Msgs
    <2>2. \A m \in Msgs(p) : m \in Msgs(q)
        BY <1>2 DEF Msgs
    <2>3. q[1] \in Msgs(q)
        BY DEF Msgs
    <2> QED
        BY <2>1, <2>2, <2>3
<1>4. \A i \in LastPos(p, K) : i + 1 \in LastPos(q, K)
    <2> SUFFICES ASSUME NEW i \in LastPos(p, K)
                 PROVE  i + 1 \in LastPos(q, K)
        OBVIOUS
    <2>1. i \in Pos(p) /\ p[i].k \in K /\ \A j \in Pos(p) : j > i => p[j].k \notin K
        BY DEF LastPos
    <2>2. i + 1 \in Pos(q) /\ q[i + 1].k \in K /\ i \in Nat
        BY <1>2, <2>1
    <2>3. ASSUME NEW j \in Pos(q), j > i + 1
          PROVE  q[j].k \notin K
        <3>1. j \in Nat /\ j # 1
            BY <1>2, <2>2, <2>3
        <3>2. j - 1 \in Pos(p) /\ p[j - 1] = q[j] /\ j - 1 > i
            BY <1>2, <2>2, <2>3, <3>1
        <3> QED
            BY <2>1, <3>2
    <2> QED
        BY <2>2, <2>3 DEF LastPos
<1>5. Last(p, K) \subseteq Last(q, K)
    <2> SUFFICES ASSUME NEW i \in LastPos(p, K)
                 PROVE  p[i] \in Last(q, K)
        BY DEF Last
    <2>1. p[i] = q[i + 1]
        BY <1>2 DEF LastPos
    <2> QED
        BY <1>4, <2>1 DEF Last
<1>6. ASSUME q[1].k \in K, \A m \in Msgs(p) : m.k \notin K
      PROVE  q[1] \in Last(q, K)
    <2>1. \A j \in Pos(q) : j > 1 => q[j].k \notin K
        BY <1>2, <1>6 DEF Msgs
    <2>2. 1 \in LastPos(q, K)
        BY <1>6, <2>1 DEF LastPos
    <2> QED
        BY <2>2 DEF Last
<1>7. \A i \in BehindPos(p, K) : i + 1 \in BehindPos(q, K)
    <2> SUFFICES ASSUME NEW i \in Pos(p), NEW j \in Pos(p), j < i, p[j].k \in K
                 PROVE  i + 1 \in BehindPos(q, K)
        BY DEF BehindPos
    <2>1. i + 1 \in Pos(q) /\ j + 1 \in Pos(q) /\ j + 1 < i + 1 /\ q[j + 1].k \in K
        BY <1>2
    <2> QED
        BY <2>1 DEF BehindPos
<1>8. Behind(p, K) \subseteq Behind(q, K)
    <2> SUFFICES ASSUME NEW i \in BehindPos(p, K)
                 PROVE  p[i] \in Behind(q, K)
        BY DEF Behind
    <2>1. p[i] = q[i + 1]
        BY <1>2 DEF BehindPos
    <2> QED
        BY <1>7, <2>1 DEF Behind
<1>9. ASSUME q[1].k \in K
      PROVE  Msgs(p) \subseteq Behind(q, K)
    <2> SUFFICES ASSUME NEW i \in Pos(p)
                 PROVE  p[i] \in Behind(q, K)
        BY DEF Msgs
    <2>1. i + 1 \in Pos(q) /\ p[i] = q[i + 1] /\ 1 < i + 1
        BY <1>2
    <2>2. i + 1 \in BehindPos(q, K)
        BY <1>9, <2>1 DEF BehindPos
    <2> QED
        BY <2>1, <2>2 DEF Behind
<1> QED
    BY <1>3, <1>5, <1>6, <1>8, <1>9

\* The receipt of the first message, by either side.
LEMMA HearFacts ==
    ASSUME DesktopTyped, toHost # <<>>, NEW h, h = Head(toHost)
    PROVE  Tail(toHost) \in Seq(ToHostMsg) /\ h \in ToHostMsg /\ HeardFrom(Tail(toHost), toHost, h)
<1>1. /\ toHost \in Seq(ToHostMsg) /\ Tail(toHost) \in Seq(ToHostMsg) /\ h \in ToHostMsg
      /\ Shrank(Tail(toHost), toHost) /\ h = toHost[1] /\ 1 \in Pos(toHost)
    BY TailShrinks DEF DesktopTyped, QueuesTyped
<1>2. ASSUME NEW K
      PROVE  /\ Last(Tail(toHost), K) \subseteq Last(toHost, K)
             /\ h.k \in K /\ (\A m \in Msgs(Tail(toHost)) : m.k \notin K) => h \in Last(toHost, K)
             /\ Behind(Tail(toHost), K) \subseteq Behind(toHost, K)
             /\ h.k \in K => Msgs(Tail(toHost)) \subseteq Behind(toHost, K)
             /\ Msgs(toHost) = Msgs(Tail(toHost)) \cup {h}
    BY <1>1, ShrankFacts
<1> QED
    BY <1>1, <1>2 DEF HeardFrom, Shrank

\* The child's receipt.
LEMMA TakeFacts ==
    ASSUME DesktopTyped, toChild # <<>>, NEW c, c = Head(toChild)
    PROVE  Tail(toChild) \in Seq(ToChildMsg) /\ c \in ToChildMsg /\ TakenFrom(Tail(toChild), toChild, c)
<1>1. /\ toChild \in Seq(ToChildMsg) /\ Tail(toChild) \in Seq(ToChildMsg) /\ c \in ToChildMsg
      /\ Shrank(Tail(toChild), toChild) /\ c = toChild[1] /\ 1 \in Pos(toChild)
    BY TailShrinks DEF DesktopTyped, QueuesTyped
<1> QED
    BY <1>1, ShrankFacts DEF TakenFrom

\* The fields of the child's messages.
LEMMA ChildMsgFacts ==
    ASSUME NEW m \in ToChildMsg
    PROVE  /\ m.k \in {"activate", "deactivate", "observed", "navigated", "rendererLost",
                       "targetDestroyed", "revoked"}
           /\ m.k \in {"activate", "deactivate"} => m.id \in Reqs /\ m.sess \in Gens0
           /\ m.k \in {"observed", "navigated"} => m.doc \in Docs0 /\ m.win \in Nat
           /\ m.k \in {"rendererLost", "targetDestroyed"} => m.win \in Nat
           /\ m.k = "revoked" => m.cap \in Caps
BY DEF ToChildMsg

\* The fields of the host's messages.
LEMMA HostMsgFacts ==
    ASSUME NEW m \in ToHostMsg
    PROVE  /\ m.k \in {"booted", "ask", "replace", "state", "result"}
           /\ m.k = "state" => m.gen \in Gens0 /\ m.cap \in Caps \cup {None}
           /\ m.k = "result" => m.id \in Reqs /\ m.ok \in BOOLEAN /\ m.cap \in Caps \cup {None}
BY DEF ToHostMsg

\* The records the host sends are messages.
LEMMA ChildMsgTyped ==
    /\ \A kind \in {"activate", "deactivate"}, r \in Reqs, s \in Gens0 :
          [k |-> kind, id |-> r, sess |-> s] \in ToChildMsg
    /\ \A d \in Docs0, w \in Nat : [k |-> "observed", doc |-> d, win |-> w] \in ToChildMsg
    /\ \A d \in Docs0, w \in Nat : [k |-> "navigated", doc |-> d, win |-> w] \in ToChildMsg
    /\ \A w \in Nat : [k |-> "rendererLost", win |-> w] \in ToChildMsg
    /\ \A w \in Nat : [k |-> "targetDestroyed", win |-> w] \in ToChildMsg
    /\ \A c \in Caps : [k |-> "revoked", cap |-> c] \in ToChildMsg
BY DEF ToChildMsg

\* The records the child sends are messages.
LEMMA HostMsgTyped ==
    /\ [k |-> "booted"] \in ToHostMsg /\ [k |-> "ask"] \in ToHostMsg
    /\ [k |-> "replace"] \in ToHostMsg
    /\ \A g \in Gens0, c \in Caps \cup {None} : [k |-> "state", gen |-> g, cap |-> c] \in ToHostMsg
    /\ \A r \in Reqs, b \in BOOLEAN, c \in Caps \cup {None} :
          [k |-> "result", id |-> r, ok |-> b, cap |-> c] \in ToHostMsg
BY DEF ToHostMsg

\* A message appended to the child's queue.
LEMMA AppendPosted ==
    ASSUME open, NEW q \in Seq(ToChildMsg), NEW m \in ToChildMsg
    PROVE  Append(q, m) \in Seq(ToChildMsg) /\ PostedTo(Append(q, m), q, m)
<1> DEFINE p == Append(q, m)
<1>1. p \in Seq(ToChildMsg) /\ Grew(p, q, m)
    BY AppendGrows
<1> HIDE DEF p
<1>2. ASSUME NEW K
      PROVE  /\ Msgs(p) = Msgs(q) \cup {m}
             /\ Behind(p, K) \subseteq Behind(q, K) \cup {m}
             /\ m \in Behind(p, K) => m \in Behind(q, K) \/ \E c \in Msgs(q) : c.k \in K
    BY <1>1, GrewFacts
<1>3. PostedTo(p, q, m)
    BY <1>2 DEF PostedTo
<1> QED
    BY <1>1, <1>3 DEF p

\* A send of the host, lost when the channel is dead.
LEMMA PostFacts ==
    ASSUME DesktopTyped, NEW m \in ToChildMsg
    PROVE  Post(m) \in Seq(ToChildMsg) /\ PostedTo(Post(m), toChild, m)
BY AppendPosted DEF Post, PostedTo, DesktopTyped, QueuesTyped

\* A send of the child, lost when the channel is dead.
LEMMA TellFacts ==
    ASSUME DesktopTyped, NEW q \in Seq(ToHostMsg), NEW m \in ToHostMsg
    PROVE  Tell(q, m) \in Seq(ToHostMsg) /\ ToldTo(Tell(q, m), q, m)
<1>1. CASE open
    <2>1. Tell(q, m) \in Seq(ToHostMsg) /\ Grew(Tell(q, m), q, m)
        BY <1>1, AppendGrows DEF Tell
    <2> DEFINE p == Tell(q, m)
    <2>2. p \in Seq(ToHostMsg) /\ Grew(p, q, m)
        BY <2>1
    <2> HIDE DEF p
    <2>3. ASSUME NEW K
          PROVE  /\ Msgs(p) = Msgs(q) \cup {m}
                 /\ Last(p, K) = IF m.k \in K THEN {m} ELSE Last(q, K)
                 /\ Behind(p, K) \subseteq Behind(q, K) \cup {m}
                 /\ m \in Behind(p, K) => m \in Behind(q, K) \/ \E h \in Msgs(q) : h.k \in K
        BY <2>2, GrewFacts
    <2>4. ToldTo(p, q, m)
        BY <1>1, <2>2, <2>3 DEF ToldTo, Grew
    <2> QED
        BY <2>1, <2>4 DEF p
<1>2. CASE ~open
    BY <1>2 DEF Tell, ToldTo
<1> QED
    BY <1>1, <1>2

\* A session report is typed and told as any send.
LEMMA NotifyFacts ==
    ASSUME DesktopTyped, NEW q \in Seq(ToHostMsg), NEW act \in Gens0,
           NEW st \in [gen : Gens0, cap : Caps \cup {None}]
    PROVE  /\ SeatCap(act, st) \in Caps \cup {None}
           /\ Notify(q, act, st) \in Seq(ToHostMsg)
           /\ ToldTo(Notify(q, act, st), q,
                     [k |-> "state", gen |-> act, cap |-> SeatCap(act, st)])
<1>1. SeatCap(act, st) \in Caps \cup {None}
    BY DEF SeatCap
<1>2. [k |-> "state", gen |-> act, cap |-> SeatCap(act, st)] \in ToHostMsg
    BY <1>1, HostMsgTyped
<1> QED
    BY <1>1, <1>2, TellFacts DEF Notify

\* A result is typed and told as any send.
LEMMA ResultFacts ==
    ASSUME DesktopTyped, NEW q \in Seq(ToHostMsg), NEW r \in Reqs, NEW ok \in BOOLEAN,
           NEW act \in Gens0, NEW st \in [gen : Gens0, cap : Caps \cup {None}]
    PROVE  /\ Result(q, r, ok, act, st) \in Seq(ToHostMsg)
           /\ ToldTo(Result(q, r, ok, act, st), q,
                     [k |-> "result", id |-> r, ok |-> ok, cap |-> SeatCap(act, st)])
<1>1. SeatCap(act, st) \in Caps \cup {None}
    BY DEF SeatCap
<1>2. [k |-> "result", id |-> r, ok |-> ok, cap |-> SeatCap(act, st)] \in ToHostMsg
    BY <1>1, HostMsgTyped
<1> QED
    BY <1>1, <1>2, TellFacts DEF Result

\* A session report and the answer to a request after it.
ReportedTo(p, q, s, m) ==
    IF open
    THEN /\ Msgs(p) = Msgs(q) \cup {s, m}
         /\ Last(p, ReportKinds) = {m} /\ Last(p, StateKind) = {s}
         /\ Behind(p, AskKind) \subseteq Behind(q, AskKind) \cup {s, m}
         /\ Behind(p, AskKind) # {} => \E h \in Msgs(q) : h.k \in AskKind
         /\ Behind(p, QuestionKinds) \subseteq Behind(q, QuestionKinds) \cup {s, m}
    ELSE p = q

LEMMA ReportFacts ==
    ASSUME DesktopTyped, NEW r \in Reqs, NEW ok \in BOOLEAN, NEW act \in Gens0,
           NEW st \in [gen : Gens0, cap : Caps \cup {None}], NEW a2 \in Gens0,
           NEW st2 \in [gen : Gens0, cap : Caps \cup {None}]
    PROVE  /\ Result(Notify(toHost, act, st), r, ok, a2, st2) \in Seq(ToHostMsg)
           /\ ReportedTo(Result(Notify(toHost, act, st), r, ok, a2, st2), toHost,
                         [k |-> "state", gen |-> act, cap |-> SeatCap(act, st)],
                         [k |-> "result", id |-> r, ok |-> ok, cap |-> SeatCap(a2, st2)])
<1> DEFINE s == [k |-> "state", gen |-> act, cap |-> SeatCap(act, st)]
           m == [k |-> "result", id |-> r, ok |-> ok, cap |-> SeatCap(a2, st2)]
           q == toHost
           n == Notify(q, act, st)
           p == Result(n, r, ok, a2, st2)
<1>1. n \in Seq(ToHostMsg) /\ ToldTo(n, q, s)
    BY NotifyFacts DEF DesktopTyped, QueuesTyped
<1>2. p \in Seq(ToHostMsg) /\ ToldTo(p, n, m)
    BY <1>1, ResultFacts
<1>3. s.k = "state" /\ m.k = "result"
    OBVIOUS
<1> HIDE DEF s, m, n, p, q
<1>4. \A K : Behind(p, K) # {} => \E h \in Msgs(p) : h.k \in K
    BY DEF Behind, BehindPos, Msgs
<1>5. ReportedTo(p, q, s, m)
    BY <1>1, <1>2, <1>3, <1>4 DEF ReportedTo, ToldTo
<1> QED
    BY <1>2, <1>5 DEF p, n, q, s, m

\* What is typed in the queues, message by message, and what else the steps
\* below keep needing.
MessagesFit ==
    /\ Len(toHost) \in Nat
    /\ \A c \in InChild :
          /\ c \in ToChildMsg
          /\ c.k \in {"activate", "deactivate"} => c.id \in Reqs /\ c.sess \in Gens0
          /\ c.k \in {"observed", "navigated"} => c.doc \in Docs0 /\ c.doc \in Nat /\ c.win \in Nat
          /\ c.k \in {"rendererLost", "targetDestroyed"} => c.win \in Nat
          /\ c.k = "revoked" => c.cap \in Caps
    /\ \A h \in InHost :
          /\ h \in ToHostMsg
          /\ h.k = "state" => h.gen \in Gens0 /\ h.cap \in Caps \cup {None}
          /\ h.k = "result" => h.id \in Reqs /\ h.ok \in BOOLEAN /\ h.cap \in Caps \cup {None}
    /\ Behind(toHost, AskKind) \subseteq InHost
    /\ Behind(toHost, QuestionKinds) \subseteq InHost
    /\ Behind(toChild, AnswerKind) \subseteq InChild
    /\ \A h \in Last(toHost, ReportKinds) : h \in InHost /\ h.k \in ReportKinds
    /\ \A h \in Last(toHost, StateKind) : h \in InHost /\ h.k \in StateKind
    /\ (\A h \in InHost : h.k \notin AskKind) => Behind(toHost, AskKind) = {}
    /\ (\A c \in InChild : c.k \notin AnswerKind) => Behind(toChild, AnswerKind) = {}
    /\ exec # NoExec => exec.req \in Reqs
    /\ latest \in Nat /\ doc \in Nat /\ win \in Nat /\ active \in Nat /\ nextGen \in Nat
    /\ seat.gen \in Nat /\ exec.gen \in Nat
    /\ seat.cap \in Caps => seat.cap[1] \in Nat /\ seat.cap[2] \in Nat
    /\ \A c \in grants : c[1] \in Nat \ {0} /\ c[2] \in Nat

\* In a state of the invariant both queues are typed.
LEMMA MessagesTyped ==
    ASSUME DesktopInv
    PROVE  MessagesFit
<1>i. DesktopTyped /\ ExecFits
    BY DEF DesktopInv
<1>1. \A c \in InChild : c \in ToChildMsg
    BY <1>i, ElementOfSeq DEF DesktopTyped, QueuesTyped, Msgs, Pos
<1>2. Len(toHost) \in Nat /\ \A h \in InHost : h \in ToHostMsg
    BY <1>i, ElementOfSeq, LenProperties DEF DesktopTyped, QueuesTyped, Msgs, Pos
<1>3. \A m \in ToChildMsg :
         /\ m.k \in {"activate", "deactivate"} => m.id \in Reqs /\ m.sess \in Gens0
         /\ m.k \in {"observed", "navigated"} => m.doc \in Docs0 /\ m.doc \in Nat /\ m.win \in Nat
         /\ m.k \in {"rendererLost", "targetDestroyed"} => m.win \in Nat
         /\ m.k = "revoked" => m.cap \in Caps
    BY ChildMsgFacts DEF Docs0
<1>4. \A m \in ToHostMsg :
         /\ m.k = "state" => m.gen \in Gens0 /\ m.cap \in Caps \cup {None}
         /\ m.k = "result" => m.id \in Reqs /\ m.ok \in BOOLEAN /\ m.cap \in Caps \cup {None}
    BY HostMsgFacts
<1>5. ASSUME NEW q, NEW K
      PROVE  /\ Behind(q, K) \subseteq Msgs(q)
             /\ (\A m \in Msgs(q) : m.k \notin K) => Behind(q, K) = {}
    BY DEF Behind, BehindPos, Msgs
<1>6. ASSUME NEW K, NEW h \in Last(toHost, K)
      PROVE  h \in InHost /\ h.k \in K
    BY DEF Last, LastPos, Msgs
<1>7. /\ exec # NoExec => exec.req \in Reqs
      /\ latest \in Nat /\ doc \in Nat /\ active \in Nat /\ nextGen \in Nat
      /\ win \in Nat /\ seat.gen \in Nat /\ exec.gen \in Nat
    BY <1>i DEF ExecFits, DesktopTyped, DesktopTypeOK, Docs0, Gens0
<1>8. \A c \in Caps : c[1] \in Nat \ {0} /\ c[2] \in Nat
    BY DesktopAssumption DEF Caps
<1>9. grants \subseteq Caps
    BY <1>i DEF DesktopTyped, DesktopTypeOK
<1> QED
    BY <1>1, <1>2, <1>3, <1>4, <1>5, <1>6, <1>7, <1>8, <1>9 DEF MessagesFit

ReqType == [kind : {"none", "activate", "deactivate"}, sess : Gens0,
            state : {"unused", "preparing", "pending", "done", "unavailable"}]
ExecType == [req : 0..MaxReq, gen : Gens0,
             phase : {"none", "staging", "switching", "asked", "replacing", "stranded"}]
HoldType == [gen : Gens0, cap : Caps \cup {None}, phase : {"none", "draining", "revoking"}]
SeatType == [gen : Gens0, cap : Caps \cup {None}]

\* The child's variables but for the process itself.
Working == <<active, nextGen, exec, ending, ousted, seat, grants, latest, lease>>

\* The requests change at most in what became of them.
ReqsKept ==
    /\ req' \in [Reqs -> ReqType]
    /\ \A r \in Reqs :
          /\ req'[r].kind = req[r].kind /\ req'[r].sess = req[r].sess
          /\ req'[r].state = "unused" <=> req[r].state = "unused"
          /\ req'[r].state = "preparing" => req[r].state = "preparing"

----------------------------------------------------------------------------
(* Steps of one kind, together: what they cannot disturb.                  *)

\* The host sends the child something other than a request or an answer, and
\* leaves its own records of the child's reports.
LEMMA HostSends ==
    ASSUME DesktopInv, NEW m, m.k \notin {"activate", "deactivate", "observed"},
           toChild' = toChild \/ PostedTo(toChild', toChild, m),
           UNCHANGED <<req, shown, toHost>>, UNCHANGED Working, open' => open,
           load' = load \/ load # "none"
    PROVE  /\ ReqsUsed' /\ RequestsFit' /\ OneQuestion' /\ ExecFits' /\ HoldsFit'
           /\ EndingsFit' /\ ToldFits' /\ ShownFits' /\ ClicksFit'
<1>i. /\ ReqsUsed /\ RequestsFit /\ OneQuestion /\ ExecFits /\ HoldsFit
      /\ EndingsFit /\ ToldFits /\ ShownFits /\ ClicksFit
    BY DEF DesktopInv
<1>a. UNCHANGED <<active, nextGen, exec, ending, ousted, seat, grants, latest, lease>>
    BY DEF Working
<1>q. /\ \A c \in InChild' : c \in InChild \/ c = m
      /\ \A c \in Behind(toChild', AnswerKind) : c \in Behind(toChild, AnswerKind) \/ c = m
    BY DEF PostedTo
<1>1. ReqsUsed' /\ ExecFits' /\ HoldsFit'
    BY <1>i, <1>a DEF ReqsUsed, ExecFits, HoldsFit, Switching
<1>2. RequestsFit' /\ OneQuestion'
    BY <1>i, <1>a, <1>q DEF RequestsFit, OneQuestion
<1>3. EndingsFit' /\ ToldFits'
    BY <1>i, <1>a, <1>q DEF EndingsFit, Ends, Seated, ToldFits, Now, Changing
<1>4. ShownFits' /\ ClicksFit'
    BY <1>i, <1>a, <1>q DEF ShownFits, Seated, ClicksFit
<1> QED
    BY <1>1, <1>2, <1>3, <1>4

\* The child takes an observation, which may cost grants.
LEMMA ChildObserves ==
    ASSUME DesktopInv, NEW c, TakenFrom(toChild', toChild, c),
           UNCHANGED <<req, shown, load, win, quit, target, caps, closing, child, toHost, open>>,
           UNCHANGED <<active, nextGen, exec, ending, ousted, seat>>,
           grants' \subseteq grants
    PROVE  /\ ReqsUsed' /\ RequestsFit' /\ OneQuestion' /\ ExecFits' /\ HoldsFit' /\ NotBooted'
           /\ EndingsFit' /\ SeatFits' /\ ToldFits' /\ ShownFits' /\ ClicksFit'
<1>i. /\ ReqsUsed /\ RequestsFit /\ OneQuestion /\ ExecFits /\ HoldsFit /\ NotBooted
      /\ EndingsFit /\ SeatFits /\ ToldFits /\ ShownFits /\ ClicksFit
    BY DEF DesktopInv
<1>q. /\ InChild' \subseteq InChild
      /\ Behind(toChild', AnswerKind) \subseteq Behind(toChild, AnswerKind)
    BY DEF TakenFrom
<1>1. ReqsUsed' /\ ExecFits' /\ HoldsFit'
    BY <1>i DEF ReqsUsed, ExecFits, HoldsFit, Switching
<1>2. RequestsFit' /\ OneQuestion'
    BY <1>i, <1>q DEF RequestsFit, OneQuestion
<1>3. EndingsFit' /\ ToldFits'
    BY <1>i, <1>q DEF EndingsFit, Ends, Seated, ToldFits, Now, Changing
<1>4. ShownFits' /\ ClicksFit'
    BY <1>i, <1>q DEF ShownFits, Seated, ClicksFit
<1>5. NotBooted' /\ SeatFits'
    BY <1>i, <1>q DEF NotBooted, SeatFits, Seated
<1> QED
    BY <1>1, <1>2, <1>3, <1>4, <1>5

----------------------------------------------------------------------------
(* Every step of the desktop keeps the invariant: the host.                *)

\* The host gives up, quits or waits; the child stops.
LEMMA QuietSteps ==
    ASSUME DesktopInv, NoticesLoss \/ BootTimeout \/ Quit \/ QuitUnloads \/ QuitSettles
           \/ ChildFences \/ ChildGone \/ \E r \in Reqs : NotReady(r)
    PROVE  DesktopInv'
<1>i. /\ DesktopTyped /\ ReqsUsed /\ RequestsFit /\ OneQuestion /\ ExecFits /\ HoldsFit
      /\ GrantsFit /\ DocumentsFit /\ NotBooted /\ EndingsFit /\ SeatFits /\ TrackedFits
      /\ ToldFits /\ CapsFit /\ ShownFits /\ ClicksFit
    BY DEF DesktopInv
<1>n. MessagesFit
    BY MessagesTyped
<1>a. /\ UNCHANGED <<shown, wiped, closing, target, bypass, doc, win, load, toChild, toHost>>
      /\ UNCHANGED <<active, nextGen, exec, ending, ousted, seat, grants, latest, lease>>
      /\ open' => open
      /\ caps' = caps \/ (caps' = None /\ ~open')
      /\ child' = "boot" => child = "boot"
      /\ quit' = "no" => quit = "no"
    BY DEF NoticesLoss, BootTimeout, Quit, QuitUnloads, QuitSettles, QuitWaits, ChildFences,
           ChildGone, NotReady, hostVars, userVars, frameVars, chanVars, childVars
<1>b. lost' \in BOOLEAN /\ open' \in BOOLEAN
    BY <1>i
       DEF NoticesLoss, BootTimeout, Quit, QuitUnloads, QuitSettles, ChildFences, ChildGone,
           NotReady, MarkLost, hostVars, userVars, chanVars, DesktopTyped, DesktopTypeOK
<1>e. /\ quit' \in {"no", "teardown", "unloading", "stopping", "killing", "settled"}
      /\ child' \in {"boot", "serving", "closing", "exited"}
    BY <1>i
       DEF NoticesLoss, BootTimeout, Quit, QuitUnloads, QuitSettles, QuitWaits, ChildFences,
           ChildGone, NotReady, hostVars, userVars, childVars, DesktopTyped, DesktopTypeOK
<1>f. faults' \in 0..MaxFault
    BY <1>i, DesktopAssumption
       DEF NoticesLoss, BootTimeout, Quit, QuitUnloads, QuitSettles, ChildFences, ChildGone,
           NotReady, ChildExits, DesktopTyped, DesktopTypeOK
<1>c. \/ req' = req \/ req' = Settled("unavailable")
      \/ \E r \in Reqs : req[r].state = "preparing" /\ req' = [req EXCEPT ![r].state = "done"]
    BY DEF NoticesLoss, BootTimeout, MarkLost, Quit, QuitUnloads, QuitSettles, ChildFences,
           ChildGone, NotReady, hostVars, userVars
<1>d. ReqsKept
    BY <1>i, <1>c DEF ReqsKept, ReqType, Settled, DesktopTyped, DesktopTypeOK
<1>h. caps' \in Caps \cup {None}
    BY <1>i, <1>a DEF DesktopTyped, DesktopTypeOK
<1>t. DesktopTyped'
    BY <1>i, <1>a, <1>b, <1>d, <1>e, <1>f, <1>h
       DEF DesktopTyped, DesktopTypeOK, QueuesTyped, ReqsKept, ReqType
<1>1. ReqsUsed'
    BY <1>i, <1>d DEF ReqsUsed, ReqsKept
<1>2. RequestsFit'
    BY <1>i, <1>n, <1>a, <1>d DEF RequestsFit, ReqsKept, MessagesFit
<1>3. OneQuestion'
    BY <1>i, <1>a DEF OneQuestion
<1>4. ExecFits'
    BY <1>i, <1>a DEF ExecFits
<1>5. HoldsFit'
    BY <1>i, <1>a, <1>d DEF HoldsFit, Switching, ReqsKept
<1>6. GrantsFit'
    BY <1>i, <1>a DEF GrantsFit, Seated
<1>7. DocumentsFit'
    BY <1>i, <1>a DEF DocumentsFit
<1>8. NotBooted'
    BY <1>i, <1>a, <1>d DEF NotBooted, ReqsKept
<1>9. EndingsFit'
    BY <1>i, <1>n, <1>a, <1>d DEF EndingsFit, Ends, Seated, ReqsKept, MessagesFit
<1>10. SeatFits'
    BY <1>i, <1>a DEF SeatFits, Seated
<1>11. TrackedFits'
    BY <1>i, <1>a DEF TrackedFits, Tracked
<1>12. ToldFits'
    BY <1>i, <1>a DEF ToldFits, Now, Changing
<1>13. CapsFit'
    BY <1>i, <1>a DEF CapsFit, Now, Changing, LossPending
<1>14. ShownFits'
    BY <1>i, <1>a DEF ShownFits, Seated
<1>15. ClicksFit'
    BY <1>i, <1>a DEF ClicksFit
<1> QED
    BY <1>t, <1>1, <1>2, <1>3, <1>4, <1>5, <1>6, <1>7, <1>8, <1>9, <1>10, <1>11, <1>12,
       <1>13, <1>14, <1>15
       DEF DesktopInv

\* A reload commits the next document.
LEMMA ReloadKeeps ==
    ASSUME DesktopInv, Reload
    PROVE  DesktopInv'
<1>i. /\ DesktopTyped /\ ReqsUsed /\ RequestsFit /\ OneQuestion /\ ExecFits /\ HoldsFit
      /\ GrantsFit /\ DocumentsFit /\ NotBooted /\ EndingsFit /\ SeatFits /\ TrackedFits
      /\ ToldFits /\ CapsFit /\ ShownFits /\ ClicksFit
    BY DEF DesktopInv
<1>n. MessagesFit
    BY MessagesTyped
<1> DEFINE m == [k |-> "navigated", doc |-> doc + 1, win |-> win]
<1>a. /\ target = "live" /\ doc \in Docs0 /\ doc' = doc + 1 /\ doc' \in Docs0
      /\ faults' \in 0..MaxFault
      /\ UNCHANGED <<lost, shown, req, quit, caps, wiped, closing, target, bypass, win, load>>
      /\ UNCHANGED <<toHost, open, child>>
      /\ UNCHANGED <<active, nextGen, exec, ending, ousted, seat, grants, latest, lease>>
    BY <1>i, DesktopAssumption
       DEF Reload, Fault, userVars, childVars, DesktopTyped, DesktopTypeOK, Docs0
<1>m. m \in ToChildMsg /\ m.k = "navigated" /\ m.doc = doc + 1 /\ m.win = win
    BY <1>i, <1>a, ChildMsgTyped DEF DesktopTyped, DesktopTypeOK
<1>q. toChild' \in Seq(ToChildMsg) /\ PostedTo(toChild', toChild, m)
    BY <1>i, <1>m, PostFacts DEF Reload, Navigated, DesktopTyped, DesktopTypeOK, QueuesTyped
<1> HIDE DEF m
<1>g. /\ ReqsUsed' /\ RequestsFit' /\ OneQuestion' /\ ExecFits' /\ HoldsFit'
      /\ EndingsFit' /\ ToldFits' /\ ShownFits' /\ ClicksFit'
    BY <1>a, <1>m, <1>q, HostSends DEF Working
<1>t. DesktopTyped'
    BY <1>i, <1>a, <1>q DEF DesktopTyped, DesktopTypeOK, QueuesTyped, Fault
<1>1. GrantsFit'
    BY <1>i, <1>a DEF GrantsFit, Seated
<1>2. DocumentsFit'
    BY <1>i, <1>n, <1>a, <1>m, <1>q DEF DocumentsFit, MessagesFit, PostedTo
<1>3. NotBooted'
    BY <1>i, <1>a DEF NotBooted
<1>4. SeatFits'
    BY <1>i, <1>a, <1>m, <1>q DEF SeatFits, Seated, PostedTo
<1>5. TrackedFits'
    BY <1>a, <1>m, <1>q DEF TrackedFits, Tracked, PostedTo
<1>6. CapsFit'
    BY <1>i, <1>a, <1>q DEF CapsFit, Now, Changing, LossPending, PostedTo
<1> QED
    BY <1>t, <1>g, <1>1, <1>2, <1>3, <1>4, <1>5, <1>6 DEF DesktopInv

\* A load commits its document.
LEMMA LoadCommitsKeeps ==
    ASSUME DesktopInv, LoadCommits
    PROVE  DesktopInv'
<1>i. /\ DesktopTyped /\ ReqsUsed /\ RequestsFit /\ OneQuestion /\ ExecFits /\ HoldsFit
      /\ GrantsFit /\ DocumentsFit /\ NotBooted /\ EndingsFit /\ SeatFits /\ TrackedFits
      /\ ToldFits /\ CapsFit /\ ShownFits /\ ClicksFit
    BY DEF DesktopInv
<1>n. MessagesFit
    BY MessagesTyped
<1> DEFINE m == [k |-> "navigated", doc |-> doc + 1, win |-> win]
<1>a. /\ target = "live" /\ doc \in Docs0 /\ doc' = doc + 1 /\ doc' \in Docs0
      /\ load = "loading" /\ load' = "navigated"
      /\ UNCHANGED <<lost, shown, req, quit, caps, wiped, closing, target, bypass, win>>
      /\ UNCHANGED <<toHost, open, child, faults>>
      /\ UNCHANGED <<active, nextGen, exec, ending, ousted, seat, grants, latest, lease>>
    BY <1>i, DesktopAssumption
       DEF LoadCommits, userVars, childVars, DesktopTyped, DesktopTypeOK, Docs0
<1>m. m \in ToChildMsg /\ m.k = "navigated" /\ m.doc = doc + 1 /\ m.win = win
    BY <1>i, <1>a, ChildMsgTyped DEF DesktopTyped, DesktopTypeOK
<1>q. toChild' \in Seq(ToChildMsg) /\ PostedTo(toChild', toChild, m)
    BY <1>i, <1>m, PostFacts
       DEF LoadCommits, Navigated, DesktopTyped, DesktopTypeOK, QueuesTyped
<1> HIDE DEF m
<1>g. /\ ReqsUsed' /\ RequestsFit' /\ OneQuestion' /\ ExecFits' /\ HoldsFit'
      /\ EndingsFit' /\ ToldFits' /\ ShownFits' /\ ClicksFit'
    BY <1>a, <1>m, <1>q, HostSends DEF Working
<1>t. DesktopTyped'
    BY <1>i, <1>a, <1>q DEF DesktopTyped, DesktopTypeOK, QueuesTyped, Fault
<1>1. GrantsFit'
    BY <1>i, <1>a DEF GrantsFit, Seated
<1>2. DocumentsFit'
    BY <1>i, <1>n, <1>a, <1>m, <1>q DEF DocumentsFit, MessagesFit, PostedTo
<1>3. NotBooted'
    BY <1>i, <1>a DEF NotBooted
<1>4. SeatFits'
    BY <1>i, <1>a, <1>m, <1>q DEF SeatFits, Seated, PostedTo
<1>5. TrackedFits'
    BY <1>a, <1>m, <1>q DEF TrackedFits, Tracked, PostedTo
<1>6. CapsFit'
    BY <1>i, <1>a, <1>q DEF CapsFit, Now, Changing, LossPending, PostedTo
<1> QED
    BY <1>t, <1>g, <1>1, <1>2, <1>3, <1>4, <1>5, <1>6 DEF DesktopInv

\* The renderer dies: the host drops the capability and says so.
LEMMA RendererLostKeeps ==
    ASSUME DesktopInv, RendererLost
    PROVE  DesktopInv'
<1>i. /\ DesktopTyped /\ ReqsUsed /\ RequestsFit /\ OneQuestion /\ ExecFits /\ HoldsFit
      /\ GrantsFit /\ DocumentsFit /\ NotBooted /\ EndingsFit /\ SeatFits /\ TrackedFits
      /\ ToldFits /\ CapsFit /\ ShownFits /\ ClicksFit
    BY DEF DesktopInv
<1>n. MessagesFit
    BY MessagesTyped
<1> DEFINE m == [k |-> "rendererLost", win |-> win]
<1>a. /\ target = "live" /\ target' = target /\ bypass' = bypass /\ caps' = None
      /\ faults' \in 0..MaxFault
      /\ UNCHANGED <<lost, shown, req, quit, wiped, closing, doc, win, load, toHost, open, child>>
      /\ UNCHANGED <<active, nextGen, exec, ending, ousted, seat, grants, latest, lease>>
    BY <1>i, DesktopAssumption
       DEF RendererLost, Fault, userVars, childVars, DesktopTyped, DesktopTypeOK
<1>m. m \in ToChildMsg /\ m.k = "rendererLost" /\ m.win = win
    BY <1>i, ChildMsgTyped DEF DesktopTyped, DesktopTypeOK
<1>q. toChild' \in Seq(ToChildMsg) /\ PostedTo(toChild', toChild, m)
    BY <1>i, <1>m, PostFacts DEF RendererLost, DesktopTyped, DesktopTypeOK, QueuesTyped
<1>z. bypass' \in BOOLEAN
    BY <1>a, <1>i DEF DesktopTyped, DesktopTypeOK
<1> HIDE DEF m
<1>g. /\ ReqsUsed' /\ RequestsFit' /\ OneQuestion' /\ ExecFits' /\ HoldsFit'
      /\ EndingsFit' /\ ToldFits' /\ ShownFits' /\ ClicksFit'
    BY <1>a, <1>m, <1>q, HostSends DEF Working
<1>t. DesktopTyped'
    BY <1>i, <1>a, <1>q, <1>z DEF DesktopTyped, DesktopTypeOK, QueuesTyped
<1>1. GrantsFit'
    BY <1>i, <1>a DEF GrantsFit, Seated
<1>2. DocumentsFit'
    BY <1>i, <1>n, <1>a, <1>m, <1>q DEF DocumentsFit, MessagesFit, PostedTo
<1>3. NotBooted'
    BY <1>i, <1>a DEF NotBooted
<1>4. SeatFits'
    BY <1>i, <1>a, <1>m, <1>q DEF SeatFits, Seated, PostedTo
<1>5. TrackedFits'
    BY <1>i, <1>a, <1>m, <1>q DEF TrackedFits, Tracked, PostedTo
<1>6. CapsFit'
    BY <1>a, <1>m, <1>q DEF CapsFit, Now, Changing, LossPending, PostedTo
<1> QED
    BY <1>t, <1>g, <1>1, <1>2, <1>3, <1>4, <1>5, <1>6 DEF DesktopInv

\* The window is destroyed.
LEMMA TargetDestroyedKeeps ==
    ASSUME DesktopInv, TargetDestroyed
    PROVE  DesktopInv'
<1>i. /\ DesktopTyped /\ ReqsUsed /\ RequestsFit /\ OneQuestion /\ ExecFits /\ HoldsFit
      /\ GrantsFit /\ DocumentsFit /\ NotBooted /\ EndingsFit /\ SeatFits /\ TrackedFits
      /\ ToldFits /\ CapsFit /\ ShownFits /\ ClicksFit
    BY DEF DesktopInv
<1>n. MessagesFit
    BY MessagesTyped
<1> DEFINE m == [k |-> "targetDestroyed", win |-> win]
<1>a. /\ target = "live" /\ target' = "destroyed" /\ bypass' = FALSE /\ caps' = None
      /\ faults' \in 0..MaxFault
      /\ UNCHANGED <<lost, shown, req, quit, wiped, closing, doc, win, load, toHost, open, child>>
      /\ UNCHANGED <<active, nextGen, exec, ending, ousted, seat, grants, latest, lease>>
    BY <1>i, DesktopAssumption
       DEF TargetDestroyed, Fault, userVars, childVars, DesktopTyped, DesktopTypeOK
<1>m. m \in ToChildMsg /\ m.k = "targetDestroyed" /\ m.win = win
    BY <1>i, ChildMsgTyped DEF DesktopTyped, DesktopTypeOK
<1>q. toChild' \in Seq(ToChildMsg) /\ PostedTo(toChild', toChild, m)
    BY <1>i, <1>m, PostFacts DEF TargetDestroyed, DesktopTyped, DesktopTypeOK, QueuesTyped
<1>z. bypass' \in BOOLEAN
    BY <1>a, <1>i DEF DesktopTyped, DesktopTypeOK
<1> HIDE DEF m
<1>g. /\ ReqsUsed' /\ RequestsFit' /\ OneQuestion' /\ ExecFits' /\ HoldsFit'
      /\ EndingsFit' /\ ToldFits' /\ ShownFits' /\ ClicksFit'
    BY <1>a, <1>m, <1>q, HostSends DEF Working
<1>t. DesktopTyped'
    BY <1>i, <1>a, <1>q, <1>z DEF DesktopTyped, DesktopTypeOK, QueuesTyped
<1>1. GrantsFit'
    BY <1>i, <1>a DEF GrantsFit, Seated
<1>2. DocumentsFit'
    BY <1>i, <1>n, <1>a, <1>m, <1>q DEF DocumentsFit, MessagesFit, PostedTo
<1>3. NotBooted'
    BY <1>i, <1>a DEF NotBooted
<1>4. SeatFits'
    BY <1>i, <1>a, <1>m, <1>q DEF SeatFits, Seated, PostedTo
<1>5. TrackedFits'
    BY <1>i, <1>a, <1>m, <1>q DEF TrackedFits, Tracked, PostedTo
<1>6. CapsFit'
    BY <1>a, <1>m, <1>q DEF CapsFit, Now, Changing, LossPending, PostedTo
<1> QED
    BY <1>t, <1>g, <1>1, <1>2, <1>3, <1>4, <1>5, <1>6 DEF DesktopInv

\* The guard is compromised: the capability, if there is one, is revoked.
LEMMA GuardCompromisedKeeps ==
    ASSUME DesktopInv, GuardCompromised
    PROVE  DesktopInv'
<1>i. /\ DesktopTyped /\ ReqsUsed /\ RequestsFit /\ OneQuestion /\ ExecFits /\ HoldsFit
      /\ GrantsFit /\ DocumentsFit /\ NotBooted /\ EndingsFit /\ SeatFits /\ TrackedFits
      /\ ToldFits /\ CapsFit /\ ShownFits /\ ClicksFit
    BY DEF DesktopInv
<1>n. MessagesFit
    BY MessagesTyped
<1> DEFINE m == [k |-> "revoked", cap |-> caps]
<1>a. /\ target = "live" /\ bypass' = FALSE /\ caps' = None
      /\ faults' \in 0..MaxFault
      /\ UNCHANGED <<lost, shown, req, quit, wiped, closing, target, doc, win, load>>
      /\ UNCHANGED <<toHost, open, child>>
      /\ UNCHANGED <<active, nextGen, exec, ending, ousted, seat, grants, latest, lease>>
    BY <1>i, DesktopAssumption
       DEF GuardCompromised, Fault, userVars, childVars, DesktopTyped, DesktopTypeOK
<1>m. m.k = "revoked" /\ m.cap = caps /\ (caps # None => m \in ToChildMsg)
    BY <1>i, ChildMsgTyped DEF DesktopTyped, DesktopTypeOK
<1>q. /\ toChild' \in Seq(ToChildMsg)
      /\ toChild' = toChild \/ PostedTo(toChild', toChild, m)
      /\ caps # None => PostedTo(toChild', toChild, m)
    BY <1>i, <1>m, PostFacts DEF GuardCompromised, DesktopTyped, DesktopTypeOK, QueuesTyped
<1>z. bypass' \in BOOLEAN
    BY <1>a
<1> HIDE DEF m
<1>g. /\ ReqsUsed' /\ RequestsFit' /\ OneQuestion' /\ ExecFits' /\ HoldsFit'
      /\ EndingsFit' /\ ToldFits' /\ ShownFits' /\ ClicksFit'
    BY <1>a, <1>m, <1>q, HostSends DEF Working
<1>t. DesktopTyped'
    BY <1>i, <1>a, <1>q, <1>z DEF DesktopTyped, DesktopTypeOK, QueuesTyped
<1>1. GrantsFit'
    BY <1>i, <1>a DEF GrantsFit, Seated
<1>2. DocumentsFit'
    BY <1>i, <1>n, <1>a, <1>m, <1>q DEF DocumentsFit, MessagesFit, PostedTo
<1>3. NotBooted'
    BY <1>i, <1>a DEF NotBooted
<1>4. SeatFits'
    BY <1>i, <1>a, <1>m, <1>q DEF SeatFits, Seated, PostedTo
<1>5. TrackedFits'
    BY <1>i, <1>a, <1>m, <1>q DEF TrackedFits, Tracked, PostedTo
<1>6. CapsFit'
    BY <1>i, <1>a, <1>m, <1>q DEF CapsFit, Now, Changing, LossPending, PostedTo
<1> QED
    BY <1>t, <1>g, <1>1, <1>2, <1>3, <1>4, <1>5, <1>6 DEF DesktopInv

\* The quit tears the target down.
LEMMA QuitTeardownKeeps ==
    ASSUME DesktopInv, QuitTeardown
    PROVE  DesktopInv'
<1>i. /\ DesktopTyped /\ ReqsUsed /\ RequestsFit /\ OneQuestion /\ ExecFits /\ HoldsFit
      /\ GrantsFit /\ DocumentsFit /\ NotBooted /\ EndingsFit /\ SeatFits /\ TrackedFits
      /\ ToldFits /\ CapsFit /\ ShownFits /\ ClicksFit
    BY DEF DesktopInv
<1>n. MessagesFit
    BY MessagesTyped
<1> DEFINE m == [k |-> "revoked", cap |-> caps]
<1>a. /\ target' \in {target, "none"} /\ (target = "absent" => target' = target)
      /\ target' = "none" => caps' = None
      /\ bypass' \in BOOLEAN /\ caps' \in {caps, None} /\ wiped' \in BOOLEAN
      /\ load' \in {load, "orphan"} /\ (load = "none" => load' = "none")
      /\ quit = "teardown" /\ quit' = "unloading"
      /\ UNCHANGED <<lost, shown, req, closing, doc, win, toHost, open, child, faults>>
      /\ UNCHANGED <<active, nextGen, exec, ending, ousted, seat, grants, latest, lease>>
    BY <1>i, DesktopAssumption
       DEF QuitTeardown, CloseTarget, SeatFits, childVars, DesktopTyped, DesktopTypeOK
<1>m. m.k = "revoked" /\ m.cap = caps /\ (caps # None => m \in ToChildMsg)
    BY <1>i, ChildMsgTyped DEF DesktopTyped, DesktopTypeOK
<1>q. /\ toChild' \in Seq(ToChildMsg)
      /\ toChild' = toChild \/ PostedTo(toChild', toChild, m)
    BY <1>i, <1>m, PostFacts
       DEF QuitTeardown, CloseTarget, DesktopTyped, DesktopTypeOK, QueuesTyped
<1>k. target = "absent" => toChild' = toChild
    BY DEF QuitTeardown
<1> HIDE DEF m
<1>g. /\ ReqsUsed' /\ RequestsFit' /\ OneQuestion' /\ ExecFits' /\ HoldsFit'
      /\ EndingsFit' /\ ToldFits' /\ ShownFits' /\ ClicksFit'
    BY <1>a, <1>m, <1>q, HostSends DEF Working
<1>t. DesktopTyped'
    BY <1>i, <1>a, <1>q DEF DesktopTyped, DesktopTypeOK, QueuesTyped, Fault
<1>1. GrantsFit'
    BY <1>i, <1>a DEF GrantsFit, Seated
<1>2. DocumentsFit'
    BY <1>i, <1>n, <1>a, <1>m, <1>q DEF DocumentsFit, MessagesFit, PostedTo
<1>3. NotBooted'
    BY <1>i, <1>a, <1>k DEF NotBooted
<1>4. SeatFits'
    BY <1>i, <1>a, <1>m, <1>q DEF SeatFits, Seated, PostedTo
<1>5. TrackedFits'
    BY <1>i, <1>a, <1>m, <1>q DEF TrackedFits, Tracked, PostedTo
<1>6. CapsFit'
    BY <1>i, <1>a, <1>m, <1>q DEF CapsFit, Now, Changing, LossPending, PostedTo
<1> QED
    BY <1>t, <1>g, <1>1, <1>2, <1>3, <1>4, <1>5, <1>6 DEF DesktopInv

\* A teardown ends, and every capability is cleared with it.
LEMMA TeardownEndsKeeps ==
    ASSUME DesktopInv, TeardownEnds
    PROVE  DesktopInv'
<1>i. /\ DesktopTyped /\ ReqsUsed /\ RequestsFit /\ OneQuestion /\ ExecFits /\ HoldsFit
      /\ GrantsFit /\ DocumentsFit /\ NotBooted /\ EndingsFit /\ SeatFits /\ TrackedFits
      /\ ToldFits /\ CapsFit /\ ShownFits /\ ClicksFit
    BY DEF DesktopInv
<1>n. MessagesFit
    BY MessagesTyped
<1>a. /\ closing \in Nat /\ closing > 0 /\ closing' = closing - 1
      /\ caps' = None /\ wiped' = (wiped \/ caps # None)
      /\ UNCHANGED <<lost, shown, req, quit, target, bypass, doc, win, load, toChild, toHost, open>>
      /\ UNCHANGED <<child, active, nextGen, exec, ending, ousted, seat, grants, latest, lease>>
      /\ UNCHANGED faults
    BY <1>i DEF TeardownEnds, userVars, chanVars, childVars, DesktopTyped, DesktopTypeOK
<1>t. DesktopTyped'
    BY <1>i, <1>a DEF DesktopTyped, DesktopTypeOK, QueuesTyped
<1>1. ReqsUsed'
    BY <1>i, <1>a DEF ReqsUsed
<1>2. RequestsFit'
    BY <1>i, <1>a DEF RequestsFit
<1>3. OneQuestion'
    BY <1>i, <1>a DEF OneQuestion
<1>4. ExecFits'
    BY <1>i, <1>a DEF ExecFits
<1>5. HoldsFit'
    BY <1>i, <1>a DEF HoldsFit, Switching
<1>6. GrantsFit'
    BY <1>i, <1>a DEF GrantsFit, Seated
<1>7. DocumentsFit'
    BY <1>i, <1>a DEF DocumentsFit
<1>8. NotBooted'
    BY <1>i, <1>a DEF NotBooted
<1>9. EndingsFit'
    BY <1>i, <1>a DEF EndingsFit, Ends, Seated
<1>10. SeatFits'
    BY <1>i, <1>a DEF SeatFits, Seated
<1>11. TrackedFits'
    BY <1>i, <1>a DEF TrackedFits, Tracked
<1>12. ToldFits'
    BY <1>i, <1>a DEF ToldFits, Now, Changing
<1>13. CapsFit'
    BY <1>i, <1>a DEF CapsFit, Now, Changing, LossPending
<1>14. ShownFits'
    BY <1>i, <1>a DEF ShownFits, Seated
<1>15. ClicksFit'
    BY <1>i, <1>a DEF ClicksFit
<1> QED
    BY <1>t, <1>1, <1>2, <1>3, <1>4, <1>5, <1>6, <1>7, <1>8, <1>9, <1>10, <1>11, <1>12,
       <1>13, <1>14, <1>15
       DEF DesktopInv

\* A new request takes the first unused number, which nothing in the queues or
\* in the executor names.
LEMMA NextReqFacts ==
    ASSUME DesktopInv, MayAsk, NEW new \in ReqType, new.kind # "none", new.state # "unused",
           new.state = "preparing" => new.kind = "activate",
           req' = [req EXCEPT ![NextReq] = new]
    PROVE  /\ NextReq \in Reqs /\ req[NextReq].kind = "none" /\ req' \in [Reqs -> ReqType]
           /\ \A r \in Reqs : r # NextReq => req'[r] = req[r]
           /\ req'[NextReq] = new
           /\ ReqsUsed'
           /\ exec # NoExec => exec.req # NextReq
           /\ ending[NextReq].phase = "none"
           /\ \A c \in InChild : c.k \in {"activate", "deactivate"} => c.id # NextReq
           /\ \A h \in InHost : h.k = "result" => h.id # NextReq
<1>i. DesktopTyped /\ ReqsUsed /\ RequestsFit /\ ExecFits /\ HoldsFit
    BY DEF DesktopInv
<1>1. PICK n \in 0..MaxReq : \A r \in Reqs : req[r].state = "unused" <=> r > n
    BY <1>i DEF ReqsUsed
<1>2. n + 1 \in Reqs /\ n \in Nat
    BY <1>1, DesktopAssumption DEF MayAsk, Reqs
<1>3. req[n + 1].state = "unused" /\ \A t \in 1..((n + 1) - 1) : req[t].state # "unused"
    BY <1>1, <1>2, DesktopAssumption DEF Reqs
<1>4. /\ NextReq \in Reqs /\ req[NextReq].state = "unused"
      /\ \A t \in 1..(NextReq - 1) : req[t].state # "unused"
    BY <1>2, <1>3 DEF NextReq
<1>5. NextReq = n + 1
    BY <1>3, <1>4 DEF Reqs
<1> DEFINE x == NextReq
<1>6. x \in Reqs /\ x = n + 1 /\ req[x].state = "unused" /\ req' = [req EXCEPT ![x] = new]
    BY <1>4, <1>5
<1> HIDE DEF x
<1>7. /\ req' \in [Reqs -> ReqType]
      /\ \A r \in Reqs : r # x => req'[r] = req[r]
      /\ req'[x] = new
    BY <1>i, <1>6 DEF ReqType, DesktopTyped, DesktopTypeOK
<1>8. req[x].kind = "none"
    BY <1>i, <1>6 DEF ReqsUsed
<1>9. \A r \in Reqs : /\ req'[r].kind = "none" <=> req'[r].state = "unused"
                      /\ req'[r].state = "preparing" => req'[r].kind = "activate"
    BY <1>i, <1>7, <1>8 DEF ReqsUsed
<1>10. \A r \in Reqs : req'[r].state = "unused" <=> r > n + 1
    <2> SUFFICES ASSUME NEW r \in Reqs
                 PROVE  req'[r].state = "unused" <=> r > n + 1
        OBVIOUS
    <2>1. r \in Nat
        BY DesktopAssumption DEF Reqs
    <2>2. CASE r = x
        BY <1>6, <1>7, <2>2
    <2>3. CASE r # x
        <3>1. req'[r].state = "unused" <=> r > n
            BY <1>1, <1>7, <2>3
        <3> QED
            BY <1>2, <1>6, <2>1, <2>3, <3>1
    <2> QED
        BY <2>2, <2>3
<1>11. n + 1 \in 0..MaxReq
    BY <1>2, DesktopAssumption DEF Reqs
<1>12. ReqsUsed'
    BY <1>9, <1>10, <1>11 DEF ReqsUsed
<1>13. /\ exec # NoExec => exec.req # x
       /\ \A c \in InChild : c.k \in {"activate", "deactivate"} => c.id # x
       /\ \A h \in InHost : h.k = "result" => h.id # x
    BY <1>i, <1>8 DEF RequestsFit
<1>14. ending[x].phase = "none"
    BY <1>i, <1>6, <1>8, <1>13 DEF HoldsFit, Switching, ExecFits, NoExec
<1> QED
    BY <1>6, <1>7, <1>8, <1>12, <1>13, <1>14 DEF x

\* A project is activated: its target is prepared first.
LEMMA ActivateKeeps ==
    ASSUME DesktopInv, Activate
    PROVE  DesktopInv'
<1>i. /\ DesktopTyped /\ ReqsUsed /\ RequestsFit /\ OneQuestion /\ ExecFits /\ HoldsFit
      /\ GrantsFit /\ DocumentsFit /\ NotBooted /\ EndingsFit /\ SeatFits /\ TrackedFits
      /\ ToldFits /\ CapsFit /\ ShownFits /\ ClicksFit
    BY DEF DesktopInv
<1>n. MessagesFit
    BY MessagesTyped
<1> DEFINE x == NextReq
           new == [kind |-> "activate", sess |-> 0, state |-> "preparing"]
<1>s. /\ MayAsk /\ new \in ReqType /\ req' = [req EXCEPT ![NextReq] = new]
      /\ new.kind = "activate" /\ new.state = "preparing"
    BY DesktopAssumption DEF Activate, ReqType, Gens0
<1>k. /\ x \in Reqs /\ req[x].kind = "none" /\ req' \in [Reqs -> ReqType]
      /\ \A r \in Reqs : r # x => req'[r] = req[r]
      /\ req'[x] = new
      /\ ReqsUsed'
      /\ exec # NoExec => exec.req # x
      /\ ending[x].phase = "none"
      /\ \A c \in InChild : c.k \in {"activate", "deactivate"} => c.id # x
      /\ \A h \in InHost : h.k = "result" => h.id # x
    BY <1>s, NextReqFacts
<1>a. /\ target # "absent" /\ quit = "no" /\ target' # "absent"
      /\ \/ target' = target /\ win' = win
         \/ target = "none" /\ target' = "live" /\ win' = doc + 1
      /\ UNCHANGED <<lost, shown, quit, caps, wiped, closing, bypass, doc, load, toChild, toHost>>
      /\ UNCHANGED <<active, nextGen, exec, ending, ousted, seat, grants, latest, lease>>
      /\ UNCHANGED <<open, child, faults>>
    BY DEF Activate, MayAsk, chanVars, childVars
<1>w. /\ win' \in Nat /\ win <= win' /\ win' <= doc + 1 /\ latest <= doc
      /\ win' # win =>
            /\ ~Seated /\ latest < win'
            /\ \A c \in InChild : c.k \in {"observed", "navigated"} => c.doc < win'
            /\ \A c \in InChild : c.k \in AnswerKind /\ c.doc # 0 => exec.gen # active
    BY <1>i, <1>n, <1>a DEF MessagesFit, DocumentsFit, SeatFits
<1>e. target' \in {"absent", "none", "live", "destroyed"}
    BY <1>i, <1>a DEF DesktopTyped, DesktopTypeOK
<1> HIDE DEF x, new
<1>t. DesktopTyped'
    BY <1>i, <1>a, <1>e, <1>k, <1>w DEF DesktopTyped, DesktopTypeOK, QueuesTyped, ReqType
<1>1. ReqsUsed'
    BY <1>k
<1>2. RequestsFit'
    BY <1>i, <1>n, <1>a, <1>k DEF RequestsFit, MessagesFit
<1>3. OneQuestion'
    BY <1>i, <1>a DEF OneQuestion
<1>4. ExecFits'
    BY <1>i, <1>a DEF ExecFits
<1>5. HoldsFit'
    BY <1>i, <1>a, <1>k DEF HoldsFit, Switching
<1>6. GrantsFit'
    BY <1>i, <1>n, <1>a, <1>w DEF GrantsFit, Seated, MessagesFit
<1>7. DocumentsFit'
    BY <1>i, <1>n, <1>a, <1>w DEF DocumentsFit, MessagesFit
<1>8. NotBooted'
    BY <1>i, <1>a DEF NotBooted
<1>9. EndingsFit'
    BY <1>i, <1>n, <1>a, <1>k DEF EndingsFit, Ends, Seated, MessagesFit
<1>10. SeatFits'
    BY <1>i, <1>n, <1>a, <1>w DEF SeatFits, Seated, MessagesFit
<1>11. TrackedFits'
    BY <1>i, <1>n, <1>a, <1>w DEF TrackedFits, Tracked, MessagesFit, GrantsFit
<1>12. ToldFits'
    BY <1>i, <1>a DEF ToldFits, Now, Changing
<1>13. CapsFit'
    BY <1>i, <1>a DEF CapsFit, Now, Changing, LossPending
<1>14. ShownFits'
    BY <1>i, <1>a DEF ShownFits, Seated
<1>15. ClicksFit'
    BY <1>i, <1>a DEF ClicksFit
<1> QED
    BY <1>t, <1>1, <1>2, <1>3, <1>4, <1>5, <1>6, <1>7, <1>8, <1>9, <1>10, <1>11, <1>12,
       <1>13, <1>14, <1>15
       DEF DesktopInv

\* The menu item deactivates the session shown.
LEMMA DeactivateKeeps ==
    ASSUME DesktopInv, Deactivate
    PROVE  DesktopInv'
<1>i. /\ DesktopTyped /\ ReqsUsed /\ RequestsFit /\ OneQuestion /\ ExecFits /\ HoldsFit
      /\ GrantsFit /\ DocumentsFit /\ NotBooted /\ EndingsFit /\ SeatFits /\ TrackedFits
      /\ ToldFits /\ CapsFit /\ ShownFits /\ ClicksFit
    BY DEF DesktopInv
<1>n. MessagesFit
    BY MessagesTyped
<1> DEFINE x == NextReq
           new == [kind |-> "deactivate", sess |-> shown, state |-> Sent]
           m == [k |-> "deactivate", id |-> x, sess |-> shown]
<1>s. /\ MayAsk /\ new \in ReqType /\ req' = [req EXCEPT ![NextReq] = new]
      /\ new.kind = "deactivate" /\ new.state \in {"pending", "unavailable"} /\ new.sess = shown
      /\ shown \in Gens0 /\ shown # 0
    BY <1>i DEF Deactivate, ReqType, Sent, DesktopTyped, DesktopTypeOK
<1>k. /\ x \in Reqs /\ req[x].kind = "none" /\ req' \in [Reqs -> ReqType]
      /\ \A r \in Reqs : r # x => req'[r] = req[r]
      /\ req'[x] = new
      /\ ReqsUsed'
      /\ exec # NoExec => exec.req # x
      /\ ending[x].phase = "none"
      /\ \A c \in InChild : c.k \in {"activate", "deactivate"} => c.id # x
      /\ \A h \in InHost : h.k = "result" => h.id # x
    BY <1>s, NextReqFacts
<1>a. /\ UNCHANGED <<lost, shown, quit, caps, wiped, closing, target, bypass, doc, win, load>>
      /\ UNCHANGED <<active, nextGen, exec, ending, ousted, seat, grants, latest, lease>>
      /\ UNCHANGED <<toHost, open, child, faults>>
    BY DEF Deactivate, frameVars, childVars
<1>m. m.k = "deactivate" /\ m.id = x /\ m.sess = shown /\ m \in ToChildMsg
    BY <1>k, <1>s, ChildMsgTyped
<1>q. toChild' \in Seq(ToChildMsg) /\ (toChild' = toChild \/ PostedTo(toChild', toChild, m))
    BY <1>i, <1>m, PostFacts DEF Deactivate, Sends, DesktopTyped, QueuesTyped
<1>b. target # "absent"
    BY <1>i, <1>s DEF NotBooted
<1> HIDE DEF x, new, m
<1>t. DesktopTyped'
    BY <1>i, <1>a, <1>k, <1>q DEF DesktopTyped, DesktopTypeOK, QueuesTyped, ReqType
<1>1. ReqsUsed'
    BY <1>k
<1>2. RequestsFit'
    BY <1>i, <1>n, <1>a, <1>k, <1>m, <1>q, <1>s DEF RequestsFit, MessagesFit, PostedTo
<1>3. OneQuestion'
    BY <1>i, <1>a, <1>m, <1>q DEF OneQuestion, PostedTo
<1>4. ExecFits'
    BY <1>i, <1>a DEF ExecFits
<1>5. HoldsFit'
    BY <1>i, <1>a, <1>k DEF HoldsFit, Switching
<1>6. GrantsFit'
    BY <1>i, <1>a DEF GrantsFit, Seated
<1>7. DocumentsFit'
    BY <1>i, <1>a, <1>m, <1>q DEF DocumentsFit, PostedTo
<1>8. NotBooted'
    BY <1>i, <1>a, <1>b DEF NotBooted
<1>9. EndingsFit'
    BY <1>i, <1>n, <1>a, <1>k, <1>m, <1>q
       DEF EndingsFit, Ends, Seated, MessagesFit, PostedTo
<1>10. SeatFits'
    BY <1>i, <1>a, <1>m, <1>q DEF SeatFits, Seated, PostedTo
<1>11. TrackedFits'
    BY <1>i, <1>a, <1>m, <1>q DEF TrackedFits, Tracked, PostedTo
<1>12. ToldFits'
    BY <1>i, <1>a DEF ToldFits, Now, Changing
<1>13. CapsFit'
    BY <1>i, <1>a, <1>q DEF CapsFit, Now, Changing, LossPending, PostedTo
<1>14. ShownFits'
    BY <1>i, <1>a, <1>m, <1>q DEF ShownFits, Seated, PostedTo
<1>15. ClicksFit'
    BY <1>i, <1>a, <1>m, <1>q DEF ClicksFit, ShownFits, Seated, PostedTo
<1> QED
    BY <1>t, <1>1, <1>2, <1>3, <1>4, <1>5, <1>6, <1>7, <1>8, <1>9, <1>10, <1>11, <1>12,
       <1>13, <1>14, <1>15
       DEF DesktopInv

\* The target is prepared and the request sent.
LEMMA PreparedKeeps ==
    ASSUME DesktopInv, NEW r \in Reqs, Prepared(r)
    PROVE  DesktopInv'
<1>i. /\ DesktopTyped /\ ReqsUsed /\ RequestsFit /\ OneQuestion /\ ExecFits /\ HoldsFit
      /\ GrantsFit /\ DocumentsFit /\ NotBooted /\ EndingsFit /\ SeatFits /\ TrackedFits
      /\ ToldFits /\ CapsFit /\ ShownFits /\ ClicksFit
    BY DEF DesktopInv
<1>n. MessagesFit
    BY MessagesTyped
<1> DEFINE ask == [k |-> "activate", id |-> r, sess |-> 0]
           nav == [k |-> "navigated", doc |-> doc + 1, win |-> win]
           p == IF doc >= win THEN toChild ELSE Post(nav)
<1>a. /\ req[r].state = "preparing" /\ target = "live" /\ bypass' = TRUE
      /\ req' = [req EXCEPT ![r].state = Sent]
      /\ UNCHANGED <<lost, shown, quit, caps, wiped, closing, target, win, load, toHost, open>>
      /\ UNCHANGED <<active, nextGen, exec, ending, ousted, seat, grants, latest, lease>>
      /\ UNCHANGED <<child, faults>>
    BY DEF Prepared, childVars
<1>z. bypass' \in BOOLEAN
    BY <1>a
<1>d. \/ doc' = doc /\ p = toChild
      \/ doc' = doc + 1 /\ p = Post(nav) /\ doc' \in Docs0
    BY <1>i, DesktopAssumption DEF Prepared, Navigated, DesktopTyped, DesktopTypeOK, Docs0
<1>k. ReqsKept /\ req[r].kind = "activate"
    BY <1>i, <1>a DEF ReqsKept, ReqType, ReqsUsed, Sent, DesktopTyped, DesktopTypeOK
<1>m. /\ ask \in ToChildMsg /\ ask.k = "activate" /\ ask.id = r
      /\ nav.k = "navigated" /\ nav.doc = doc + 1 /\ nav.win = win
      /\ doc' = doc + 1 => nav \in ToChildMsg
    BY <1>i, <1>d, DesktopAssumption, ChildMsgTyped DEF Gens0, DesktopTyped, DesktopTypeOK
<1>p. /\ p \in Seq(ToChildMsg)
      /\ \/ doc' = doc /\ p = toChild
         \/ doc' = doc + 1 /\ doc' \in Docs0 /\ PostedTo(p, toChild, nav)
    BY <1>i, <1>d, <1>m, <1>n, PostFacts DEF MessagesFit, DesktopTyped, QueuesTyped
<1>q. toChild' \in Seq(ToChildMsg) /\ (toChild' = p \/ PostedTo(toChild', p, ask))
    <2>1. \/ toChild' = p
          \/ open /\ toChild' = Append(p, ask)
        BY DEF Prepared, Sends, Post, Navigated
    <2>2. CASE open /\ toChild' = Append(p, ask)
        <3>1. Append(p, ask) \in Seq(ToChildMsg) /\ PostedTo(Append(p, ask), p, ask)
            BY <1>m, <1>p, <2>2, AppendPosted
        <3> QED
            BY <2>2, <3>1
    <2> QED
        BY <1>p, <2>1, <2>2
<1> HIDE DEF ask, nav, p
<1>s. /\ \A c \in InChild' : c \in InChild \/ c = ask \/ (c = nav /\ doc' = doc + 1)
      /\ \A c \in Behind(toChild', AnswerKind) :
            c \in Behind(toChild, AnswerKind) \/ c = ask \/ c = nav
      /\ InChild \subseteq InChild'
      /\ open /\ doc' # doc => nav \in InChild'
    BY <1>p, <1>q DEF PostedTo
<1>e. doc' \in Docs0 /\ doc <= doc'
    BY <1>i, <1>n, <1>p DEF MessagesFit, DesktopTyped, DesktopTypeOK
<1>t. DesktopTyped'
    BY <1>i, <1>a, <1>e, <1>k, <1>q, <1>z
       DEF DesktopTyped, DesktopTypeOK, QueuesTyped, ReqsKept, ReqType
<1>1. ReqsUsed'
    BY <1>i, <1>k DEF ReqsUsed, ReqsKept
<1>2. RequestsFit'
    BY <1>i, <1>n, <1>a, <1>k, <1>m, <1>s DEF RequestsFit, ReqsKept, MessagesFit
<1>3. OneQuestion'
    BY <1>i, <1>a, <1>m, <1>s DEF OneQuestion
<1>4. ExecFits'
    BY <1>i, <1>a DEF ExecFits
<1>5. HoldsFit'
    BY <1>i, <1>a, <1>k DEF HoldsFit, Switching, ReqsKept
<1>6. GrantsFit'
    BY <1>i, <1>a DEF GrantsFit, Seated
<1>7. DocumentsFit'
    BY <1>i, <1>n, <1>a, <1>e, <1>m, <1>s DEF DocumentsFit, MessagesFit, Docs0
<1>8. NotBooted'
    BY <1>i, <1>a DEF NotBooted
<1>9. EndingsFit'
    BY <1>i, <1>n, <1>a, <1>k, <1>m, <1>s
       DEF EndingsFit, Ends, Seated, ReqsKept, MessagesFit
<1>10. SeatFits'
    BY <1>i, <1>a, <1>m, <1>s DEF SeatFits, Seated
<1>11. TrackedFits'
    <2>1. open /\ Tracked /\ doc' = doc => Tracked'
        BY <1>a, <1>s DEF Tracked
    <2>2. open /\ doc' # doc => Tracked'
        BY <1>m, <1>n, <1>p, <1>s DEF MessagesFit, Tracked
    <2> QED
        BY <1>i, <1>a, <1>m, <1>s, <2>1, <2>2 DEF TrackedFits, Tracked
<1>12. ToldFits'
    BY <1>i, <1>a DEF ToldFits, Now, Changing
<1>13. CapsFit'
    BY <1>i, <1>a, <1>s DEF CapsFit, Now, Changing, LossPending
<1>14. ShownFits'
    BY <1>i, <1>a, <1>m, <1>s DEF ShownFits, Seated
<1>15. ClicksFit'
    BY <1>i, <1>a, <1>m, <1>s DEF ClicksFit
<1> QED
    BY <1>t, <1>1, <1>2, <1>3, <1>4, <1>5, <1>6, <1>7, <1>8, <1>9, <1>10, <1>11, <1>12,
       <1>13, <1>14, <1>15
       DEF DesktopInv

\* A load settles, and its answer goes out.
LEMMA LoadSettlesKeeps ==
    ASSUME DesktopInv, NEW ok \in BOOLEAN, LoadSettles(ok)
    PROVE  DesktopInv'
<1>i. /\ DesktopTyped /\ ReqsUsed /\ RequestsFit /\ OneQuestion /\ ExecFits /\ HoldsFit
      /\ GrantsFit /\ DocumentsFit /\ NotBooted /\ EndingsFit /\ SeatFits /\ TrackedFits
      /\ ToldFits /\ CapsFit /\ ShownFits /\ ClicksFit
    BY DEF DesktopInv
<1>n. MessagesFit
    BY MessagesTyped
<1> DEFINE d == IF ok THEN doc ELSE 0
           m == [k |-> "observed", doc |-> d, win |-> win]
<1>a. /\ load # "none" /\ load' = "none"
      /\ ok => target = "live" /\ doc >= win
      /\ UNCHANGED <<lost, shown, req, quit, caps, wiped, closing, target, bypass, doc, win>>
      /\ UNCHANGED <<active, nextGen, exec, ending, ousted, seat, grants, latest, lease>>
      /\ UNCHANGED <<toHost, open, child, faults>>
    BY DEF LoadSettles, userVars, childVars
<1>r. exec.phase = "replacing"
    BY <1>i, <1>a DEF OneQuestion
<1>d. d \in {0, doc} /\ d \in Docs0 /\ (d # 0 => target = "live" /\ doc >= win)
    BY <1>i, <1>a, DesktopAssumption DEF DesktopTyped, DesktopTypeOK, Docs0
<1>m. m \in ToChildMsg /\ m.k = "observed" /\ m.doc = d /\ m.win = win
    BY <1>i, <1>d, ChildMsgTyped DEF DesktopTyped, DesktopTypeOK
<1>q. toChild' \in Seq(ToChildMsg) /\ (toChild' = toChild \/ PostedTo(toChild', toChild, m))
    BY <1>i, <1>m, PostFacts DEF LoadSettles, Sends, Identity, DesktopTyped, QueuesTyped
<1>b. target # "absent"
    BY <1>i, <1>a DEF NotBooted
<1> HIDE DEF m, d
<1>t. DesktopTyped'
    BY <1>i, <1>a, <1>q DEF DesktopTyped, DesktopTypeOK, QueuesTyped
<1>1. ReqsUsed'
    BY <1>i, <1>a DEF ReqsUsed
<1>2. RequestsFit'
    BY <1>i, <1>a, <1>m, <1>q DEF RequestsFit, PostedTo
<1>3. OneQuestion'
    BY <1>i, <1>n, <1>a, <1>m, <1>q, <1>r DEF OneQuestion, MessagesFit, PostedTo
<1>4. ExecFits'
    BY <1>i, <1>a DEF ExecFits
<1>5. HoldsFit'
    BY <1>i, <1>a DEF HoldsFit, Switching
<1>6. GrantsFit'
    BY <1>i, <1>a DEF GrantsFit, Seated
<1>7. DocumentsFit'
    BY <1>i, <1>n, <1>a, <1>d, <1>m, <1>q DEF DocumentsFit, MessagesFit, PostedTo
<1>8. NotBooted'
    BY <1>i, <1>a, <1>b DEF NotBooted
<1>9. EndingsFit'
    BY <1>i, <1>a, <1>r DEF EndingsFit, Ends, Seated
<1>10. SeatFits'
    BY <1>i, <1>a, <1>d, <1>m, <1>q DEF SeatFits, Seated, PostedTo
<1>11. TrackedFits'
    BY <1>i, <1>a, <1>d, <1>m, <1>q DEF TrackedFits, Tracked, PostedTo
<1>12. ToldFits'
    BY <1>i, <1>a DEF ToldFits, Now, Changing
<1>13. CapsFit'
    BY <1>i, <1>a, <1>q DEF CapsFit, Now, Changing, LossPending, PostedTo
<1>14. ShownFits'
    BY <1>i, <1>a, <1>r DEF ShownFits, Seated
<1>15. ClicksFit'
    BY <1>i, <1>a, <1>m, <1>q, <1>r DEF ClicksFit, PostedTo
<1> QED
    BY <1>t, <1>1, <1>2, <1>3, <1>4, <1>5, <1>6, <1>7, <1>8, <1>9, <1>10, <1>11, <1>12,
       <1>13, <1>14, <1>15
       DEF DesktopInv

\* The boot report.
LEMMA HearBootedKeeps ==
    ASSUME DesktopInv, Hear, Head(toHost).k = "booted"
    PROVE  DesktopInv'
<1>i. /\ DesktopTyped /\ ReqsUsed /\ RequestsFit /\ OneQuestion /\ ExecFits /\ HoldsFit
      /\ GrantsFit /\ DocumentsFit /\ NotBooted /\ EndingsFit /\ SeatFits /\ TrackedFits
      /\ ToldFits /\ CapsFit /\ ShownFits /\ ClicksFit
    BY DEF DesktopInv
<1>n. MessagesFit
    BY MessagesTyped
<1> DEFINE h == Head(toHost)
<1>q. /\ toHost' \in Seq(ToHostMsg) /\ HeardFrom(toHost', toHost, h)
      /\ h \in InHost /\ h \in ToHostMsg
    BY <1>i, HearFacts DEF Hear, HeardFrom
<1>b. /\ ~lost
      /\ UNCHANGED <<lost, doc, win, quit, open, faults>>
      /\ UNCHANGED <<child, active, nextGen, exec, ending, ousted, seat, grants, latest, lease>>
    BY DEF Hear, childVars
<1>a. /\ target' = "none"
      /\ UNCHANGED <<req, shown, caps, wiped, closing, bypass, load, toChild>>
    BY DEF Hear
<1>k. h.k = "booted"
    OBVIOUS
<1> HIDE DEF h
<1>e. /\ target = "absent" /\ Len(toHost) <= 1
      /\ active = 0 /\ nextGen = 0 /\ exec = NoExec /\ grants = {} /\ seat = NoSeat
      /\ InChild = {} /\ load = "none" /\ shown = 0 /\ caps = None /\ closing = 0
      /\ \A r \in Reqs : ending[r].phase = "none"
    BY <1>i, <1>k, <1>q DEF NotBooted
<1>f. Msgs(toHost') = {} /\ child # "boot"
    BY <1>i, <1>q DEF HeardFrom, Msgs, Pos, NotBooted
<1>t. DesktopTyped'
    BY <1>i, <1>a, <1>b, <1>q DEF DesktopTyped, DesktopTypeOK, QueuesTyped
<1>1. ReqsUsed'
    BY <1>i, <1>a, <1>b DEF ReqsUsed
<1>2. RequestsFit'
    BY <1>a, <1>b, <1>e, <1>f DEF RequestsFit
<1>3. OneQuestion'
    BY <1>i, <1>a, <1>b, <1>e, <1>f, <1>q DEF OneQuestion, HeardFrom
<1>4. ExecFits'
    BY <1>i, <1>b DEF ExecFits
<1>5. HoldsFit'
    BY <1>i, <1>a, <1>b DEF HoldsFit, Switching
<1>6. GrantsFit'
    BY <1>b, <1>e DEF GrantsFit, Seated
<1>7. DocumentsFit'
    BY <1>i, <1>a, <1>b DEF DocumentsFit
<1>8. NotBooted'
    BY <1>a, <1>b, <1>f DEF NotBooted
<1>9. EndingsFit'
    BY <1>f DEF EndingsFit, Ends, Seated
<1>10. SeatFits'
    BY <1>a, <1>b, <1>e DEF SeatFits, Seated
<1>11. TrackedFits'
    BY <1>a, <1>b, <1>e DEF TrackedFits, Tracked
<1>12. ToldFits'
    BY <1>i, <1>b, <1>q DEF ToldFits, Now, Changing, HeardFrom
<1>13. CapsFit'
    BY <1>i, <1>a, <1>b, <1>e, <1>f, <1>q DEF CapsFit, Now, Changing, LossPending, SeatCap
<1>14. ShownFits'
    BY <1>i, <1>a, <1>b, <1>e, <1>q DEF ShownFits, Seated, HeardFrom
<1>15. ClicksFit'
    BY <1>n, <1>a, <1>e DEF ClicksFit, MessagesFit
<1> QED
    BY <1>t, <1>1, <1>2, <1>3, <1>4, <1>5, <1>6, <1>7, <1>8, <1>9, <1>10, <1>11, <1>12,
       <1>13, <1>14, <1>15
       DEF DesktopInv

\* A session report.
LEMMA HearStateKeeps ==
    ASSUME DesktopInv, Hear, Head(toHost).k = "state"
    PROVE  DesktopInv'
<1>i. /\ DesktopTyped /\ ReqsUsed /\ RequestsFit /\ OneQuestion /\ ExecFits /\ HoldsFit
      /\ GrantsFit /\ DocumentsFit /\ NotBooted /\ EndingsFit /\ SeatFits /\ TrackedFits
      /\ ToldFits /\ CapsFit /\ ShownFits /\ ClicksFit
    BY DEF DesktopInv
<1>n. MessagesFit
    BY MessagesTyped
<1> DEFINE h == Head(toHost)
<1>q. /\ toHost' \in Seq(ToHostMsg) /\ HeardFrom(toHost', toHost, h)
      /\ h \in InHost /\ h \in ToHostMsg
    BY <1>i, HearFacts DEF Hear, HeardFrom
<1>b. /\ ~lost
      /\ UNCHANGED <<lost, doc, win, quit, open, faults>>
      /\ UNCHANGED <<child, active, nextGen, exec, ending, ousted, seat, grants, latest, lease>>
    BY DEF Hear, childVars
<1>a. /\ shown' = h.gen /\ caps' = Holds(h.cap) /\ wiped' = (wiped /\ h.cap = None)
      /\ UNCHANGED <<req, closing, target, bypass, load, toChild>>
    BY DEF Hear, HearState
<1>e. h.k = "state" /\ h.gen \in Gens0 /\ h.cap \in Caps \cup {None} /\ target # "absent"
    BY <1>i, <1>q, HostMsgFacts DEF NotBooted
<1>c. /\ h.cap = None => caps' = None
      /\ h.cap # None => /\ caps' \in {h.cap, caps}
                         /\ target # "none" /\ h.cap[2] >= win => caps' = h.cap
                         /\ target = "none" => caps' = caps
    BY <1>a DEF Holds
<1>w. wiped' \in BOOLEAN /\ caps' \in Caps \cup {None}
    BY <1>a, <1>c, <1>e, <1>i DEF DesktopTyped, DesktopTypeOK
<1> HIDE DEF h
<1>t. DesktopTyped'
    BY <1>i, <1>a, <1>b, <1>e, <1>q, <1>w DEF DesktopTyped, DesktopTypeOK, QueuesTyped
<1>1. ReqsUsed'
    BY <1>i, <1>a, <1>b DEF ReqsUsed
<1>2. RequestsFit'
    BY <1>i, <1>a, <1>b, <1>q DEF RequestsFit, HeardFrom
<1>3. OneQuestion'
    BY <1>i, <1>a, <1>b, <1>q DEF OneQuestion, HeardFrom
<1>4. ExecFits'
    BY <1>i, <1>a, <1>b DEF ExecFits
<1>5. HoldsFit'
    BY <1>i, <1>a, <1>b DEF HoldsFit, Switching
<1>6. GrantsFit'
    BY <1>i, <1>a, <1>b DEF GrantsFit, Seated
<1>7. DocumentsFit'
    BY <1>i, <1>a, <1>b DEF DocumentsFit
<1>8. NotBooted'
    BY <1>i, <1>a, <1>b, <1>e, <1>q DEF NotBooted, HeardFrom
<1>9. EndingsFit'
    BY <1>i, <1>a, <1>b, <1>q DEF EndingsFit, Ends, Seated, HeardFrom
<1>10. SeatFits'
    BY <1>i, <1>a, <1>b, <1>c DEF SeatFits, Seated
<1>11. TrackedFits'
    BY <1>i, <1>a, <1>b DEF TrackedFits, Tracked
<1>12. ToldFits'
    BY <1>i, <1>b, <1>q DEF ToldFits, Now, Changing, HeardFrom
<1>13. CapsFit'
    <2>1. ASSUME open, \A k \in InHost' : k.k \notin ReportKinds
          PROVE  h.cap \in {None, Now} /\ (~Changing => h.cap = Now)
        BY <1>e, <1>i, <1>q, <2>1 DEF ToldFits, HeardFrom
    <2>2. Now # None => Seated /\ Now = seat.cap
        BY DEF Now, SeatCap, Seated
    <2>3. Now # None => Now[2] >= win /\ (quit = "no" => target # "none")
        BY <1>i, <2>2 DEF SeatFits
    <2> QED
        BY <1>b, <1>c, <1>i, <2>1, <2>2, <2>3 DEF CapsFit, Now, Changing, SeatFits
<1>14. ShownFits'
    BY <1>i, <1>a, <1>b, <1>e, <1>q DEF ShownFits, Seated, HeardFrom
<1>15. ClicksFit'
    BY <1>i, <1>a, <1>b DEF ClicksFit
<1> QED
    BY <1>t, <1>1, <1>2, <1>3, <1>4, <1>5, <1>6, <1>7, <1>8, <1>9, <1>10, <1>11, <1>12,
       <1>13, <1>14, <1>15
       DEF DesktopInv

\* The answer to a request; a deactivation that completed ends the target.
LEMMA HearResultKeeps ==
    ASSUME DesktopInv, Hear, Head(toHost).k = "result"
    PROVE  DesktopInv'
<1>i. /\ DesktopTyped /\ ReqsUsed /\ RequestsFit /\ OneQuestion /\ ExecFits /\ HoldsFit
      /\ GrantsFit /\ DocumentsFit /\ NotBooted /\ EndingsFit /\ SeatFits /\ TrackedFits
      /\ ToldFits /\ CapsFit /\ ShownFits /\ ClicksFit
    BY DEF DesktopInv
<1>n. MessagesFit
    BY MessagesTyped
<1> DEFINE h == Head(toHost)
<1>q. /\ toHost' \in Seq(ToHostMsg) /\ HeardFrom(toHost', toHost, h)
      /\ h \in InHost /\ h \in ToHostMsg
    BY <1>i, HearFacts DEF Hear, HeardFrom
<1>b. /\ ~lost
      /\ UNCHANGED <<lost, doc, win, quit, open, faults>>
      /\ UNCHANGED <<child, active, nextGen, exec, ending, ousted, seat, grants, latest, lease>>
    BY DEF Hear, childVars
<1> DEFINE answered == req[h.id].state = "pending"
           gone == answered /\ h.ok /\ req[h.id].kind = "deactivate" /\ target # "none"
           m == [k |-> "revoked", cap |-> caps]
<1>a. /\ req' = IF answered THEN [req EXCEPT ![h.id].state = "done"] ELSE req
      /\ IF gone
         THEN CloseTarget /\ closing' = closing + 1
         ELSE /\ caps' = Holds(h.cap) /\ wiped' = (wiped /\ h.cap = None)
              /\ UNCHANGED <<target, bypass, load, closing, toChild>>
      /\ shown' = shown
    BY DEF Hear, HearResult
<1>e. h.k = "result" /\ h.id \in Reqs /\ h.cap \in Caps \cup {None} /\ target # "absent"
    BY <1>i, <1>q, HostMsgFacts DEF NotBooted
<1>r. gone => Ends(h)
    BY <1>e DEF Ends
<1>k. ReqsKept
    BY <1>i, <1>a, <1>e DEF ReqsKept, ReqType, DesktopTyped, DesktopTypeOK
<1>m. m.k = "revoked" /\ m.cap = caps /\ (caps # None => m \in ToChildMsg)
    BY <1>i, ChildMsgTyped DEF DesktopTyped, DesktopTypeOK
<1>p. /\ toChild' \in Seq(ToChildMsg)
      /\ toChild' = toChild \/ PostedTo(toChild', toChild, m)
      /\ load' \in {load, "orphan"} /\ (load = "none" => load' = "none")
      /\ closing' \in Nat
    BY <1>i, <1>a, <1>m, PostFacts DEF CloseTarget, DesktopTyped, DesktopTypeOK, QueuesTyped
<1>c. \/ target' = "none" /\ caps' = None /\ Ends(h)
      \/ /\ h.cap = None => caps' = None
         /\ h.cap # None => /\ caps' \in {h.cap, caps}
                            /\ target # "none" /\ h.cap[2] >= win => caps' = h.cap
                            /\ target = "none" => caps' = caps
         /\ target' = target /\ wiped' = (wiped /\ h.cap = None)
    BY <1>a, <1>r DEF Holds, CloseTarget
<1>w. wiped' \in BOOLEAN /\ caps' \in Caps \cup {None} /\ bypass' \in BOOLEAN
    BY <1>a, <1>c, <1>e, <1>i DEF CloseTarget, DesktopTyped, DesktopTypeOK
<1>s. shown' = shown
    BY <1>a
<1> HIDE DEF answered, gone, h, m
<1>j. /\ InHost' \subseteq InHost /\ Behind(toHost', AskKind) \subseteq Behind(toHost, AskKind)
      /\ Behind(toHost', QuestionKinds) \subseteq Behind(toHost, QuestionKinds)
      /\ \A c \in InChild' : c \in InChild \/ c = m
      /\ \A c \in Behind(toChild', AnswerKind) : c \in Behind(toChild, AnswerKind) \/ c = m
    BY <1>p, <1>q DEF HeardFrom, PostedTo
<1>o. Ends(h) => ~Seated /\ \A c \in InChild : c.k \in AnswerKind => exec.gen # active
    <2>1. ASSUME Ends(h), NEW c \in InChild, c.k \in AnswerKind, exec.gen = active
          PROVE  Seated \/ (active # 0 /\ exec.phase = "asked")
        <3>1. exec.phase \in {"asked", "replacing"} /\ exec.gen # 0
            BY <1>i, <2>1 DEF OneQuestion, ExecFits, NoExec
        <3> QED
            BY <1>i, <2>1, <3>1 DEF ExecFits, Seated
    <2> QED
        BY <1>i, <1>q, <2>1 DEF EndingsFit
<1>t. DesktopTyped'
    BY <1>i, <1>b, <1>c, <1>k, <1>p, <1>q, <1>s, <1>w
       DEF DesktopTyped, DesktopTypeOK, QueuesTyped, ReqsKept, ReqType
<1>1. ReqsUsed'
    BY <1>i, <1>k DEF ReqsUsed, ReqsKept
<1>2. RequestsFit'
    <2>1. \A s \in Reqs : req'[s].kind = req[s].kind /\ req'[s].sess = req[s].sess
        BY <1>k DEF ReqsKept
    <2>2. /\ exec # NoExec => exec.req \in Reqs
          /\ \A c \in InChild : c.k \in {"activate", "deactivate"} => c.id \in Reqs
          /\ \A k \in InHost : k.k = "result" => k.id \in Reqs
        BY <1>n DEF MessagesFit
    <2> QED
        BY <1>b, <1>i, <1>j, <1>m, <2>1, <2>2 DEF RequestsFit
<1>3. OneQuestion'
    BY <1>i, <1>b, <1>j, <1>m, <1>p DEF OneQuestion
<1>4. ExecFits'
    BY <1>i, <1>b DEF ExecFits
<1>5. HoldsFit'
    BY <1>i, <1>b, <1>k DEF HoldsFit, Switching, ReqsKept
<1>6. GrantsFit'
    BY <1>i, <1>b DEF GrantsFit, Seated
<1>7. DocumentsFit'
    BY <1>i, <1>b, <1>j, <1>m DEF DocumentsFit
<1>8. NotBooted'
    BY <1>b, <1>c, <1>e, <1>i, <1>q DEF NotBooted, HeardFrom
<1>9. EndingsFit'
    BY <1>i, <1>n, <1>b, <1>j, <1>k, <1>m
       DEF EndingsFit, Ends, Seated, ReqsKept, MessagesFit
<1>10. SeatFits'
    BY <1>i, <1>b, <1>c, <1>j, <1>m, <1>o DEF SeatFits, Seated
<1>11. TrackedFits'
    BY <1>i, <1>b, <1>m, <1>p DEF TrackedFits, Tracked, PostedTo
<1>12. ToldFits'
    BY <1>i, <1>b, <1>q DEF ToldFits, Now, Changing, HeardFrom
<1>13. CapsFit'
    <2>1. ASSUME open, \A k \in InHost' : k.k \notin ReportKinds
          PROVE  h.cap \in {None, Now} /\ (~Changing => h.cap = Now)
        BY <1>e, <1>i, <1>q, <2>1 DEF ToldFits, HeardFrom
    <2>2. Now # None => Seated /\ Now = seat.cap
        BY DEF Now, SeatCap, Seated
    <2>3. Now # None => Now[2] >= win /\ (quit = "no" => target # "none")
        BY <1>i, <2>2 DEF SeatFits
    <2>4. CASE target' = "none" /\ caps' = None /\ Ends(h)
        BY <1>b, <1>o, <2>2, <2>4 DEF CapsFit, Now
    <2> QED
        BY <1>b, <1>c, <1>i, <2>1, <2>2, <2>3, <2>4 DEF CapsFit, Now, Changing, SeatFits
<1>14. ShownFits'
    BY <1>i, <1>b, <1>e, <1>j, <1>m, <1>q, <1>s DEF ShownFits, Seated, HeardFrom
<1>15. ClicksFit'
    BY <1>i, <1>b, <1>j, <1>m DEF ClicksFit
<1> QED
    BY <1>t, <1>1, <1>2, <1>3, <1>4, <1>5, <1>6, <1>7, <1>8, <1>9, <1>10, <1>11, <1>12,
       <1>13, <1>14, <1>15
       DEF DesktopInv

\* The question for the document shown is answered at once.
LEMMA HearAskKeeps ==
    ASSUME DesktopInv, Hear, Head(toHost).k = "ask"
    PROVE  DesktopInv'
<1>i. /\ DesktopTyped /\ ReqsUsed /\ RequestsFit /\ OneQuestion /\ ExecFits /\ HoldsFit
      /\ GrantsFit /\ DocumentsFit /\ NotBooted /\ EndingsFit /\ SeatFits /\ TrackedFits
      /\ ToldFits /\ CapsFit /\ ShownFits /\ ClicksFit
    BY DEF DesktopInv
<1>n. MessagesFit
    BY MessagesTyped
<1> DEFINE h == Head(toHost)
<1>q. /\ toHost' \in Seq(ToHostMsg) /\ HeardFrom(toHost', toHost, h)
      /\ h \in InHost /\ h \in ToHostMsg
    BY <1>i, HearFacts DEF Hear, HeardFrom
<1>b. /\ ~lost
      /\ UNCHANGED <<lost, doc, win, quit, open, faults>>
      /\ UNCHANGED <<child, active, nextGen, exec, ending, ousted, seat, grants, latest, lease>>
    BY DEF Hear, childVars
<1> DEFINE d == IF target = "none" \/ doc < win THEN 0 ELSE doc
           m == [k |-> "observed", doc |-> d, win |-> win]
<1>s. UNCHANGED <<req, shown, caps, wiped, closing, target, bypass, load>>
    BY DEF Hear, HearAsk
<1>f. target # "absent" /\ h.k = "ask"
    BY <1>i, <1>q DEF NotBooted
<1>d. /\ d \in {0, doc} /\ d \in Docs0
      /\ d # 0 => target \in {"live", "destroyed"} /\ doc >= win
    BY <1>i, <1>n, <1>f, DesktopAssumption DEF MessagesFit, DesktopTyped, DesktopTypeOK, Docs0
<1>m. m \in ToChildMsg /\ m.k = "observed" /\ m.doc = d /\ m.win = win
    BY <1>i, <1>d, ChildMsgTyped DEF DesktopTyped, DesktopTypeOK
<1>p. toChild' \in Seq(ToChildMsg) /\ PostedTo(toChild', toChild, m)
    BY <1>i, <1>m, PostFacts DEF Hear, HearAsk, Identity
<1>r. exec.phase = "asked" /\ load = "none"
    BY <1>i, <1>q DEF OneQuestion
<1> HIDE DEF m, d, h
<1>t. DesktopTyped'
    BY <1>i, <1>b, <1>p, <1>q, <1>s DEF DesktopTyped, DesktopTypeOK, QueuesTyped
<1>1. ReqsUsed'
    BY <1>i, <1>b, <1>s DEF ReqsUsed
<1>2. RequestsFit'
    BY <1>i, <1>b, <1>m, <1>p, <1>q, <1>s DEF RequestsFit, HeardFrom, PostedTo
<1>3. OneQuestion'
    BY <1>i, <1>b, <1>f, <1>p, <1>q, <1>s DEF OneQuestion, HeardFrom, PostedTo
<1>4. ExecFits'
    BY <1>i, <1>b, <1>s DEF ExecFits
<1>5. HoldsFit'
    BY <1>i, <1>b, <1>s DEF HoldsFit, Switching
<1>6. GrantsFit'
    BY <1>i, <1>b, <1>s DEF GrantsFit, Seated
<1>7. DocumentsFit'
    BY <1>i, <1>n, <1>b, <1>d, <1>m, <1>p DEF DocumentsFit, MessagesFit, PostedTo
<1>8. NotBooted'
    BY <1>i, <1>b, <1>f, <1>q, <1>s DEF NotBooted, HeardFrom
<1>9. EndingsFit'
    BY <1>i, <1>b, <1>f, <1>q, <1>r, <1>s DEF EndingsFit, Ends, Seated, HeardFrom
<1>10. SeatFits'
    BY <1>i, <1>b, <1>d, <1>m, <1>p, <1>s DEF SeatFits, Seated, PostedTo
<1>11. TrackedFits'
    BY <1>i, <1>b, <1>d, <1>m, <1>p DEF TrackedFits, Tracked, PostedTo
<1>12. ToldFits'
    BY <1>i, <1>b, <1>q DEF ToldFits, Now, Changing, HeardFrom
<1>13. CapsFit'
    BY <1>i, <1>b, <1>f, <1>m, <1>p, <1>q, <1>s
       DEF CapsFit, Now, Changing, LossPending, HeardFrom, PostedTo
<1>14. ShownFits'
    BY <1>i, <1>b, <1>f, <1>q, <1>s DEF ShownFits, Seated, HeardFrom
<1>15. ClicksFit'
    BY <1>i, <1>b, <1>m, <1>p DEF ClicksFit, PostedTo
<1> QED
    BY <1>t, <1>1, <1>2, <1>3, <1>4, <1>5, <1>6, <1>7, <1>8, <1>9, <1>10, <1>11, <1>12,
       <1>13, <1>14, <1>15
       DEF DesktopInv

\* The project origin is loaded, or the answer is none.
LEMMA HearReplaceKeeps ==
    ASSUME DesktopInv, Hear, Head(toHost).k = "replace"
    PROVE  DesktopInv'
<1>i. /\ DesktopTyped /\ ReqsUsed /\ RequestsFit /\ OneQuestion /\ ExecFits /\ HoldsFit
      /\ GrantsFit /\ DocumentsFit /\ NotBooted /\ EndingsFit /\ SeatFits /\ TrackedFits
      /\ ToldFits /\ CapsFit /\ ShownFits /\ ClicksFit
    BY DEF DesktopInv
<1>n. MessagesFit
    BY MessagesTyped
<1> DEFINE h == Head(toHost)
<1>q. /\ toHost' \in Seq(ToHostMsg) /\ HeardFrom(toHost', toHost, h)
      /\ h \in InHost /\ h \in ToHostMsg
    BY <1>i, HearFacts DEF Hear, HeardFrom
<1>b. /\ ~lost
      /\ UNCHANGED <<lost, doc, win, quit, open, faults>>
      /\ UNCHANGED <<child, active, nextGen, exec, ending, ousted, seat, grants, latest, lease>>
    BY DEF Hear, childVars
<1> DEFINE m == [k |-> "observed", doc |-> 0, win |-> win]
<1>s. UNCHANGED <<req, shown, caps, wiped, closing, target, bypass>>
    BY DEF Hear, HearReplace
<1>f. target # "absent" /\ h.k = "replace"
    BY <1>i, <1>q DEF NotBooted
<1>m. m \in ToChildMsg /\ m.k = "observed" /\ m.doc = 0 /\ m.win = win
    BY <1>i, ChildMsgTyped, DesktopAssumption DEF Docs0, DesktopTyped, DesktopTypeOK
<1>p. /\ toChild' \in Seq(ToChildMsg)
      /\ \/ load' = "loading" /\ toChild' = toChild
         \/ load' = load /\ PostedTo(toChild', toChild, m)
    BY <1>i, <1>m, PostFacts DEF Hear, HearReplace, Identity, DesktopTyped, QueuesTyped
<1>r. exec.phase = "replacing" /\ load = "none"
    BY <1>i, <1>q DEF OneQuestion
<1> HIDE DEF m, h
<1>t. DesktopTyped'
    BY <1>i, <1>b, <1>p, <1>q, <1>s DEF DesktopTyped, DesktopTypeOK, QueuesTyped
<1>1. ReqsUsed'
    BY <1>i, <1>b, <1>s DEF ReqsUsed
<1>2. RequestsFit'
    BY <1>i, <1>b, <1>m, <1>p, <1>q, <1>s DEF RequestsFit, HeardFrom, PostedTo
<1>3. OneQuestion'
    BY <1>i, <1>b, <1>f, <1>p, <1>q, <1>r DEF OneQuestion, HeardFrom, PostedTo
<1>4. ExecFits'
    BY <1>i, <1>b, <1>s DEF ExecFits
<1>5. HoldsFit'
    BY <1>i, <1>b, <1>s DEF HoldsFit, Switching
<1>6. GrantsFit'
    BY <1>i, <1>b, <1>s DEF GrantsFit, Seated
<1>7. DocumentsFit'
    BY <1>i, <1>n, <1>b, <1>m, <1>p DEF DocumentsFit, MessagesFit, PostedTo
<1>8. NotBooted'
    BY <1>i, <1>b, <1>f, <1>q, <1>s DEF NotBooted, HeardFrom
<1>9. EndingsFit'
    BY <1>i, <1>b, <1>q, <1>r, <1>s DEF EndingsFit, Ends, Seated, HeardFrom
<1>10. SeatFits'
    BY <1>i, <1>b, <1>m, <1>p, <1>s DEF SeatFits, Seated, PostedTo
<1>11. TrackedFits'
    BY <1>i, <1>b, <1>m, <1>p DEF TrackedFits, Tracked, PostedTo
<1>12. ToldFits'
    BY <1>i, <1>b, <1>q DEF ToldFits, Now, Changing, HeardFrom
<1>13. CapsFit'
    BY <1>i, <1>b, <1>f, <1>q, <1>r, <1>s DEF CapsFit, Now, Changing, LossPending, HeardFrom
<1>14. ShownFits'
    BY <1>i, <1>b, <1>f, <1>q, <1>r, <1>s DEF ShownFits, Seated, HeardFrom
<1>15. ClicksFit'
    BY <1>i, <1>b, <1>m, <1>p, <1>r DEF ClicksFit, PostedTo
<1> QED
    BY <1>t, <1>1, <1>2, <1>3, <1>4, <1>5, <1>6, <1>7, <1>8, <1>9, <1>10, <1>11, <1>12,
       <1>13, <1>14, <1>15
       DEF DesktopInv

----------------------------------------------------------------------------
(* Every step of the desktop keeps the invariant: the child.               *)

\* The child boots and reports it.
LEMMA ChildBootsKeeps ==
    ASSUME DesktopInv, ChildBoots
    PROVE  DesktopInv'
<1>i. /\ DesktopTyped /\ ReqsUsed /\ RequestsFit /\ OneQuestion /\ ExecFits /\ HoldsFit
      /\ GrantsFit /\ DocumentsFit /\ NotBooted /\ EndingsFit /\ SeatFits /\ TrackedFits
      /\ ToldFits /\ CapsFit /\ ShownFits /\ ClicksFit
    BY DEF DesktopInv
<1>n. MessagesFit
    BY MessagesTyped
<1> DEFINE m == [k |-> "booted"]
<1>a. /\ child = "boot" /\ open /\ child' = "serving"
      /\ UNCHANGED <<lost, shown, req, quit, caps, wiped, closing, target, bypass, doc, win, load>>
      /\ UNCHANGED <<toChild, open, faults>>
      /\ UNCHANGED <<active, nextGen, exec, ending, ousted, seat, grants, latest, lease>>
    BY DEF ChildBoots, hostVars, userVars, frameVars
<1>q. toHost' \in Seq(ToHostMsg) /\ ToldTo(toHost', toHost, m) /\ m.k = "booted"
    BY <1>i, HostMsgTyped, TellFacts DEF ChildBoots, DesktopTyped, QueuesTyped
<1> HIDE DEF m
<1>e. /\ target = "absent" /\ toHost = <<>>
      /\ active = 0 /\ nextGen = 0 /\ exec = NoExec /\ grants = {} /\ seat = NoSeat
      /\ InChild = {} /\ load = "none" /\ shown = 0 /\ caps = None /\ closing = 0
    BY <1>a, <1>i DEF NotBooted
<1>f. /\ InHost' = {m} /\ Len(toHost') = 1
      /\ Last(toHost', ReportKinds) = {} /\ Last(toHost', StateKind) = {}
      /\ Behind(toHost', QuestionKinds) = {} /\ Behind(toHost', AskKind) = {}
    <2>1. Msgs(toHost) = {} /\ Len(toHost) = 0
        BY <1>e DEF Msgs, Pos
    <2>2. \A K : Last(toHost, K) = {} /\ Behind(toHost, K) = {}
        BY <1>e DEF Last, LastPos, Behind, BehindPos, Pos
    <2> QED
        BY <1>a, <1>q, <2>1, <2>2 DEF ToldTo
<1>t. DesktopTyped'
    BY <1>i, <1>a, <1>q DEF DesktopTyped, DesktopTypeOK, QueuesTyped
<1>1. ReqsUsed'
    BY <1>i, <1>a DEF ReqsUsed
<1>2. RequestsFit'
    BY <1>i, <1>a, <1>e, <1>f, <1>q DEF RequestsFit
<1>3. OneQuestion'
    BY <1>i, <1>a, <1>e, <1>f, <1>q DEF OneQuestion
<1>4. ExecFits'
    BY <1>i, <1>a DEF ExecFits
<1>5. HoldsFit'
    BY <1>i, <1>a DEF HoldsFit, Switching
<1>6. GrantsFit'
    BY <1>i, <1>a DEF GrantsFit, Seated
<1>7. DocumentsFit'
    BY <1>i, <1>a DEF DocumentsFit
<1>8. NotBooted'
    BY <1>i, <1>a, <1>e, <1>f, <1>q DEF NotBooted
<1>9. EndingsFit'
    BY <1>a, <1>f, <1>q DEF EndingsFit, Ends, Seated
<1>10. SeatFits'
    BY <1>i, <1>a DEF SeatFits, Seated
<1>11. TrackedFits'
    BY <1>i, <1>a DEF TrackedFits, Tracked
<1>12. ToldFits'
    BY <1>f DEF ToldFits, Now, Changing
<1>13. CapsFit'
    BY <1>a, <1>e DEF CapsFit, Now, Changing, LossPending, SeatCap, NoSeat
<1>14. ShownFits'
    BY <1>i, <1>a, <1>e, <1>f, <1>q DEF ShownFits, Seated
<1>15. ClicksFit'
    BY <1>i, <1>a DEF ClicksFit
<1> QED
    BY <1>t, <1>1, <1>2, <1>3, <1>4, <1>5, <1>6, <1>7, <1>8, <1>9, <1>10, <1>11, <1>12,
       <1>13, <1>14, <1>15
       DEF DesktopInv

\* The child observes a navigation.
LEMMA ObserveNavigationKeeps ==
    ASSUME DesktopInv, ObserveNavigation
    PROVE  DesktopInv'
<1>i. /\ DesktopTyped /\ ReqsUsed /\ RequestsFit /\ OneQuestion /\ ExecFits /\ HoldsFit
      /\ GrantsFit /\ DocumentsFit /\ NotBooted /\ EndingsFit /\ SeatFits /\ TrackedFits
      /\ ToldFits /\ CapsFit /\ ShownFits /\ ClicksFit
    BY DEF DesktopInv
<1>n. MessagesFit
    BY MessagesTyped
<1> DEFINE c == Head(toChild)
<1>a. /\ UNCHANGED <<lost, shown, req, quit, caps, wiped, closing, target, bypass, doc, win, load>>
      /\ UNCHANGED <<toHost, open, child, active, nextGen, exec, ending, ousted, seat, lease, faults>>
    BY DEF ObserveNavigation, hostVars, userVars, frameVars
<1>q. toChild' \in Seq(ToChildMsg) /\ TakenFrom(toChild', toChild, c) /\ c \in InChild
    BY <1>i, TakeFacts DEF ObserveNavigation, Receive, TakenFrom
<1>b. /\ c.k = "navigated" /\ latest' = Newer(c.doc)
      /\ grants' = Swept(grants, Newer(c.doc), c.win)
    BY DEF ObserveNavigation, Receive
<1> HIDE DEF c
<1>d. /\ c.doc <= doc /\ c.win <= win /\ c.doc \in Docs0 /\ c.doc \in Nat /\ c.win \in Nat
    BY <1>b, <1>i, <1>n, <1>q DEF DocumentsFit, MessagesFit
<1>l. /\ latest' \in Docs0 /\ latest' \in Nat /\ latest <= latest' /\ latest' <= doc /\ c.doc <= latest'
    BY <1>b, <1>d, <1>i, <1>n DEF Newer, DocumentsFit, MessagesFit, DesktopTyped, DesktopTypeOK
<1>s. grants' \subseteq grants /\ \A x \in grants' : x[2] = latest' \/ x[2] < win
    BY <1>b, <1>d, <1>n DEF Swept, MessagesFit
<1>g. /\ ReqsUsed' /\ RequestsFit' /\ OneQuestion' /\ ExecFits' /\ HoldsFit' /\ NotBooted'
      /\ EndingsFit' /\ SeatFits' /\ ToldFits' /\ ShownFits' /\ ClicksFit'
    BY <1>a, <1>q, <1>s, ChildObserves
<1>t. DesktopTyped'
    BY <1>i, <1>a, <1>l, <1>q, <1>s DEF DesktopTyped, DesktopTypeOK, QueuesTyped
<1>1. GrantsFit'
    BY <1>i, <1>a, <1>s DEF GrantsFit, Seated
<1>2. DocumentsFit'
    BY <1>i, <1>a, <1>l, <1>q DEF DocumentsFit, TakenFrom
<1>3. TrackedFits'
    <2>1. Tracked => Tracked'
        BY <1>a, <1>b, <1>i, <1>l, <1>n, <1>q DEF Tracked, TakenFrom, MessagesFit, DocumentsFit
    <2> QED
        BY <1>a, <1>i, <1>q, <1>s, <2>1 DEF TrackedFits, TakenFrom
<1>4. CapsFit'
    BY <1>i, <1>a, <1>b, <1>q, <1>s DEF CapsFit, Now, Changing, LossPending, TakenFrom
<1> QED
    BY <1>t, <1>g, <1>1, <1>2, <1>3, <1>4 DEF DesktopInv

\* The child observes a lost renderer, a destroyed window or a revocation.
LEMMA ObserveLossKeeps ==
    ASSUME DesktopInv, ObserveLoss
    PROVE  DesktopInv'
<1>i. /\ DesktopTyped /\ ReqsUsed /\ RequestsFit /\ OneQuestion /\ ExecFits /\ HoldsFit
      /\ GrantsFit /\ DocumentsFit /\ NotBooted /\ EndingsFit /\ SeatFits /\ TrackedFits
      /\ ToldFits /\ CapsFit /\ ShownFits /\ ClicksFit
    BY DEF DesktopInv
<1>n. MessagesFit
    BY MessagesTyped
<1> DEFINE c == Head(toChild)
<1>a. /\ UNCHANGED <<lost, shown, req, quit, caps, wiped, closing, target, bypass, doc, win, load>>
      /\ UNCHANGED <<toHost, open, child, active, nextGen, exec, ending, ousted, seat, latest>>
      /\ UNCHANGED <<lease, faults>>
    BY DEF ObserveLoss, hostVars, userVars, frameVars
<1>q. toChild' \in Seq(ToChildMsg) /\ TakenFrom(toChild', toChild, c) /\ c \in InChild
    BY <1>i, TakeFacts DEF ObserveLoss, Receive, TakenFrom
<1>b. \/ /\ c.k \in {"rendererLost", "targetDestroyed"}
         /\ grants' = {x \in grants : x[2] < c.win}
      \/ c.k = "revoked" /\ grants' = grants \ {c.cap}
    BY DEF ObserveLoss, Receive
<1> HIDE DEF c
<1>s. grants' \subseteq grants
    BY <1>b
<1>g. /\ ReqsUsed' /\ RequestsFit' /\ OneQuestion' /\ ExecFits' /\ HoldsFit' /\ NotBooted'
      /\ EndingsFit' /\ SeatFits' /\ ToldFits' /\ ShownFits' /\ ClicksFit'
    BY <1>a, <1>q, <1>s, ChildObserves
<1>t. DesktopTyped'
    BY <1>i, <1>a, <1>q, <1>s DEF DesktopTyped, DesktopTypeOK, QueuesTyped
<1>1. GrantsFit'
    BY <1>i, <1>a, <1>s DEF GrantsFit, Seated
<1>2. DocumentsFit'
    BY <1>i, <1>a, <1>q DEF DocumentsFit, TakenFrom
<1>3. TrackedFits'
    BY <1>i, <1>a, <1>b, <1>q, <1>s DEF TrackedFits, Tracked, TakenFrom
<1>4. CapsFit'
    <2>1. ASSUME Now # None, Now \in grants'
          PROVE  LossPending => LossPending'
        <3>1. Seated /\ Now = seat.cap
            BY <2>1 DEF Now, SeatCap, Seated
        <3>2. Now[2] >= win /\ Now[2] \in Nat
            BY <1>i, <1>n, <1>s, <2>1, <3>1 DEF SeatFits, MessagesFit
        <3>3. c.k = "revoked" /\ c.cap # Now
            BY <1>b, <1>i, <1>n, <1>q, <2>1, <3>2 DEF DocumentsFit, MessagesFit
        <3> QED
            BY <1>a, <1>q, <3>3 DEF LossPending, Now, TakenFrom
    <2> QED
        BY <1>a, <1>i, <1>s, <2>1 DEF CapsFit, Now, Changing
<1> QED
    BY <1>t, <1>g, <1>1, <1>2, <1>3, <1>4 DEF DesktopInv

\* A request to activate begins a candidate.
LEMMA ActivationBegins ==
    ASSUME DesktopInv, StartActivation, nextGen' = nextGen + 1
    PROVE  DesktopInv'
<1>i. /\ DesktopTyped /\ ReqsUsed /\ RequestsFit /\ OneQuestion /\ ExecFits /\ HoldsFit
      /\ GrantsFit /\ DocumentsFit /\ NotBooted /\ EndingsFit /\ SeatFits /\ TrackedFits
      /\ ToldFits /\ CapsFit /\ ShownFits /\ ClicksFit
    BY DEF DesktopInv
<1>n. MessagesFit
    BY MessagesTyped
<1> DEFINE c == Head(toChild)
           s == [k |-> "state", gen |-> active, cap |-> SeatCap(active, seat)]
<1>a. /\ UNCHANGED <<lost, shown, req, quit, caps, wiped, closing, target, bypass, doc, win, load>>
      /\ UNCHANGED <<open, child, active, ending, ousted, seat, grants, latest, lease, faults>>
      /\ child = "serving"
    BY DEF StartActivation, Receive, hostVars, userVars, frameVars
<1>q. toChild' \in Seq(ToChildMsg) /\ TakenFrom(toChild', toChild, c) /\ c \in InChild
    BY <1>i, TakeFacts DEF StartActivation, Receive, TakenFrom
<1>b. /\ c.k = "activate" /\ exec = NoExec /\ nextGen < MaxGen /\ nextGen \in Nat
      /\ nextGen' = nextGen + 1
      /\ exec' = [req |-> c.id, gen |-> nextGen + 1, phase |-> "staging"]
      /\ toHost' = Notify(toHost, active, seat)
    <2>1. nextGen \in Nat /\ nextGen' # nextGen
        BY <1>n DEF MessagesFit
    <2> QED
        BY <2>1 DEF StartActivation, Receive
<1>p. toHost' \in Seq(ToHostMsg) /\ ToldTo(toHost', toHost, s) /\ s.k = "state"
      /\ s.gen = active /\ s.cap = Now
    BY <1>b, <1>i, NotifyFacts DEF DesktopTyped, DesktopTypeOK, QueuesTyped, Now
<1> HIDE DEF c, s
<1>d. c.id \in Reqs /\ req[c.id].kind = "activate"
    BY <1>b, <1>i, <1>n, <1>q DEF MessagesFit, RequestsFit
<1>e. /\ exec'.req = c.id /\ exec'.gen = nextGen + 1 /\ exec'.phase = "staging" /\ exec' # NoExec
      /\ exec' \in ExecType /\ nextGen' \in Gens0
    BY <1>b, <1>d, DesktopAssumption DEF ExecType, NoExec, Reqs, Gens0
<1>f. /\ exec.phase = "none" /\ load = "none"
      /\ \A h \in InHost : h.k \notin QuestionKinds
      /\ \A x \in InChild : x.k \notin AnswerKind
    BY <1>b, <1>i DEF OneQuestion, NoExec
<1>z. target # "absent"
    BY <1>i, <1>q DEF NotBooted
<1>j. InChild' \subseteq InChild /\ \A h \in InHost' : h \in InHost \/ h = s
    BY <1>p, <1>q DEF TakenFrom, ToldTo
<1>t. DesktopTyped'
    BY <1>i, <1>a, <1>e, <1>p, <1>q DEF DesktopTyped, DesktopTypeOK, QueuesTyped, ExecType
<1>1. ReqsUsed'
    BY <1>i, <1>a DEF ReqsUsed
<1>2. RequestsFit'
    BY <1>i, <1>a, <1>d, <1>e, <1>j, <1>p DEF RequestsFit
<1>3. OneQuestion'
    <2>1. \A h \in Behind(toHost', QuestionKinds) : h \in InHost \/ h = s
        BY <1>n, <1>p DEF ToldTo, MessagesFit
    <2> QED
        BY <1>a, <1>e, <1>f, <1>j, <1>n, <1>p, <1>q, <2>1 DEF OneQuestion, TakenFrom, MessagesFit
<1>4. ExecFits'
    <2>1. /\ nextGen' = nextGen + 1 /\ nextGen' \in Nat
          /\ active <= nextGen /\ seat.gen <= nextGen
          /\ active \in Nat /\ seat.gen \in Nat
        BY <1>b, <1>i, <1>n DEF ExecFits, MessagesFit
    <2>2. exec'.gen \in 1..nextGen' /\ exec'.gen # active /\ exec'.gen # seat.gen
        BY <1>b, <1>e, <2>1
    <2> QED
        BY <1>a, <1>b, <1>d, <1>e, <1>f, <1>i, <2>1, <2>2 DEF ExecFits
<1>5. HoldsFit'
    BY <1>i, <1>a, <1>e, <1>f DEF HoldsFit, Switching
<1>6. GrantsFit'
    BY <1>i, <1>n, <1>a, <1>b, <1>e, <1>f DEF GrantsFit, Seated, MessagesFit
<1>7. DocumentsFit'
    BY <1>i, <1>a, <1>j DEF DocumentsFit
<1>8. NotBooted'
    BY <1>i, <1>a, <1>p, <1>z, <1>j DEF NotBooted
<1>9. EndingsFit'
    BY <1>i, <1>a, <1>e, <1>j, <1>p DEF EndingsFit, Ends, Seated
<1>10. SeatFits'
    BY <1>i, <1>a, <1>f, <1>j DEF SeatFits, Seated
<1>11. TrackedFits'
    BY <1>i, <1>a, <1>b, <1>f, <1>j, <1>q DEF TrackedFits, Tracked, TakenFrom
<1>12. ToldFits'
    BY <1>a, <1>e, <1>f, <1>p DEF ToldFits, Now, Changing, ToldTo
<1>13. CapsFit'
    BY <1>a, <1>p DEF CapsFit, Now, Changing, LossPending, ToldTo
<1>14. ShownFits'
    BY <1>i, <1>a, <1>e, <1>p, <1>j DEF ShownFits, Seated, ToldTo
<1>15. ClicksFit'
    BY <1>i, <1>a, <1>e, <1>j DEF ClicksFit
<1> QED
    BY <1>t, <1>1, <1>2, <1>3, <1>4, <1>5, <1>6, <1>7, <1>8, <1>9, <1>10, <1>11, <1>12,
       <1>13, <1>14, <1>15
       DEF DesktopInv

\* A request to activate is refused or is a no-op; one to deactivate is refused.
LEMMA RequestAnswered ==
    ASSUME DesktopInv, StartActivation \/ StartDeactivation,
           UNCHANGED <<nextGen, exec, ending>>
    PROVE  DesktopInv'
<1>i. /\ DesktopTyped /\ ReqsUsed /\ RequestsFit /\ OneQuestion /\ ExecFits /\ HoldsFit
      /\ GrantsFit /\ DocumentsFit /\ NotBooted /\ EndingsFit /\ SeatFits /\ TrackedFits
      /\ ToldFits /\ CapsFit /\ ShownFits /\ ClicksFit
    BY DEF DesktopInv
<1>n. MessagesFit
    BY MessagesTyped
<1> DEFINE c == Head(toChild)
<1>a. /\ UNCHANGED <<lost, shown, req, quit, caps, wiped, closing, target, bypass, doc, win, load>>
      /\ UNCHANGED <<open, child, active, ousted, seat, grants, latest, lease, faults>>
      /\ child = "serving"
    BY DEF StartActivation, StartDeactivation, Receive, hostVars, userVars, frameVars
<1>q. toChild' \in Seq(ToChildMsg) /\ TakenFrom(toChild', toChild, c) /\ c \in InChild
    BY <1>i, TakeFacts DEF StartActivation, StartDeactivation, Receive, TakenFrom
<1>d. c.k \in {"activate", "deactivate"} /\ c.id \in Reqs /\ req[c.id].kind = c.k
    BY <1>i, <1>n, <1>q DEF MessagesFit, RequestsFit, StartActivation, StartDeactivation, Receive
<1>b. \E ok \in BOOLEAN : /\ toHost' = Result(toHost, c.id, ok, active, seat)
                          /\ c.k = "deactivate" => ~ok
    <2>1. CASE StartActivation
        <3>1. nextGen' # nextGen + 1
            BY <1>n DEF MessagesFit
        <3>2. /\ c.k = "activate"
              /\ \/ toHost' = Result(toHost, c.id, FALSE, active, seat)
                 \/ toHost' = Result(toHost, c.id, TRUE, active, seat)
            BY <2>1, <3>1 DEF StartActivation, Receive
        <3> QED
            BY <3>2
    <2>2. CASE StartDeactivation
        <3>1. Seated /\ ~Fenced(active) => ending' # ending
            <4> SUFFICES ASSUME Seated, ~Fenced(active), ending' = ending PROVE FALSE
                OBVIOUS
            <4>1. ending' = Fence(c.id)
                BY <2>2 DEF StartDeactivation
            <4>2. ending[c.id].phase = "draining" /\ ending[c.id].gen = active
                BY <1>d, <1>i, <4>1 DEF Fence, Seated, DesktopTyped, DesktopTypeOK
            <4> QED
                BY <1>d, <4>2 DEF Fenced
        <3> QED
            BY <2>2, <3>1 DEF StartDeactivation
    <2> QED
        BY <2>1, <2>2
<1> HIDE DEF c
<1>o. PICK ok \in BOOLEAN : /\ toHost' = Result(toHost, c.id, ok, active, seat)
                            /\ c.k = "deactivate" => ~ok
    BY <1>b
<1> DEFINE m == [k |-> "result", id |-> c.id, ok |-> ok, cap |-> SeatCap(active, seat)]
<1>p. /\ toHost' \in Seq(ToHostMsg) /\ ToldTo(toHost', toHost, m)
      /\ m.k = "result" /\ m.id = c.id /\ m.ok = ok /\ m.cap = Now
    BY <1>d, <1>i, <1>o, ResultFacts DEF DesktopTyped, DesktopTypeOK, QueuesTyped, Now
<1> HIDE DEF m
<1>e. ~Ends(m) /\ req[m.id].kind # "none"
    BY <1>d, <1>o, <1>p DEF Ends
<1>z. target # "absent"
    BY <1>i, <1>q DEF NotBooted
<1>j. InChild' \subseteq InChild /\ \A h \in InHost' : h \in InHost \/ h = m
    BY <1>p, <1>q DEF TakenFrom, ToldTo
<1>t. DesktopTyped'
    BY <1>i, <1>a, <1>p, <1>q DEF DesktopTyped, DesktopTypeOK, QueuesTyped
<1>1. ReqsUsed'
    BY <1>i, <1>a DEF ReqsUsed
<1>2. RequestsFit'
    BY <1>i, <1>a, <1>e, <1>j, <1>p DEF RequestsFit
<1>3. OneQuestion'
    BY <1>i, <1>a, <1>j, <1>p, <1>q DEF OneQuestion, TakenFrom, ToldTo
<1>4. ExecFits'
    BY <1>i, <1>a DEF ExecFits
<1>5. HoldsFit'
    BY <1>i, <1>a DEF HoldsFit, Switching
<1>6. GrantsFit'
    BY <1>i, <1>a DEF GrantsFit, Seated
<1>7. DocumentsFit'
    BY <1>i, <1>a, <1>j DEF DocumentsFit
<1>8. NotBooted'
    BY <1>i, <1>a, <1>p, <1>z, <1>j DEF NotBooted
<1>9. EndingsFit'
    BY <1>i, <1>a, <1>e, <1>j, <1>p DEF EndingsFit, Ends, Seated, ToldTo
<1>10. SeatFits'
    BY <1>i, <1>a, <1>j DEF SeatFits, Seated
<1>11. TrackedFits'
    BY <1>i, <1>a, <1>d, <1>j, <1>q DEF TrackedFits, Tracked, TakenFrom
<1>12. ToldFits'
    BY <1>i, <1>a, <1>p DEF ToldFits, Now, Changing, ToldTo
<1>13. CapsFit'
    BY <1>a, <1>p DEF CapsFit, Now, Changing, LossPending, ToldTo
<1>14. ShownFits'
    BY <1>i, <1>a, <1>j, <1>p DEF ShownFits, Seated, ToldTo
<1>15. ClicksFit'
    BY <1>i, <1>a, <1>j, <1>q DEF ClicksFit, TakenFrom
<1> QED
    BY <1>t, <1>1, <1>2, <1>3, <1>4, <1>5, <1>6, <1>7, <1>8, <1>9, <1>10, <1>11, <1>12,
       <1>13, <1>14, <1>15
       DEF DesktopInv

\* The candidate is ready beside a seated session, whose drain begins.
LEMMA StartSwitchKeeps ==
    ASSUME DesktopInv, StartSwitch
    PROVE  DesktopInv'
<1>i. /\ DesktopTyped /\ ReqsUsed /\ RequestsFit /\ OneQuestion /\ ExecFits /\ HoldsFit
      /\ GrantsFit /\ DocumentsFit /\ NotBooted /\ EndingsFit /\ SeatFits /\ TrackedFits
      /\ ToldFits /\ CapsFit /\ ShownFits /\ ClicksFit
    BY DEF DesktopInv
<1>n. MessagesFit
    BY MessagesTyped
<1> DEFINE e == [gen |-> seat.gen, cap |-> seat.cap, phase |-> "draining"]
<1>a. /\ UNCHANGED <<lost, shown, req, quit, caps, wiped, closing, target, bypass, doc, win, load>>
      /\ UNCHANGED <<open, child, toChild, toHost, active, nextGen, ousted, seat, grants, latest>>
      /\ child = "serving"
    BY DEF StartSwitch, chanVars, hostVars, userVars, frameVars
<1>x. exec.phase = "staging" /\ exec.req \in Reqs
    BY <1>i DEF StartSwitch, ExecFits, NoExec
<1>y. PICK x \in Reqs : x = exec.req
    BY <1>x
<1>b. /\ exec.phase = "staging" /\ Seated /\ ~Fenced(active)
      /\ exec' = [exec EXCEPT !.phase = "switching"]
      /\ ending' = [ending EXCEPT ![x] = e]
      /\ UNCHANGED <<lease, faults>>
    BY <1>y DEF StartSwitch, Fence
<1>c. /\ e.gen = active /\ e.phase = "draining" /\ e \in HoldType
      /\ active \in 1..MaxGen
    BY <1>b, <1>i DEF Seated, HoldType, DesktopTyped, DesktopTypeOK, Gens0
<1> HIDE DEF e
<1>d. x \in Reqs /\ req[x].kind = "activate" /\ exec # NoExec
    BY <1>b, <1>i, <1>y DEF ExecFits, RequestsFit, NoExec
<1>e. /\ exec'.req = x /\ exec'.gen = exec.gen /\ exec'.phase = "switching"
      /\ exec' \in ExecType /\ exec' # NoExec
    BY <1>b, <1>d, <1>i, <1>y DEF ExecType, NoExec, DesktopTyped, DesktopTypeOK
<1>h. /\ ending' \in [Reqs -> HoldType] /\ ending'[x] = e
      /\ \A r \in Reqs : r # x => ending'[r] = ending[r]
    BY <1>b, <1>c, <1>d, <1>i DEF HoldType, DesktopTyped, DesktopTypeOK
<1>f. /\ load = "none" /\ \A h \in InHost : h.k \notin QuestionKinds
      /\ \A m \in InChild : m.k \notin AnswerKind
    BY <1>b, <1>i DEF OneQuestion
<1>z. target # "absent"
    BY <1>b, <1>i DEF NotBooted, NoExec
<1>t. DesktopTyped'
    BY <1>i, <1>a, <1>b, <1>e, <1>h
       DEF DesktopTyped, DesktopTypeOK, QueuesTyped, ExecType, HoldType
<1>1. ReqsUsed'
    BY <1>i, <1>a DEF ReqsUsed
<1>2. RequestsFit'
    BY <1>i, <1>a, <1>d, <1>e DEF RequestsFit
<1>3. OneQuestion'
    BY <1>i, <1>a, <1>e, <1>f DEF OneQuestion
<1>4. ExecFits'
    BY <1>i, <1>a, <1>b, <1>d, <1>e DEF ExecFits
<1>5. HoldsFit'
    <2>1. \A r \in Reqs : ~Switching(r) /\ (Switching(r)' => r = x) /\ Switching(x)'
        BY <1>b, <1>e DEF Switching
    <2>2. \A r \in Reqs : ending[r].phase # "none" => ending[r].gen # active
        BY <1>b DEF Fenced
    <2> QED
        BY <1>a, <1>c, <1>d, <1>e, <1>h, <1>i, <2>1, <2>2 DEF HoldsFit
<1>6. GrantsFit'
    BY <1>i, <1>a, <1>b, <1>e DEF GrantsFit, Seated
<1>7. DocumentsFit'
    BY <1>i, <1>a DEF DocumentsFit
<1>8. NotBooted'
    BY <1>i, <1>a, <1>z DEF NotBooted
<1>9. EndingsFit'
    BY <1>i, <1>a, <1>e DEF EndingsFit, Ends, Seated
<1>10. SeatFits'
    BY <1>i, <1>a, <1>e, <1>f DEF SeatFits, Seated
<1>11. TrackedFits'
    BY <1>i, <1>a DEF TrackedFits, Tracked
<1>12. ToldFits'
    BY <1>i, <1>a, <1>b, <1>e DEF ToldFits, Now, Changing
<1>13. CapsFit'
    BY <1>i, <1>a, <1>b, <1>e DEF CapsFit, Now, Changing, LossPending
<1>14. ShownFits'
    BY <1>i, <1>a, <1>e DEF ShownFits, Seated
<1>15. ClicksFit'
    BY <1>i, <1>a, <1>e DEF ClicksFit
<1> QED
    BY <1>t, <1>1, <1>2, <1>3, <1>4, <1>5, <1>6, <1>7, <1>8, <1>9, <1>10, <1>11, <1>12,
       <1>13, <1>14, <1>15
       DEF DesktopInv

\* The candidate fails or is cancelled.
LEMMA StagingFailsKeeps ==
    ASSUME DesktopInv, StagingFails
    PROVE  DesktopInv'
<1>i. /\ DesktopTyped /\ ReqsUsed /\ RequestsFit /\ OneQuestion /\ ExecFits /\ HoldsFit
      /\ GrantsFit /\ DocumentsFit /\ NotBooted /\ EndingsFit /\ SeatFits /\ TrackedFits
      /\ ToldFits /\ CapsFit /\ ShownFits /\ ClicksFit
    BY DEF DesktopInv
<1>n. MessagesFit
    BY MessagesTyped
<1> DEFINE s == [k |-> "state", gen |-> active, cap |-> SeatCap(active, seat)]
           m == [k |-> "result", id |-> exec.req, ok |-> active # 0,
                 cap |-> SeatCap(active, seat)]
<1>a. /\ UNCHANGED <<lost, shown, req, quit, caps, wiped, closing, target, bypass, doc, win, load>>
      /\ UNCHANGED <<open, child, toChild, active, nextGen, ending, ousted, seat, grants, latest>>
      /\ child = "serving"
    BY DEF StagingFails, hostVars, userVars, frameVars
<1>b. /\ exec.phase = "staging" /\ exec' = NoExec
      /\ toHost' = Result(Notify(toHost, active, seat), exec.req, active # 0, active, seat)
      /\ UNCHANGED <<lease, faults>>
    BY DEF StagingFails
<1>d. exec.req \in Reqs /\ req[exec.req].kind = "activate" /\ (active # 0) \in BOOLEAN
    BY <1>b, <1>i DEF ExecFits, RequestsFit, NoExec
<1>p. /\ toHost' \in Seq(ToHostMsg) /\ ReportedTo(toHost', toHost, s, m)
      /\ s.k = "state" /\ s.gen = active /\ s.cap = Now
      /\ m.k = "result" /\ m.id = exec.req /\ m.cap = Now
    BY <1>b, <1>d, <1>i, ReportFacts DEF DesktopTyped, DesktopTypeOK, QueuesTyped, Now
<1> HIDE DEF s, m
<1>o. ~Ends(m) /\ req[m.id].kind # "none"
    BY <1>d, <1>p DEF Ends
<1>j. \A h \in InHost' : h \in InHost \/ h = s \/ h = m
    BY <1>p DEF ReportedTo
<1>e. exec'.phase = "none" /\ exec' \in ExecType
    BY <1>b, DesktopAssumption DEF NoExec, ExecType, Gens0
<1>f. /\ load = "none" /\ \A h \in InHost : h.k \notin QuestionKinds
      /\ \A y \in InChild : y.k \notin AnswerKind
    BY <1>b, <1>i DEF OneQuestion
<1>z. target # "absent"
    BY <1>b, <1>i DEF NotBooted, NoExec
<1>t. DesktopTyped'
    BY <1>i, <1>a, <1>b, <1>e, <1>p DEF DesktopTyped, DesktopTypeOK, QueuesTyped, ExecType
<1>1. ReqsUsed'
    BY <1>i, <1>a DEF ReqsUsed
<1>2. RequestsFit'
    BY <1>i, <1>a, <1>b, <1>j, <1>o, <1>p DEF RequestsFit
<1>3. OneQuestion'
    BY <1>a, <1>e, <1>f, <1>j, <1>n, <1>p DEF OneQuestion, ReportedTo, MessagesFit
<1>4. ExecFits'
    BY <1>i, <1>a, <1>b, <1>e DEF ExecFits
<1>5. HoldsFit'
    BY <1>i, <1>a, <1>b, <1>e DEF HoldsFit, Switching, NoExec
<1>6. GrantsFit'
    BY <1>i, <1>a, <1>b, <1>e DEF GrantsFit, Seated
<1>7. DocumentsFit'
    BY <1>i, <1>a DEF DocumentsFit
<1>8. NotBooted'
    BY <1>i, <1>a, <1>j, <1>p, <1>z DEF NotBooted
<1>9. EndingsFit'
    BY <1>i, <1>a, <1>e, <1>j, <1>o, <1>p DEF EndingsFit, Ends, Seated
<1>10. SeatFits'
    BY <1>i, <1>a, <1>f DEF SeatFits, Seated
<1>11. TrackedFits'
    BY <1>i, <1>a DEF TrackedFits, Tracked
<1>12. ToldFits'
    BY <1>a, <1>e, <1>p DEF ToldFits, Now, Changing, ReportedTo
<1>13. CapsFit'
    BY <1>a, <1>p DEF CapsFit, Now, Changing, LossPending, ReportedTo
<1>14. ShownFits'
    BY <1>i, <1>a, <1>e, <1>j, <1>p DEF ShownFits, Seated, ReportedTo
<1>15. ClicksFit'
    BY <1>i, <1>a, <1>e DEF ClicksFit
<1> QED
    BY <1>t, <1>1, <1>2, <1>3, <1>4, <1>5, <1>6, <1>7, <1>8, <1>9, <1>10, <1>11, <1>12,
       <1>13, <1>14, <1>15
       DEF DesktopInv

\* A candidate commits with nothing seated.
LEMMA FirstCommitKeeps ==
    ASSUME DesktopInv, FirstCommit
    PROVE  DesktopInv'
<1>i. /\ DesktopTyped /\ ReqsUsed /\ RequestsFit /\ OneQuestion /\ ExecFits /\ HoldsFit
      /\ GrantsFit /\ DocumentsFit /\ NotBooted /\ EndingsFit /\ SeatFits /\ TrackedFits
      /\ ToldFits /\ CapsFit /\ ShownFits /\ ClicksFit
    BY DEF DesktopInv
<1>n. MessagesFit
    BY MessagesTyped
<1>a. /\ UNCHANGED <<lost, shown, req, quit, caps, wiped, closing, target, bypass, doc, win, load>>
      /\ UNCHANGED <<open, child, toChild, nextGen, ending, ousted, seat, grants, latest>>
      /\ child = "serving"
    BY DEF FirstCommit, hostVars, userVars, frameVars
<1>b. exec.phase = "staging" /\ ~Seated /\ active = 0 /\ faults' = faults
    BY <1>i DEF FirstCommit, ExecFits, Seated
<1>c. seat' = seat
    BY <1>a
<1>k. /\ active' = exec.gen
      /\ \/ /\ lease' = exec.gen /\ exec' = [exec EXCEPT !.phase = "asked"]
            /\ toHost' = Tell(Notify(toHost, exec.gen, seat), [k |-> "ask"])
         \/ /\ lease' = lease /\ exec' = [exec EXCEPT !.phase = "stranded"]
            /\ toHost' = Notify(toHost, exec.gen, seat)
    BY DEF FirstCommit, Commits
<1>d. /\ exec # NoExec /\ exec.gen \in 1..MaxGen /\ exec.gen \in Gens0 /\ exec.req \in Reqs
      /\ exec.gen # seat.gen /\ exec.gen # active /\ exec.gen <= nextGen
    BY <1>b, <1>i DEF ExecFits, NoExec, DesktopTyped, DesktopTypeOK, Gens0
<1>e. /\ exec'.req = exec.req /\ exec'.gen = exec.gen
      /\ exec'.phase \in {"asked", "stranded"}
      /\ exec' = [exec EXCEPT !.phase = "asked"] => exec'.phase = "asked"
      /\ exec' = [exec EXCEPT !.phase = "stranded"] => exec'.phase = "stranded"
      /\ exec' \in ExecType /\ exec' # NoExec
    BY <1>d, <1>i, <1>k DEF ExecType, NoExec, DesktopTyped, DesktopTypeOK
<1>f. /\ load = "none" /\ \A h \in InHost : h.k \notin QuestionKinds
      /\ \A y \in InChild : y.k \notin AnswerKind
      /\ Behind(toHost, AskKind) = {} /\ Behind(toHost, QuestionKinds) = {}
      /\ Behind(toChild, AnswerKind) = {}
    BY <1>b, <1>i, <1>n DEF OneQuestion, Behind, BehindPos, Msgs
<1> DEFINE t == Notify(toHost, exec.gen, seat)
           s == [k |-> "state", gen |-> exec.gen, cap |-> None]
           a == [k |-> "ask"]
<1>p. /\ t \in Seq(ToHostMsg) /\ ToldTo(t, toHost, s)
      /\ s.k = "state" /\ s.gen = exec.gen /\ s.cap = None /\ a.k = "ask"
    <2>1. SeatCap(exec.gen, seat) = None
        BY <1>d DEF SeatCap
    <2> QED
        BY <1>d, <1>i, <2>1, NotifyFacts DEF DesktopTyped, DesktopTypeOK, QueuesTyped
<1>q. /\ toHost' \in Seq(ToHostMsg)
      /\ \/ exec'.phase = "asked" /\ ToldTo(toHost', t, a)
         \/ exec'.phase = "stranded" /\ toHost' = t
    <2>1. /\ a \in ToHostMsg
          /\ \/ exec'.phase = "asked" /\ toHost' = Tell(t, a)
             \/ exec'.phase = "stranded" /\ toHost' = t
        BY <1>e, <1>k, HostMsgTyped
    <2> HIDE DEF t, a
    <2>2. Tell(t, a) \in Seq(ToHostMsg) /\ ToldTo(Tell(t, a), t, a)
        BY <1>i, <1>p, <2>1, TellFacts
    <2> QED
        BY <1>p, <2>1, <2>2
<1> HIDE DEF s, t, a
<1>j. /\ \A h \in InHost' : h \in InHost \/ h = s \/ (h = a /\ exec'.phase = "asked")
      /\ open => s \in InHost' /\ Last(toHost', ReportKinds) = {s} /\ Last(toHost', StateKind) = {s}
    BY <1>p, <1>q DEF ToldTo
<1>l. /\ \A h \in Behind(toHost', AskKind) : h = a
      /\ \A h \in Behind(toHost', QuestionKinds) : h.k \notin QuestionKinds
    <2>1. Behind(t, AskKind) = {} /\ \A h \in Msgs(t) : h.k \notin AskKind
        BY <1>f, <1>p DEF ToldTo
    <2>2. Behind(t, QuestionKinds) = {} /\ \A h \in Msgs(t) : h.k \notin QuestionKinds
        BY <1>f, <1>p DEF ToldTo
    <2> QED
        BY <1>p, <1>q, <2>1, <2>2 DEF ToldTo
<1>z. target # "absent"
    BY <1>b, <1>i DEF NotBooted, NoExec
<1>v. seat'.gen # active' /\ active' # 0 /\ ~Seated' /\ Now' = None
    BY <1>b, <1>c, <1>d, <1>k DEF Seated, Now, SeatCap, NoSeat
<1>t. DesktopTyped'
    BY <1>i, <1>a, <1>b, <1>d, <1>e, <1>k, <1>q
       DEF DesktopTyped, DesktopTypeOK, QueuesTyped, ExecType
<1>1. ReqsUsed'
    BY <1>i, <1>a DEF ReqsUsed
<1>2. RequestsFit'
    BY <1>i, <1>a, <1>d, <1>e, <1>j, <1>p DEF RequestsFit
<1>3. OneQuestion'
    BY <1>a, <1>e, <1>f, <1>j, <1>l, <1>p DEF OneQuestion
<1>4. ExecFits'
    BY <1>i, <1>a, <1>b, <1>d, <1>e, <1>k DEF ExecFits
<1>5. HoldsFit'
    BY <1>i, <1>a, <1>b, <1>e DEF HoldsFit, Switching
<1>6. GrantsFit'
    BY <1>i, <1>a, <1>b, <1>d, <1>e, <1>k DEF GrantsFit, Seated
<1>7. DocumentsFit'
    BY <1>i, <1>a DEF DocumentsFit
<1>8. NotBooted'
    BY <1>i, <1>a, <1>j, <1>p, <1>z DEF NotBooted
<1>9. EndingsFit'
    BY <1>i, <1>a, <1>e, <1>f, <1>j, <1>l, <1>p, <1>v DEF EndingsFit, Ends, Seated
<1>10. SeatFits'
    BY <1>a, <1>f, <1>i, <1>v DEF SeatFits, Seated
<1>11. TrackedFits'
    BY <1>i, <1>a DEF TrackedFits, Tracked
<1>12. ToldFits'
    BY <1>a, <1>j, <1>p, <1>v DEF ToldFits, Now, Changing
<1>13. CapsFit'
    BY <1>a, <1>j, <1>p DEF CapsFit, Now, Changing, LossPending
<1>14. ShownFits'
    BY <1>a, <1>e, <1>f, <1>j, <1>k, <1>l, <1>p, <1>v DEF ShownFits, Seated
<1>15. ClicksFit'
    BY <1>a, <1>e, <1>f, <1>v DEF ClicksFit
<1> QED
    BY <1>t, <1>1, <1>2, <1>3, <1>4, <1>5, <1>6, <1>7, <1>8, <1>9, <1>10, <1>11, <1>12,
       <1>13, <1>14, <1>15
       DEF DesktopInv

\* A switch ends: the drained session's authority goes and the candidate
\* commits.
LEMMA EndSwitchKeeps ==
    ASSUME DesktopInv, NEW r \in Reqs, EndSwitch(r)
    PROVE  DesktopInv'
<1>i. /\ DesktopTyped /\ ReqsUsed /\ RequestsFit /\ OneQuestion /\ ExecFits /\ HoldsFit
      /\ GrantsFit /\ DocumentsFit /\ NotBooted /\ EndingsFit /\ SeatFits /\ TrackedFits
      /\ ToldFits /\ CapsFit /\ ShownFits /\ ClicksFit
    BY DEF DesktopInv
<1>n. MessagesFit
    BY MessagesTyped
<1>a. /\ UNCHANGED <<lost, shown, req, quit, caps, wiped, closing, target, bypass, doc, win, load>>
      /\ UNCHANGED <<open, child, toChild, nextGen, ousted, latest>> /\ child = "serving"
    BY DEF EndSwitch, hostVars, userVars, frameVars
<1>b. /\ exec.phase = "switching" /\ exec.req = r /\ ending[r].phase = "revoking"
      /\ ending' = [ending EXCEPT ![r] = NoHold] /\ grants' \subseteq grants /\ faults' = faults
    BY DEF EndSwitch, Switching, Revoked
<1>c. seat' = NoSeat
    BY DEF EndSwitch
<1>k. /\ active' = exec.gen
      /\ \/ /\ lease' = exec.gen /\ exec' = [exec EXCEPT !.phase = "asked"]
            /\ toHost' = Tell(Notify(toHost, exec.gen, seat), [k |-> "ask"])
         \/ /\ lease' = lease /\ exec' = [exec EXCEPT !.phase = "stranded"]
            /\ toHost' = Notify(toHost, exec.gen, seat)
    BY DEF EndSwitch, Commits
<1>d. /\ exec # NoExec /\ exec.gen \in 1..MaxGen /\ exec.gen \in Gens0 /\ exec.req \in Reqs
      /\ exec.gen # seat.gen /\ exec.gen # active /\ exec.gen <= nextGen
    BY <1>b, <1>i DEF ExecFits, NoExec, DesktopTyped, DesktopTypeOK, Gens0
<1>e. /\ exec'.req = exec.req /\ exec'.gen = exec.gen
      /\ exec'.phase \in {"asked", "stranded"}
      /\ exec' = [exec EXCEPT !.phase = "asked"] => exec'.phase = "asked"
      /\ exec' = [exec EXCEPT !.phase = "stranded"] => exec'.phase = "stranded"
      /\ exec' \in ExecType /\ exec' # NoExec
    BY <1>d, <1>i, <1>k DEF ExecType, NoExec, DesktopTyped, DesktopTypeOK
<1>f. /\ load = "none" /\ \A h \in InHost : h.k \notin QuestionKinds
      /\ \A y \in InChild : y.k \notin AnswerKind
      /\ Behind(toHost, AskKind) = {} /\ Behind(toHost, QuestionKinds) = {}
      /\ Behind(toChild, AnswerKind) = {}
    BY <1>b, <1>i, <1>n DEF OneQuestion, Behind, BehindPos, Msgs
<1> DEFINE t == Notify(toHost, exec.gen, seat)
           s == [k |-> "state", gen |-> exec.gen, cap |-> None]
           a == [k |-> "ask"]
<1>p. /\ t \in Seq(ToHostMsg) /\ ToldTo(t, toHost, s)
      /\ s.k = "state" /\ s.gen = exec.gen /\ s.cap = None /\ a.k = "ask"
    <2>1. SeatCap(exec.gen, seat) = None
        BY <1>d DEF SeatCap
    <2> QED
        BY <1>d, <1>i, <2>1, NotifyFacts DEF DesktopTyped, DesktopTypeOK, QueuesTyped
<1>q. /\ toHost' \in Seq(ToHostMsg)
      /\ \/ exec'.phase = "asked" /\ ToldTo(toHost', t, a)
         \/ exec'.phase = "stranded" /\ toHost' = t
    <2>1. /\ a \in ToHostMsg
          /\ \/ exec'.phase = "asked" /\ toHost' = Tell(t, a)
             \/ exec'.phase = "stranded" /\ toHost' = t
        BY <1>e, <1>k, HostMsgTyped
    <2> HIDE DEF t, a
    <2>2. Tell(t, a) \in Seq(ToHostMsg) /\ ToldTo(Tell(t, a), t, a)
        BY <1>i, <1>p, <2>1, TellFacts
    <2> QED
        BY <1>p, <2>1, <2>2
<1> HIDE DEF s, t, a
<1>j. /\ \A h \in InHost' : h \in InHost \/ h = s \/ (h = a /\ exec'.phase = "asked")
      /\ open => s \in InHost' /\ Last(toHost', ReportKinds) = {s} /\ Last(toHost', StateKind) = {s}
    BY <1>p, <1>q DEF ToldTo
<1>l. /\ \A h \in Behind(toHost', AskKind) : h = a
      /\ \A h \in Behind(toHost', QuestionKinds) : h.k \notin QuestionKinds
    <2>1. Behind(t, AskKind) = {} /\ \A h \in Msgs(t) : h.k \notin AskKind
        BY <1>f, <1>p DEF ToldTo
    <2>2. Behind(t, QuestionKinds) = {} /\ \A h \in Msgs(t) : h.k \notin QuestionKinds
        BY <1>f, <1>p DEF ToldTo
    <2> QED
        BY <1>p, <1>q, <2>1, <2>2 DEF ToldTo
<1>z. target # "absent"
    BY <1>b, <1>i DEF NotBooted, NoExec
<1>v. seat'.gen # active' /\ active' # 0 /\ ~Seated' /\ Now' = None
    BY <1>b, <1>c, <1>d, <1>k DEF Seated, Now, SeatCap, NoSeat
<1>h. /\ ending' \in [Reqs -> HoldType] /\ ending'[r].phase = "none"
      /\ \A y \in Reqs : y # r => ending'[y] = ending[y]
      /\ NoHold \in HoldType /\ NoSeat \in SeatType
    <2>1. NoHold \in HoldType /\ NoSeat \in SeatType /\ NoHold.phase = "none"
        BY DesktopAssumption DEF NoHold, NoSeat, HoldType, SeatType, Gens0
    <2> QED
        BY <1>b, <1>i, <2>1 DEF HoldType, DesktopTyped, DesktopTypeOK
<1>t. DesktopTyped'
    BY <1>i, <1>a, <1>b, <1>c, <1>d, <1>e, <1>h, <1>k, <1>q
       DEF DesktopTyped, DesktopTypeOK, QueuesTyped, ExecType, HoldType, SeatType
<1>1. ReqsUsed'
    BY <1>i, <1>a DEF ReqsUsed
<1>2. RequestsFit'
    BY <1>i, <1>a, <1>d, <1>e, <1>j, <1>p DEF RequestsFit
<1>3. OneQuestion'
    BY <1>a, <1>e, <1>f, <1>j, <1>l, <1>p DEF OneQuestion
<1>4. ExecFits'
    BY <1>i, <1>n, <1>a, <1>b, <1>c, <1>d, <1>e, <1>k DEF ExecFits, NoSeat, MessagesFit
<1>5. HoldsFit'
    <2>1. \A y \in Reqs : (Switching(y) => y = r) /\ ~Switching(y)'
        BY <1>b, <1>e DEF Switching
    <2>2. \A y \in Reqs : ending'[y].phase # "none" =>
              y # r /\ ending[y].phase # "none" /\ ending'[y] = ending[y]
        BY <1>h
    <2>3. ASSUME NEW y \in Reqs, y # r, ending[y].phase # "none"
          PROVE  ending[y].gen \in ousted
        <3>1. ending[y].gen \in 1..MaxGen /\ ending[y].gen # ending[r].gen
            BY <1>b, <1>i, <2>3 DEF HoldsFit
        <3>2. active \in {0, ending[r].gen}
            BY <1>b, <1>i DEF HoldsFit
        <3> QED
            BY <1>i, <2>3, <3>1, <3>2 DEF HoldsFit
    <2> QED
        BY <1>a, <1>e, <1>i, <2>1, <2>2, <2>3 DEF HoldsFit
<1>6. GrantsFit'
    BY <1>i, <1>a, <1>b, <1>d, <1>e, <1>k DEF GrantsFit, Seated
<1>7. DocumentsFit'
    BY <1>i, <1>a DEF DocumentsFit
<1>8. NotBooted'
    BY <1>i, <1>a, <1>j, <1>p, <1>z DEF NotBooted
<1>9. EndingsFit'
    BY <1>i, <1>a, <1>e, <1>f, <1>j, <1>l, <1>p, <1>v DEF EndingsFit, Ends, Seated
<1>10. SeatFits'
    BY <1>a, <1>f, <1>i, <1>v DEF SeatFits, Seated
<1>11. TrackedFits'
    BY <1>i, <1>a, <1>b DEF TrackedFits, Tracked
<1>12. ToldFits'
    BY <1>a, <1>j, <1>p, <1>v DEF ToldFits, Now, Changing
<1>13. CapsFit'
    BY <1>a, <1>j, <1>p DEF CapsFit, Now, Changing, LossPending
<1>14. ShownFits'
    BY <1>a, <1>e, <1>f, <1>j, <1>k, <1>l, <1>p, <1>v DEF ShownFits, Seated
<1>15. ClicksFit'
    BY <1>a, <1>e, <1>f, <1>v DEF ClicksFit
<1> QED
    BY <1>t, <1>1, <1>2, <1>3, <1>4, <1>5, <1>6, <1>7, <1>8, <1>9, <1>10, <1>11, <1>12,
       <1>13, <1>14, <1>15
       DEF DesktopInv

\* A request to deactivate drains the seated session.
LEMMA DeactivationBegins ==
    ASSUME DesktopInv, StartDeactivation, ending' # ending
    PROVE  DesktopInv'
<1>i. /\ DesktopTyped /\ ReqsUsed /\ RequestsFit /\ OneQuestion /\ ExecFits /\ HoldsFit
      /\ GrantsFit /\ DocumentsFit /\ NotBooted /\ EndingsFit /\ SeatFits /\ TrackedFits
      /\ ToldFits /\ CapsFit /\ ShownFits /\ ClicksFit
    BY DEF DesktopInv
<1>n. MessagesFit
    BY MessagesTyped
<1> DEFINE c == Head(toChild)
           x == c.id
           e == [gen |-> seat.gen, cap |-> seat.cap, phase |-> "draining"]
<1>a. /\ UNCHANGED <<lost, shown, req, quit, caps, wiped, closing, target, bypass, doc, win, load>>
      /\ UNCHANGED <<open, child, active, nextGen, exec, ousted, seat, grants, latest, lease, faults>>
      /\ child = "serving"
    BY DEF StartDeactivation, Receive, hostVars, userVars, frameVars
<1>q. toChild' \in Seq(ToChildMsg) /\ TakenFrom(toChild', toChild, c) /\ c \in InChild
    BY <1>i, TakeFacts DEF StartDeactivation, Receive, TakenFrom
<1>b. /\ c.k = "deactivate" /\ Seated /\ ~Fenced(active) /\ ending' = [ending EXCEPT ![x] = e]
      /\ toHost' = toHost
    BY DEF StartDeactivation, Receive, Fence
<1>c. /\ e.gen = active /\ e.phase = "draining" /\ e \in HoldType
      /\ active \in 1..MaxGen
    BY <1>b, <1>i DEF Seated, HoldType, DesktopTyped, DesktopTypeOK, Gens0
<1> HIDE DEF e, c
<1>d. /\ x \in Reqs /\ req[x].kind = "deactivate" /\ req[x].sess = active
      /\ c.sess = active
    BY <1>b, <1>i, <1>n, <1>q DEF MessagesFit, RequestsFit, ClicksFit, Seated
<1> HIDE DEF x
<1>h. /\ ending' \in [Reqs -> HoldType] /\ ending'[x] = e
      /\ \A r \in Reqs : r # x => ending'[r] = ending[r]
    BY <1>b, <1>c, <1>d, <1>i DEF HoldType, DesktopTyped, DesktopTypeOK
<1>z. target # "absent"
    BY <1>i, <1>q DEF NotBooted
<1>j. InChild' \subseteq InChild
    BY <1>q DEF TakenFrom
<1>t. DesktopTyped'
    BY <1>i, <1>a, <1>b, <1>h, <1>q DEF DesktopTyped, DesktopTypeOK, QueuesTyped, HoldType
<1>1. ReqsUsed'
    BY <1>i, <1>a DEF ReqsUsed
<1>2. RequestsFit'
    BY <1>i, <1>a, <1>b, <1>j DEF RequestsFit
<1>3. OneQuestion'
    BY <1>i, <1>a, <1>b, <1>j, <1>q DEF OneQuestion, TakenFrom
<1>4. ExecFits'
    BY <1>i, <1>a DEF ExecFits
<1>5. HoldsFit'
    <2>1. \A r \in Reqs : Switching(r)' = Switching(r)
        BY <1>a DEF Switching
    <2>2. \A r \in Reqs : ending[r].phase # "none" => ending[r].gen # active
        BY <1>b DEF Fenced
    <2>3. exec.phase = "switching" => exec.req \in Reqs /\ exec.req # x
        BY <1>d, <1>i DEF ExecFits, RequestsFit, NoExec
    <2> QED
        BY <1>a, <1>c, <1>d, <1>h, <1>i, <2>1, <2>2, <2>3 DEF HoldsFit
<1>6. GrantsFit'
    BY <1>i, <1>a DEF GrantsFit, Seated
<1>7. DocumentsFit'
    BY <1>i, <1>a, <1>j DEF DocumentsFit
<1>8. NotBooted'
    BY <1>i, <1>a, <1>b, <1>z DEF NotBooted
<1>9. EndingsFit'
    BY <1>i, <1>a, <1>b, <1>j DEF EndingsFit, Ends, Seated
<1>10. SeatFits'
    BY <1>i, <1>a, <1>j DEF SeatFits, Seated
<1>11. TrackedFits'
    BY <1>i, <1>a, <1>b, <1>j, <1>q DEF TrackedFits, Tracked, TakenFrom
<1>12. ToldFits'
    BY <1>i, <1>a, <1>b DEF ToldFits, Now, Changing
<1>13. CapsFit'
    BY <1>i, <1>a, <1>b, <1>q DEF CapsFit, Now, Changing, LossPending, TakenFrom
<1>14. ShownFits'
    BY <1>i, <1>a, <1>b, <1>j DEF ShownFits, Seated
<1>15. ClicksFit'
    BY <1>i, <1>a, <1>j, <1>q DEF ClicksFit, TakenFrom
<1> QED
    BY <1>t, <1>1, <1>2, <1>3, <1>4, <1>5, <1>6, <1>7, <1>8, <1>9, <1>10, <1>11, <1>12,
       <1>13, <1>14, <1>15
       DEF DesktopInv

\* A drain ends and its receipt is spent.
LEMMA DrainPasses ==
    ASSUME DesktopInv, NEW r \in Reqs, Drained(r), Authoritative(ending[r])
    PROVE  DesktopInv'
<1>i. /\ DesktopTyped /\ ReqsUsed /\ RequestsFit /\ OneQuestion /\ ExecFits /\ HoldsFit
      /\ GrantsFit /\ DocumentsFit /\ NotBooted /\ EndingsFit /\ SeatFits /\ TrackedFits
      /\ ToldFits /\ CapsFit /\ ShownFits /\ ClicksFit
    BY DEF DesktopInv
<1>n. MessagesFit
    BY MessagesTyped
<1>a. /\ UNCHANGED <<lost, shown, req, quit, caps, wiped, closing, target, bypass, doc, win, load>>
      /\ UNCHANGED <<open, child, toChild, active, nextGen, ousted, seat, grants, latest>>
      /\ child = "serving"
    BY DEF Drained, hostVars, userVars, frameVars
<1>b. /\ ending[r].phase = "draining" /\ ending' = [ending EXCEPT ![r].phase = "revoking"]
      /\ lease' \in {lease, 0} /\ UNCHANGED <<exec, toHost, faults>>
    BY DEF Drained
<1>h. /\ ending' \in [Reqs -> HoldType]
      /\ \A y \in Reqs : /\ ending'[y].gen = ending[y].gen
                         /\ ending'[y].phase = "none" <=> ending[y].phase = "none"
    BY <1>b, <1>i DEF HoldType, DesktopTyped, DesktopTypeOK
<1>l. lease' \in Gens0
    BY <1>b, <1>i, DesktopAssumption DEF DesktopTyped, DesktopTypeOK, Gens0
<1>z. target # "absent"
    BY <1>b, <1>i DEF NotBooted
<1>t. DesktopTyped'
    BY <1>i, <1>a, <1>b, <1>h, <1>l DEF DesktopTyped, DesktopTypeOK, QueuesTyped, HoldType
<1>1. ReqsUsed'
    BY <1>i, <1>a, <1>b DEF ReqsUsed
<1>2. RequestsFit'
    BY <1>i, <1>a, <1>b DEF RequestsFit
<1>3. OneQuestion'
    BY <1>i, <1>a, <1>b DEF OneQuestion
<1>4. ExecFits'
    BY <1>i, <1>a, <1>b DEF ExecFits
<1>5. HoldsFit'
    BY <1>i, <1>n, <1>a, <1>b, <1>h DEF HoldsFit, Switching, MessagesFit, NoExec, ExecFits
<1>6. GrantsFit'
    BY <1>i, <1>a, <1>b DEF GrantsFit, Seated
<1>7. DocumentsFit'
    BY <1>i, <1>a, <1>b DEF DocumentsFit
<1>8. NotBooted'
    BY <1>i, <1>a, <1>b, <1>z DEF NotBooted
<1>9. EndingsFit'
    BY <1>i, <1>a, <1>b DEF EndingsFit, Ends, Seated
<1>10. SeatFits'
    BY <1>i, <1>a, <1>b DEF SeatFits, Seated
<1>11. TrackedFits'
    BY <1>i, <1>a, <1>b DEF TrackedFits, Tracked
<1>12. ToldFits'
    BY <1>i, <1>a, <1>b DEF ToldFits, Now, Changing
<1>13. CapsFit'
    BY <1>i, <1>a, <1>b DEF CapsFit, Now, Changing, LossPending
<1>14. ShownFits'
    BY <1>i, <1>a, <1>b DEF ShownFits, Seated
<1>15. ClicksFit'
    BY <1>i, <1>a, <1>b DEF ClicksFit
<1> QED
    BY <1>t, <1>1, <1>2, <1>3, <1>4, <1>5, <1>6, <1>7, <1>8, <1>9, <1>10, <1>11, <1>12,
       <1>13, <1>14, <1>15
       DEF DesktopInv

\* A switch is refused at its drain.
LEMMA SwitchGivesUp ==
    ASSUME DesktopInv, NEW r \in Reqs, Drained(r), ~Authoritative(ending[r]), Switching(r)
    PROVE  DesktopInv'
<1>i. /\ DesktopTyped /\ ReqsUsed /\ RequestsFit /\ OneQuestion /\ ExecFits /\ HoldsFit
      /\ GrantsFit /\ DocumentsFit /\ NotBooted /\ EndingsFit /\ SeatFits /\ TrackedFits
      /\ ToldFits /\ CapsFit /\ ShownFits /\ ClicksFit
    BY DEF DesktopInv
<1>n. MessagesFit
    BY MessagesTyped
<1> DEFINE s == [k |-> "state", gen |-> active, cap |-> SeatCap(active, seat)]
           m == [k |-> "result", id |-> r, ok |-> active # 0, cap |-> SeatCap(active, seat)]
<1>a. /\ UNCHANGED <<lost, shown, req, quit, caps, wiped, closing, target, bypass, doc, win, load>>
      /\ UNCHANGED <<open, child, toChild, active, nextGen, ousted, seat, grants, latest>>
      /\ child = "serving"
    BY DEF Drained, hostVars, userVars, frameVars
<1>b. /\ exec.phase = "switching" /\ exec.req = r /\ exec' = NoExec
      /\ ending' = [ending EXCEPT ![r] = NoHold]
      /\ toHost' = Result(Notify(toHost, active, seat), r, active # 0, active, seat)
      /\ UNCHANGED <<lease, faults>>
    BY DEF Drained, Switching
<1>d. r \in Reqs /\ req[r].kind = "activate" /\ (active # 0) \in BOOLEAN
    BY <1>b, <1>i DEF ExecFits, RequestsFit, NoExec
<1>p. /\ toHost' \in Seq(ToHostMsg) /\ ReportedTo(toHost', toHost, s, m)
      /\ s.k = "state" /\ s.gen = active /\ s.cap = Now
      /\ m.k = "result" /\ m.id = r /\ m.cap = Now
    BY <1>b, <1>d, <1>i, ReportFacts DEF DesktopTyped, DesktopTypeOK, QueuesTyped, Now
<1> HIDE DEF s, m
<1>o. ~Ends(m) /\ req[m.id].kind # "none"
    BY <1>d, <1>p DEF Ends
<1>j. \A h \in InHost' : h \in InHost \/ h = s \/ h = m
    BY <1>p DEF ReportedTo
<1>e. exec'.phase = "none" /\ exec' \in ExecType
    BY <1>b, DesktopAssumption DEF NoExec, ExecType, Gens0
<1>h. /\ ending' \in [Reqs -> HoldType] /\ ending'[r].phase = "none"
      /\ \A y \in Reqs : y # r => ending'[y] = ending[y]
    <2>1. NoHold \in HoldType /\ NoHold.phase = "none"
        BY DesktopAssumption DEF NoHold, HoldType, Gens0
    <2> QED
        BY <1>b, <1>i, <2>1 DEF HoldType, DesktopTyped, DesktopTypeOK
<1>f. /\ load = "none" /\ \A h \in InHost : h.k \notin QuestionKinds
      /\ \A y \in InChild : y.k \notin AnswerKind
    BY <1>b, <1>i DEF OneQuestion
<1>z. target # "absent"
    BY <1>b, <1>i DEF NotBooted, NoExec
<1>t. DesktopTyped'
    BY <1>i, <1>a, <1>b, <1>e, <1>h, <1>p
       DEF DesktopTyped, DesktopTypeOK, QueuesTyped, ExecType, HoldType
<1>1. ReqsUsed'
    BY <1>i, <1>a DEF ReqsUsed
<1>2. RequestsFit'
    BY <1>i, <1>a, <1>b, <1>j, <1>o, <1>p DEF RequestsFit
<1>3. OneQuestion'
    BY <1>a, <1>e, <1>f, <1>j, <1>n, <1>p DEF OneQuestion, ReportedTo, MessagesFit
<1>4. ExecFits'
    BY <1>i, <1>a, <1>b, <1>e DEF ExecFits
<1>5. HoldsFit'
    <2>1. \A y \in Reqs : (Switching(y) => y = r) /\ ~Switching(y)'
        BY <1>b, <1>e DEF Switching
    <2>2. \A y \in Reqs : ending'[y].phase # "none" =>
              y # r /\ ending[y].phase # "none" /\ ending'[y] = ending[y]
        BY <1>h
    <2> QED
        BY <1>a, <1>b, <1>e, <1>i, <2>1, <2>2 DEF HoldsFit
<1>6. GrantsFit'
    BY <1>i, <1>a, <1>b, <1>e DEF GrantsFit, Seated
<1>7. DocumentsFit'
    BY <1>i, <1>a DEF DocumentsFit
<1>8. NotBooted'
    BY <1>i, <1>a, <1>h, <1>j, <1>p, <1>z DEF NotBooted
<1>9. EndingsFit'
    BY <1>i, <1>a, <1>e, <1>j, <1>o, <1>p DEF EndingsFit, Ends, Seated
<1>10. SeatFits'
    BY <1>i, <1>a, <1>f DEF SeatFits, Seated
<1>11. TrackedFits'
    BY <1>i, <1>a DEF TrackedFits, Tracked
<1>12. ToldFits'
    BY <1>a, <1>e, <1>p DEF ToldFits, Now, Changing, ReportedTo
<1>13. CapsFit'
    BY <1>a, <1>p DEF CapsFit, Now, Changing, LossPending, ReportedTo
<1>14. ShownFits'
    BY <1>i, <1>a, <1>e, <1>j, <1>p DEF ShownFits, Seated, ReportedTo
<1>15. ClicksFit'
    BY <1>i, <1>a, <1>e DEF ClicksFit
<1> QED
    BY <1>t, <1>1, <1>2, <1>3, <1>4, <1>5, <1>6, <1>7, <1>8, <1>9, <1>10, <1>11, <1>12,
       <1>13, <1>14, <1>15
       DEF DesktopInv

\* A deactivation is refused at its drain.
LEMMA DeactivationGivesUp ==
    ASSUME DesktopInv, NEW r \in Reqs, Drained(r), ~Authoritative(ending[r]), ~Switching(r)
    PROVE  DesktopInv'
<1>i. /\ DesktopTyped /\ ReqsUsed /\ RequestsFit /\ OneQuestion /\ ExecFits /\ HoldsFit
      /\ GrantsFit /\ DocumentsFit /\ NotBooted /\ EndingsFit /\ SeatFits /\ TrackedFits
      /\ ToldFits /\ CapsFit /\ ShownFits /\ ClicksFit
    BY DEF DesktopInv
<1>n. MessagesFit
    BY MessagesTyped
<1> DEFINE m == [k |-> "result", id |-> r, ok |-> FALSE, cap |-> SeatCap(active, seat)]
<1>a. /\ UNCHANGED <<lost, shown, req, quit, caps, wiped, closing, target, bypass, doc, win, load>>
      /\ UNCHANGED <<open, child, toChild, active, nextGen, ousted, seat, grants, latest>>
      /\ child = "serving"
    BY DEF Drained, hostVars, userVars, frameVars
<1>b. /\ ending[r].phase = "draining" /\ ending' = [ending EXCEPT ![r] = NoHold]
      /\ toHost' = Result(toHost, r, FALSE, active, seat)
      /\ UNCHANGED <<exec, lease, faults>>
    BY DEF Drained
<1>u. UNCHANGED <<exec, lease, faults>>
    BY <1>b
<1>d. req[r].kind = "deactivate"
    BY <1>b, <1>i DEF HoldsFit
<1>p. /\ toHost' \in Seq(ToHostMsg) /\ ToldTo(toHost', toHost, m)
      /\ m.k = "result" /\ m.id = r /\ ~m.ok /\ m.cap = Now
    BY <1>b, <1>i, ResultFacts DEF DesktopTyped, DesktopTypeOK, QueuesTyped, Now
<1> HIDE DEF m
<1>o. ~Ends(m) /\ req[m.id].kind # "none"
    BY <1>d, <1>p DEF Ends
<1>j. \A h \in InHost' : h \in InHost \/ h = m
    BY <1>p DEF ToldTo
<1>h. /\ ending' \in [Reqs -> HoldType] /\ ending'[r].phase = "none"
      /\ \A y \in Reqs : y # r => ending'[y] = ending[y]
    <2>1. NoHold \in HoldType /\ NoHold.phase = "none"
        BY DesktopAssumption DEF NoHold, HoldType, Gens0
    <2> QED
        BY <1>b, <1>i, <2>1 DEF HoldType, DesktopTyped, DesktopTypeOK
<1>z. target # "absent"
    BY <1>b, <1>i DEF NotBooted
<1>t. DesktopTyped'
    BY <1>i, <1>a, <1>h, <1>p, <1>u DEF DesktopTyped, DesktopTypeOK, QueuesTyped, HoldType
<1>1. ReqsUsed'
    BY <1>i, <1>a, <1>b DEF ReqsUsed
<1>2. RequestsFit'
    BY <1>i, <1>a, <1>b, <1>j, <1>o, <1>p DEF RequestsFit
<1>3. OneQuestion'
    BY <1>i, <1>a, <1>b, <1>j, <1>p DEF OneQuestion, ToldTo
<1>4. ExecFits'
    BY <1>i, <1>a, <1>b DEF ExecFits
<1>5. HoldsFit'
    <2>1. \A y \in Reqs : Switching(y)' = Switching(y)
        BY <1>b DEF Switching
    <2>2. \A y \in Reqs : ending'[y].phase # "none" =>
              y # r /\ ending[y].phase # "none" /\ ending'[y] = ending[y]
        BY <1>h
    <2>3. exec.phase = "switching" => exec.req \in Reqs /\ exec.req # r
        BY <1>b, <1>i DEF ExecFits, Switching, NoExec
    <2> QED
        BY <1>a, <1>b, <1>h, <1>i, <2>1, <2>2, <2>3 DEF HoldsFit
<1>6. GrantsFit'
    BY <1>i, <1>a, <1>b DEF GrantsFit, Seated
<1>7. DocumentsFit'
    BY <1>i, <1>a, <1>b DEF DocumentsFit
<1>8. NotBooted'
    BY <1>i, <1>a, <1>b, <1>h, <1>j, <1>p, <1>z DEF NotBooted
<1>9. EndingsFit'
    BY <1>i, <1>a, <1>b, <1>j, <1>o, <1>p DEF EndingsFit, Ends, Seated, ToldTo
<1>10. SeatFits'
    BY <1>i, <1>a, <1>b DEF SeatFits, Seated
<1>11. TrackedFits'
    BY <1>i, <1>a, <1>b DEF TrackedFits, Tracked
<1>12. ToldFits'
    BY <1>i, <1>a, <1>b, <1>p DEF ToldFits, Now, Changing, ToldTo
<1>13. CapsFit'
    BY <1>a, <1>p DEF CapsFit, Now, Changing, LossPending, ToldTo
<1>14. ShownFits'
    BY <1>i, <1>a, <1>b, <1>j, <1>p DEF ShownFits, Seated, ToldTo
<1>15. ClicksFit'
    BY <1>i, <1>a, <1>b DEF ClicksFit
<1> QED
    BY <1>t, <1>1, <1>2, <1>3, <1>4, <1>5, <1>6, <1>7, <1>8, <1>9, <1>10, <1>11, <1>12,
       <1>13, <1>14, <1>15
       DEF DesktopInv

\* A deactivation completes.
LEMMA EndDeactivationKeeps ==
    ASSUME DesktopInv, NEW r \in Reqs, EndDeactivation(r)
    PROVE  DesktopInv'
<1>i. /\ DesktopTyped /\ ReqsUsed /\ RequestsFit /\ OneQuestion /\ ExecFits /\ HoldsFit
      /\ GrantsFit /\ DocumentsFit /\ NotBooted /\ EndingsFit /\ SeatFits /\ TrackedFits
      /\ ToldFits /\ CapsFit /\ ShownFits /\ ClicksFit
    BY DEF DesktopInv
<1>n. MessagesFit
    BY MessagesTyped
<1> DEFINE s == [k |-> "state", gen |-> 0, cap |-> None]
           m == [k |-> "result", id |-> r, ok |-> TRUE, cap |-> None]
<1>a. /\ UNCHANGED <<lost, shown, req, quit, caps, wiped, closing, target, bypass, doc, win, load>>
      /\ UNCHANGED <<open, child, toChild, nextGen, exec, latest, lease, faults>>
      /\ child = "serving"
    BY DEF EndDeactivation, hostVars, userVars, frameVars
<1>b. /\ ending[r].phase = "revoking" /\ ~Switching(r)
      /\ ending' = [ending EXCEPT ![r] = NoHold] /\ grants' \subseteq grants
      /\ seat' \in {seat, NoSeat} /\ active' = 0
      /\ ousted' = IF active \in {0, ending[r].gen} THEN ousted ELSE ousted \cup {active}
    BY DEF EndDeactivation, Revoked
<1>d. /\ req[r].kind = "deactivate" /\ active \in Gens0 /\ active \in Nat
      /\ ousted' \subseteq 1..MaxGen /\ 0 \in Gens0
    BY <1>b, <1>i, <1>n, DesktopAssumption DEF HoldsFit, MessagesFit, DesktopTyped, DesktopTypeOK, Gens0
<1>p. /\ toHost' \in Seq(ToHostMsg)
      /\ \/ active = 0 /\ ToldTo(toHost', toHost, m)
         \/ active # 0 /\ ReportedTo(toHost', toHost, s, m)
      /\ s.k = "state" /\ s.gen = 0 /\ s.cap = None
      /\ m.k = "result" /\ m.id = r /\ m.cap = None
    <2>1. SeatCap(0, NoSeat) = None /\ NoSeat \in [gen : Gens0, cap : Caps \cup {None}]
        BY <1>d DEF SeatCap, NoSeat
    <2>2. CASE active = 0
        <3>1. toHost' = Result(toHost, r, TRUE, 0, NoSeat)
            BY <2>2 DEF EndDeactivation
        <3> QED
            BY <1>d, <1>i, <2>1, <2>2, <3>1, ResultFacts DEF DesktopTyped, QueuesTyped
    <2>3. CASE active # 0
        <3>1. toHost' = Result(Notify(toHost, 0, NoSeat), r, TRUE, 0, NoSeat)
            BY <2>3 DEF EndDeactivation
        <3> QED
            BY <1>d, <1>i, <2>1, <2>3, <3>1, ReportFacts
    <2> QED
        BY <2>2, <2>3
<1> HIDE DEF s, m
<1>j. /\ \A h \in InHost' : h \in InHost \/ (h = s /\ active # 0) \/ h = m
      /\ InHost \subseteq InHost'
      /\ open => /\ Last(toHost', ReportKinds) = {m} /\ m \in InHost'
                 /\ Last(toHost', StateKind) = IF active = 0 THEN Last(toHost, StateKind) ELSE {s}
                 /\ active # 0 => s \in InHost'
      /\ \A h \in Behind(toHost', QuestionKinds) : h \in Behind(toHost, QuestionKinds) \cup {s, m}
    BY <1>p DEF ToldTo, ReportedTo
<1>h. /\ ending' \in [Reqs -> HoldType] /\ ending'[r].phase = "none"
      /\ \A y \in Reqs : y # r => ending'[y] = ending[y]
    <2>1. NoHold \in HoldType /\ NoHold.phase = "none"
        BY DesktopAssumption DEF NoHold, HoldType, Gens0
    <2> QED
        BY <1>b, <1>i, <2>1 DEF HoldType, DesktopTyped, DesktopTypeOK
<1>z. target # "absent"
    BY <1>b, <1>i DEF NotBooted
<1>v. ~Seated' /\ Now' = None
    BY <1>b DEF Seated, Now, SeatCap, NoSeat
<1>x. exec # NoExec => exec.gen # 0
    BY <1>i DEF ExecFits
<1>y. seat' \in SeatType /\ NoSeat.gen = 0
    BY <1>b, <1>d, <1>i DEF SeatType, NoSeat, DesktopTyped, DesktopTypeOK
<1>t. DesktopTyped'
    BY <1>i, <1>a, <1>b, <1>d, <1>h, <1>p, <1>y
       DEF DesktopTyped, DesktopTypeOK, QueuesTyped, HoldType, SeatType
<1>1. ReqsUsed'
    BY <1>i, <1>a DEF ReqsUsed
<1>2. RequestsFit'
    BY <1>i, <1>a, <1>d, <1>j, <1>p DEF RequestsFit
<1>3. OneQuestion'
    BY <1>i, <1>a, <1>j, <1>p DEF OneQuestion
<1>4. ExecFits'
    BY <1>i, <1>n, <1>a, <1>b, <1>x, <1>y DEF ExecFits, NoExec, MessagesFit
<1>5. HoldsFit'
    <2>1. \A y \in Reqs : Switching(y)' = Switching(y)
        BY <1>a DEF Switching
    <2>2. \A y \in Reqs : ending'[y].phase # "none" =>
              y # r /\ ending[y].phase # "none" /\ ending'[y] = ending[y]
        BY <1>h
    <2>3. exec.phase = "switching" => exec.req \in Reqs /\ exec.req # r
        BY <1>b, <1>i DEF ExecFits, Switching, NoExec
    <2>4. ASSUME NEW y \in Reqs, y # r, ending[y].phase # "none"
          PROVE  ending[y].gen \in ousted'
        <3>1. ending[y].gen \in 1..MaxGen /\ ending[y].gen # ending[r].gen
            BY <1>b, <1>i, <2>4 DEF HoldsFit
        <3>2. CASE active = ending[y].gen
            BY <1>b, <3>1, <3>2
        <3>3. CASE active # ending[y].gen
            BY <1>b, <1>i, <2>4, <3>3 DEF HoldsFit
        <3> QED
            BY <3>2, <3>3
    <2> QED
        BY <1>a, <1>b, <1>h, <1>i, <2>1, <2>2, <2>3, <2>4 DEF HoldsFit
<1>6. GrantsFit'
    BY <1>i, <1>n, <1>a, <1>b DEF GrantsFit, Seated, MessagesFit
<1>7. DocumentsFit'
    BY <1>i, <1>a DEF DocumentsFit
<1>8. NotBooted'
    BY <1>i, <1>a, <1>j, <1>p, <1>z DEF NotBooted
<1>9. EndingsFit'
    BY <1>a, <1>b, <1>v DEF EndingsFit, Ends, Seated
<1>10. SeatFits'
    BY <1>i, <1>a, <1>b, <1>v, <1>x DEF SeatFits, Seated, OneQuestion, NoExec
<1>11. TrackedFits'
    BY <1>i, <1>a, <1>b DEF TrackedFits, Tracked
<1>12. ToldFits'
    BY <1>a, <1>j, <1>p, <1>v DEF ToldFits, Now, Changing
<1>13. CapsFit'
    BY <1>a, <1>j, <1>p DEF CapsFit, Now, Changing, LossPending
<1>14. ShownFits'
    BY <1>i, <1>a, <1>b, <1>j, <1>p, <1>v DEF ShownFits, Seated
<1>15. ClicksFit'
    BY <1>a, <1>b DEF ClicksFit
<1> QED
    BY <1>t, <1>1, <1>2, <1>3, <1>4, <1>5, <1>6, <1>7, <1>8, <1>9, <1>10, <1>11, <1>12,
       <1>13, <1>14, <1>15
       DEF DesktopInv

\* The answer strands the adoption.
LEMMA AnswerStrands ==
    ASSUME DesktopInv, Answer, exec'.phase = "stranded"
    PROVE  DesktopInv'
<1>i. /\ DesktopTyped /\ ReqsUsed /\ RequestsFit /\ OneQuestion /\ ExecFits /\ HoldsFit
      /\ GrantsFit /\ DocumentsFit /\ NotBooted /\ EndingsFit /\ SeatFits /\ TrackedFits
      /\ ToldFits /\ CapsFit /\ ShownFits /\ ClicksFit
    BY DEF DesktopInv
<1>n. MessagesFit
    BY MessagesTyped
<1> DEFINE c == Head(toChild)
           gs == IF c.doc = 0 THEN grants ELSE Swept(grants, Newer(c.doc), c.win)
           bound == <<exec.gen, c.doc>>
<1>a. /\ UNCHANGED <<lost, shown, req, quit, caps, wiped, closing, target, bypass, doc, win, load>>
      /\ UNCHANGED <<open, child, active, nextGen, ending, ousted, faults>> /\ child = "serving"
    BY DEF Answer, Receive, hostVars, userVars, frameVars
<1>q. toChild' \in Seq(ToChildMsg) /\ TakenFrom(toChild', toChild, c) /\ c \in InChild
    BY <1>i, TakeFacts DEF Answer, Receive, TakenFrom
<1>b. /\ c.k = "observed" /\ exec.phase \in {"asked", "replacing"} /\ latest' = Newer(c.doc)
      /\ \/ /\ exec' = [exec EXCEPT !.phase = "stranded"]
            /\ grants' = gs /\ lease' \in {lease, 0} /\ UNCHANGED <<seat, toHost>>
         \/ /\ exec.phase = "asked" /\ exec' = [exec EXCEPT !.phase = "replacing"]
            /\ exec.gen = active /\ Bindable(gs, c.doc) /\ grants' = {bound}
            /\ seat' = [gen |-> exec.gen, cap |-> bound]
            /\ toHost' = Tell(toHost, [k |-> "replace"]) /\ lease' = lease
         \/ /\ exec.phase = "replacing" /\ exec' = NoExec
            /\ Bindable(gs, c.doc) /\ grants' = {bound}
            /\ seat' = IF Seated THEN [seat EXCEPT !.cap = bound] ELSE seat
            /\ toHost' = Result(toHost, exec.req, active # 0, active, seat') /\ lease' = lease
    BY DEF Answer, Receive
<1> HIDE DEF c
<1>d. /\ c.doc <= doc /\ c.win <= win /\ c.doc \in Docs0 /\ c.doc \in Nat /\ c.win \in Nat
    BY <1>b, <1>i, <1>n, <1>q DEF DocumentsFit, MessagesFit
<1>l. /\ latest' \in Docs0 /\ latest' \in Nat /\ latest <= latest' /\ latest' <= doc
      /\ c.doc <= latest' /\ (c.doc = 0 => latest' = latest)
    BY <1>b, <1>d, <1>i, <1>n DEF Newer, DocumentsFit, MessagesFit, DesktopTyped, DesktopTypeOK
<1>s. gs \subseteq grants /\ \A x \in gs : x[2] = latest' \/ x[2] < win
    BY <1>b, <1>d, <1>i, <1>l, <1>n DEF Swept, MessagesFit, GrantsFit
<1>x. /\ exec # NoExec /\ exec.gen \in 1..MaxGen /\ exec.req \in Reqs /\ exec.gen <= nextGen
      /\ active \in {0, exec.gen} /\ active \in Nat /\ exec.gen \in Nat /\ nextGen \in Nat
    BY <1>b, <1>i, <1>n DEF ExecFits, NoExec, MessagesFit, DesktopTyped, DesktopTypeOK, Gens0
<1>f. /\ load = "none" /\ \A h \in InHost : h.k \notin QuestionKinds
      /\ \A y \in InChild' : y.k \notin AnswerKind
    BY <1>b, <1>i, <1>n, <1>q DEF OneQuestion, TakenFrom
<1>u. Behind(toHost, QuestionKinds) = {} /\ Behind(toHost, AskKind) = {}
    BY <1>f DEF Behind, BehindPos, Msgs
<1>j. InChild' \subseteq InChild /\ Behind(toChild', AnswerKind) = {}
    <2>1. InChild' \subseteq InChild
        BY <1>q DEF TakenFrom
    <2>2. Behind(toChild', AnswerKind) = {}
        BY <1>f DEF Behind, BehindPos, Msgs
    <2> QED
        BY <2>1, <2>2
<1>k. Tracked => Tracked'
    BY <1>a, <1>b, <1>i, <1>l, <1>n, <1>q DEF Tracked, TakenFrom, MessagesFit, DocumentsFit
<1>z. target # "absent"
    BY <1>i, <1>q DEF NotBooted
<1> HIDE DEF gs
<1>e. /\ exec' = [exec EXCEPT !.phase = "stranded"] /\ grants' = gs
      /\ lease' \in {lease, 0} /\ UNCHANGED <<seat, toHost>>
    <2>1. exec' # [exec EXCEPT !.phase = "replacing"] /\ exec' # NoExec
        BY <1>i DEF NoExec, DesktopTyped, DesktopTypeOK
    <2> QED
        BY <1>b, <2>1
<1>y. /\ exec'.gen = exec.gen /\ exec'.req = exec.req /\ exec'.phase = "stranded"
      /\ exec' \in ExecType /\ exec' # NoExec /\ lease' \in Gens0
    BY <1>e, <1>i, DesktopAssumption DEF ExecType, NoExec, DesktopTyped, DesktopTypeOK, Gens0
<1>t. DesktopTyped'
    BY <1>i, <1>a, <1>e, <1>l, <1>q, <1>s, <1>y
       DEF DesktopTyped, DesktopTypeOK, QueuesTyped, ExecType
<1>1. ReqsUsed'
    BY <1>i, <1>a DEF ReqsUsed
<1>2. RequestsFit'
    BY <1>i, <1>a, <1>e, <1>j, <1>x, <1>y DEF RequestsFit
<1>3. OneQuestion'
    BY <1>a, <1>e, <1>f, <1>j, <1>n, <1>y DEF OneQuestion, MessagesFit
<1>4. ExecFits'
    BY <1>i, <1>a, <1>e, <1>x, <1>y DEF ExecFits
<1>5. HoldsFit'
    BY <1>i, <1>a, <1>b, <1>y DEF HoldsFit, Switching
<1>6. GrantsFit'
    BY <1>i, <1>a, <1>e, <1>s, <1>y DEF GrantsFit, Seated
<1>7. DocumentsFit'
    BY <1>i, <1>a, <1>j, <1>l DEF DocumentsFit
<1>8. NotBooted'
    BY <1>i, <1>a, <1>e, <1>z DEF NotBooted
<1>9. EndingsFit'
    BY <1>i, <1>a, <1>e, <1>y DEF EndingsFit, Ends, Seated
<1>10. SeatFits'
    BY <1>i, <1>a, <1>e, <1>f, <1>j DEF SeatFits, Seated
<1>11. TrackedFits'
    BY <1>i, <1>a, <1>e, <1>f, <1>k, <1>s DEF TrackedFits, Tracked
<1>12. ToldFits'
    BY <1>i, <1>a, <1>e, <1>y DEF ToldFits, Now, Changing
<1>13. CapsFit'
    BY <1>i, <1>a, <1>e, <1>y DEF CapsFit, Now, Changing, LossPending
<1>14. ShownFits'
    BY <1>i, <1>a, <1>e, <1>y DEF ShownFits, Seated
<1>15. ClicksFit'
    BY <1>i, <1>a, <1>e, <1>j, <1>y DEF ClicksFit
<1> QED
    BY <1>t, <1>1, <1>2, <1>3, <1>4, <1>5, <1>6, <1>7, <1>8, <1>9, <1>10, <1>11, <1>12,
       <1>13, <1>14, <1>15
       DEF DesktopInv

\* The first answer seats the session.
LEMMA AnswerSeats ==
    ASSUME DesktopInv, Answer, exec'.phase = "replacing"
    PROVE  DesktopInv'
<1>i. /\ DesktopTyped /\ ReqsUsed /\ RequestsFit /\ OneQuestion /\ ExecFits /\ HoldsFit
      /\ GrantsFit /\ DocumentsFit /\ NotBooted /\ EndingsFit /\ SeatFits /\ TrackedFits
      /\ ToldFits /\ CapsFit /\ ShownFits /\ ClicksFit
    BY DEF DesktopInv
<1>n. MessagesFit
    BY MessagesTyped
<1> DEFINE c == Head(toChild)
           gs == IF c.doc = 0 THEN grants ELSE Swept(grants, Newer(c.doc), c.win)
           bound == <<exec.gen, c.doc>>
<1>a. /\ UNCHANGED <<lost, shown, req, quit, caps, wiped, closing, target, bypass, doc, win, load>>
      /\ UNCHANGED <<open, child, active, nextGen, ending, ousted, faults>> /\ child = "serving"
    BY DEF Answer, Receive, hostVars, userVars, frameVars
<1>q. toChild' \in Seq(ToChildMsg) /\ TakenFrom(toChild', toChild, c) /\ c \in InChild
    BY <1>i, TakeFacts DEF Answer, Receive, TakenFrom
<1>b. /\ c.k = "observed" /\ exec.phase \in {"asked", "replacing"} /\ latest' = Newer(c.doc)
      /\ \/ /\ exec' = [exec EXCEPT !.phase = "stranded"]
            /\ grants' = gs /\ lease' \in {lease, 0} /\ UNCHANGED <<seat, toHost>>
         \/ /\ exec.phase = "asked" /\ exec' = [exec EXCEPT !.phase = "replacing"]
            /\ exec.gen = active /\ Bindable(gs, c.doc) /\ grants' = {bound}
            /\ seat' = [gen |-> exec.gen, cap |-> bound]
            /\ toHost' = Tell(toHost, [k |-> "replace"]) /\ lease' = lease
         \/ /\ exec.phase = "replacing" /\ exec' = NoExec
            /\ Bindable(gs, c.doc) /\ grants' = {bound}
            /\ seat' = IF Seated THEN [seat EXCEPT !.cap = bound] ELSE seat
            /\ toHost' = Result(toHost, exec.req, active # 0, active, seat') /\ lease' = lease
    BY DEF Answer, Receive
<1> HIDE DEF c
<1>d. /\ c.doc <= doc /\ c.win <= win /\ c.doc \in Docs0 /\ c.doc \in Nat /\ c.win \in Nat
    BY <1>b, <1>i, <1>n, <1>q DEF DocumentsFit, MessagesFit
<1>l. /\ latest' \in Docs0 /\ latest' \in Nat /\ latest <= latest' /\ latest' <= doc
      /\ c.doc <= latest' /\ (c.doc = 0 => latest' = latest)
    BY <1>b, <1>d, <1>i, <1>n DEF Newer, DocumentsFit, MessagesFit, DesktopTyped, DesktopTypeOK
<1>s. gs \subseteq grants /\ \A x \in gs : x[2] = latest' \/ x[2] < win
    BY <1>b, <1>d, <1>i, <1>l, <1>n DEF Swept, MessagesFit, GrantsFit
<1>x. /\ exec # NoExec /\ exec.gen \in 1..MaxGen /\ exec.req \in Reqs /\ exec.gen <= nextGen
      /\ active \in {0, exec.gen} /\ active \in Nat /\ exec.gen \in Nat /\ nextGen \in Nat
    BY <1>b, <1>i, <1>n DEF ExecFits, NoExec, MessagesFit, DesktopTyped, DesktopTypeOK, Gens0
<1>f. /\ load = "none" /\ \A h \in InHost : h.k \notin QuestionKinds
      /\ \A y \in InChild' : y.k \notin AnswerKind
    BY <1>b, <1>i, <1>n, <1>q DEF OneQuestion, TakenFrom
<1>u. Behind(toHost, QuestionKinds) = {} /\ Behind(toHost, AskKind) = {}
    BY <1>f DEF Behind, BehindPos, Msgs
<1>j. InChild' \subseteq InChild /\ Behind(toChild', AnswerKind) = {}
    <2>1. InChild' \subseteq InChild
        BY <1>q DEF TakenFrom
    <2>2. Behind(toChild', AnswerKind) = {}
        BY <1>f DEF Behind, BehindPos, Msgs
    <2> QED
        BY <2>1, <2>2
<1>k. Tracked => Tracked'
    BY <1>a, <1>b, <1>i, <1>l, <1>n, <1>q DEF Tracked, TakenFrom, MessagesFit, DocumentsFit
<1>z. target # "absent"
    BY <1>i, <1>q DEF NotBooted
<1>e. /\ exec.phase = "asked" /\ exec' = [exec EXCEPT !.phase = "replacing"]
      /\ exec.gen = active /\ Bindable(gs, c.doc) /\ seat' = [gen |-> exec.gen, cap |-> bound]
      /\ toHost' = Tell(toHost, [k |-> "replace"]) /\ lease' = lease /\ grants' = {bound}
    <2>1. exec' # [exec EXCEPT !.phase = "stranded"] /\ exec' # NoExec
        BY <1>i DEF NoExec, DesktopTyped, DesktopTypeOK
    <2> QED
        BY <1>b, <2>1
<1>w. /\ c.doc # 0 /\ c.doc = latest' /\ grants' = {bound} /\ bound \in Caps
      /\ bound[1] = exec.gen /\ bound[2] = c.doc
    <2>1. c.doc # 0 /\ c.doc = Newer(c.doc) /\ grants' = {bound}
        BY <1>e DEF Bindable
    <2>2. c.doc \in 1..MaxDoc
        BY <1>d, <2>1, DesktopAssumption DEF Docs0
    <2> QED
        BY <1>b, <1>x, <2>1, <2>2 DEF Caps
<1>t1. open /\ c.doc >= win => Tracked'
    <2>1. open => c.doc = doc \/ c.doc < win \/ Tracked
        BY <1>b, <1>i, <1>q, <1>w DEF TrackedFits
    <2> QED
        BY <1>a, <1>d, <1>k, <1>n, <1>w, <2>1 DEF Tracked, MessagesFit
<1>t2. active = exec.gen => c.doc >= win /\ (quit = "no" => target \in {"live", "destroyed"})
    BY <1>b, <1>i, <1>q, <1>w DEF SeatFits
<1> HIDE DEF gs, bound
<1> DEFINE m == [k |-> "replace"]
<1>p. toHost' \in Seq(ToHostMsg) /\ ToldTo(toHost', toHost, m) /\ m.k = "replace"
    BY <1>e, <1>i, HostMsgTyped, TellFacts DEF DesktopTyped, QueuesTyped
<1> HIDE DEF m
<1>y. /\ exec'.gen = exec.gen /\ exec'.req = exec.req /\ exec'.phase = "replacing"
      /\ exec' \in ExecType /\ exec' # NoExec
      /\ seat' \in SeatType /\ seat'.gen = active /\ seat'.cap = bound /\ active # 0
    BY <1>e, <1>i, <1>w, <1>x DEF ExecType, NoExec, SeatType, DesktopTyped, DesktopTypeOK, Gens0
<1>h. /\ \A h \in InHost' : h \in InHost \/ h = m
      /\ \A h \in Behind(toHost', QuestionKinds) : h.k \notin QuestionKinds
      /\ Last(toHost', ReportKinds) = Last(toHost, ReportKinds)
      /\ Last(toHost', StateKind) = Last(toHost, StateKind)
      /\ InHost \subseteq InHost'
    BY <1>f, <1>p, <1>u DEF ToldTo
<1>v. Now = None /\ ~Seated
    BY <1>e, <1>i DEF Now, SeatCap, ExecFits, Seated
<1>o. /\ \A h \in InHost : ~Ends(h)
      /\ \A h \in InHost : h.k \notin StateKind
    BY <1>b, <1>e, <1>i, <1>q, <1>y DEF EndingsFit, ShownFits
<1>t. DesktopTyped'
    BY <1>i, <1>a, <1>e, <1>l, <1>p, <1>q, <1>w, <1>y
       DEF DesktopTyped, DesktopTypeOK, QueuesTyped, ExecType, SeatType
<1>1. ReqsUsed'
    BY <1>i, <1>a DEF ReqsUsed
<1>2. RequestsFit'
    BY <1>i, <1>a, <1>h, <1>j, <1>p, <1>x, <1>y DEF RequestsFit
<1>3. OneQuestion'
    BY <1>a, <1>f, <1>h, <1>j, <1>p, <1>y DEF OneQuestion
<1>4. ExecFits'
    BY <1>i, <1>a, <1>x, <1>y, <1>w DEF ExecFits
<1>5. HoldsFit'
    BY <1>i, <1>a, <1>e, <1>y DEF HoldsFit, Switching
<1>6. GrantsFit'
    BY <1>a, <1>w, <1>x, <1>y DEF GrantsFit, Seated
<1>7. DocumentsFit'
    BY <1>i, <1>a, <1>j, <1>l DEF DocumentsFit
<1>8. NotBooted'
    BY <1>i, <1>a, <1>h, <1>p, <1>z DEF NotBooted
<1>9. EndingsFit'
    BY <1>a, <1>h, <1>o, <1>p DEF EndingsFit, Ends, Seated
<1>10. SeatFits'
    BY <1>i, <1>a, <1>e, <1>f, <1>t2, <1>w, <1>y DEF SeatFits, Seated
<1>11. TrackedFits'
    BY <1>a, <1>f, <1>t1, <1>w DEF TrackedFits, Tracked
<1>12. ToldFits'
    BY <1>i, <1>a, <1>h, <1>v, <1>y DEF ToldFits, Now, Changing
<1>13. CapsFit'
    BY <1>i, <1>a, <1>h, <1>v, <1>y DEF CapsFit, Now, Changing, LossPending
<1>14. ShownFits'
    BY <1>i, <1>a, <1>h, <1>o, <1>p, <1>y DEF ShownFits, Seated
<1>15. ClicksFit'
    BY <1>i, <1>a, <1>b, <1>e, <1>j, <1>q, <1>y DEF ClicksFit, TakenFrom
<1> QED
    BY <1>t, <1>1, <1>2, <1>3, <1>4, <1>5, <1>6, <1>7, <1>8, <1>9, <1>10, <1>11, <1>12,
       <1>13, <1>14, <1>15
       DEF DesktopInv

\* The second answer rebinds the session and completes the activation.
LEMMA AnswerReplaces ==
    ASSUME DesktopInv, Answer, exec' = NoExec
    PROVE  DesktopInv'
<1>i. /\ DesktopTyped /\ ReqsUsed /\ RequestsFit /\ OneQuestion /\ ExecFits /\ HoldsFit
      /\ GrantsFit /\ DocumentsFit /\ NotBooted /\ EndingsFit /\ SeatFits /\ TrackedFits
      /\ ToldFits /\ CapsFit /\ ShownFits /\ ClicksFit
    BY DEF DesktopInv
<1>n. MessagesFit
    BY MessagesTyped
<1> DEFINE c == Head(toChild)
           gs == IF c.doc = 0 THEN grants ELSE Swept(grants, Newer(c.doc), c.win)
           bound == <<exec.gen, c.doc>>
<1>a. /\ UNCHANGED <<lost, shown, req, quit, caps, wiped, closing, target, bypass, doc, win, load>>
      /\ UNCHANGED <<open, child, active, nextGen, ending, ousted, faults>> /\ child = "serving"
    BY DEF Answer, Receive, hostVars, userVars, frameVars
<1>q. toChild' \in Seq(ToChildMsg) /\ TakenFrom(toChild', toChild, c) /\ c \in InChild
    BY <1>i, TakeFacts DEF Answer, Receive, TakenFrom
<1>b. /\ c.k = "observed" /\ exec.phase \in {"asked", "replacing"} /\ latest' = Newer(c.doc)
      /\ \/ /\ exec' = [exec EXCEPT !.phase = "stranded"]
            /\ grants' = gs /\ lease' \in {lease, 0} /\ UNCHANGED <<seat, toHost>>
         \/ /\ exec.phase = "asked" /\ exec' = [exec EXCEPT !.phase = "replacing"]
            /\ exec.gen = active /\ Bindable(gs, c.doc) /\ grants' = {bound}
            /\ seat' = [gen |-> exec.gen, cap |-> bound]
            /\ toHost' = Tell(toHost, [k |-> "replace"]) /\ lease' = lease
         \/ /\ exec.phase = "replacing" /\ exec' = NoExec
            /\ Bindable(gs, c.doc) /\ grants' = {bound}
            /\ seat' = IF Seated THEN [seat EXCEPT !.cap = bound] ELSE seat
            /\ toHost' = Result(toHost, exec.req, active # 0, active, seat') /\ lease' = lease
    BY DEF Answer, Receive
<1> HIDE DEF c
<1>d. /\ c.doc <= doc /\ c.win <= win /\ c.doc \in Docs0 /\ c.doc \in Nat /\ c.win \in Nat
    BY <1>b, <1>i, <1>n, <1>q DEF DocumentsFit, MessagesFit
<1>l. /\ latest' \in Docs0 /\ latest' \in Nat /\ latest <= latest' /\ latest' <= doc
      /\ c.doc <= latest' /\ (c.doc = 0 => latest' = latest)
    BY <1>b, <1>d, <1>i, <1>n DEF Newer, DocumentsFit, MessagesFit, DesktopTyped, DesktopTypeOK
<1>s. gs \subseteq grants /\ \A x \in gs : x[2] = latest' \/ x[2] < win
    BY <1>b, <1>d, <1>i, <1>l, <1>n DEF Swept, MessagesFit, GrantsFit
<1>x. /\ exec # NoExec /\ exec.gen \in 1..MaxGen /\ exec.req \in Reqs /\ exec.gen <= nextGen
      /\ active \in {0, exec.gen} /\ active \in Nat /\ exec.gen \in Nat /\ nextGen \in Nat
    BY <1>b, <1>i, <1>n DEF ExecFits, NoExec, MessagesFit, DesktopTyped, DesktopTypeOK, Gens0
<1>f. /\ load = "none" /\ \A h \in InHost : h.k \notin QuestionKinds
      /\ \A y \in InChild' : y.k \notin AnswerKind
    BY <1>b, <1>i, <1>n, <1>q DEF OneQuestion, TakenFrom
<1>u. Behind(toHost, QuestionKinds) = {} /\ Behind(toHost, AskKind) = {}
    BY <1>f DEF Behind, BehindPos, Msgs
<1>j. InChild' \subseteq InChild /\ Behind(toChild', AnswerKind) = {}
    <2>1. InChild' \subseteq InChild
        BY <1>q DEF TakenFrom
    <2>2. Behind(toChild', AnswerKind) = {}
        BY <1>f DEF Behind, BehindPos, Msgs
    <2> QED
        BY <2>1, <2>2
<1>k. Tracked => Tracked'
    BY <1>a, <1>b, <1>i, <1>l, <1>n, <1>q DEF Tracked, TakenFrom, MessagesFit, DocumentsFit
<1>z. target # "absent"
    BY <1>i, <1>q DEF NotBooted
<1>e. /\ exec.phase = "replacing"
      /\ Bindable(gs, c.doc)
      /\ seat' = IF Seated THEN [seat EXCEPT !.cap = bound] ELSE seat
      /\ toHost' = Result(toHost, exec.req, active # 0, active, seat') /\ lease' = lease
      /\ grants' = {bound}
    <2>1. /\ exec' # [exec EXCEPT !.phase = "stranded"]
          /\ exec' # [exec EXCEPT !.phase = "replacing"]
        BY <1>i DEF NoExec, DesktopTyped, DesktopTypeOK
    <2> QED
        BY <1>b, <2>1
<1>w. /\ c.doc # 0 /\ c.doc = latest' /\ grants' = {bound} /\ bound \in Caps
      /\ bound[1] = exec.gen /\ bound[2] = c.doc
    <2>1. c.doc # 0 /\ c.doc = Newer(c.doc) /\ grants' = {bound}
        BY <1>e DEF Bindable
    <2>2. c.doc \in 1..MaxDoc
        BY <1>d, <2>1, DesktopAssumption DEF Docs0
    <2> QED
        BY <1>b, <1>x, <2>1, <2>2 DEF Caps
<1>t1. open /\ c.doc >= win => Tracked'
    <2>1. open => c.doc = doc \/ c.doc < win \/ Tracked
        BY <1>b, <1>i, <1>q, <1>w DEF TrackedFits
    <2> QED
        BY <1>a, <1>d, <1>k, <1>n, <1>w, <2>1 DEF Tracked, MessagesFit
<1>t2. active = exec.gen => c.doc >= win /\ (quit = "no" => target \in {"live", "destroyed"})
    BY <1>b, <1>i, <1>q, <1>w DEF SeatFits
<1> HIDE DEF gs, bound
<1>y. /\ exec'.phase = "none" /\ exec' \in ExecType
      /\ seat' \in SeatType /\ seat'.gen = seat.gen /\ seat' \in [gen : Gens0, cap : Caps \cup {None}]
      /\ active # 0 => Seated /\ Seated' /\ seat'.cap = bound
      /\ active = 0 => seat' = seat
      /\ req[exec.req].kind = "activate" /\ (active # 0) \in BOOLEAN /\ active \in Gens0
    <2>1. /\ exec'.phase = "none" /\ exec' \in ExecType
        BY DesktopAssumption DEF NoExec, ExecType, Gens0
    <2>2. active # 0 => Seated
        BY <1>e, <1>i DEF ExecFits, Seated
    <2>3. seat \in SeatType
        BY <1>i DEF SeatType, DesktopTyped, DesktopTypeOK
    <2>4. active = 0 => ~Seated
        BY DEF Seated
    <2>5. active = 0 => seat' = seat
        BY <1>e, <2>4
    <2>6. ASSUME active # 0
          PROVE  Seated' /\ seat' \in SeatType /\ seat'.gen = seat.gen /\ seat'.cap = bound
        <3>1. seat' = [seat EXCEPT !.cap = bound]
            BY <1>e, <2>2, <2>6
        <3>2. seat' \in SeatType /\ seat'.gen = seat.gen /\ seat'.cap = bound
            BY <1>w, <2>3, <3>1 DEF SeatType
        <3> QED
            BY <1>a, <2>2, <2>6, <3>2 DEF Seated
    <2>7. req[exec.req].kind = "activate" /\ (active # 0) \in BOOLEAN /\ active \in Gens0
        BY <1>i, <1>x DEF RequestsFit, DesktopTyped, DesktopTypeOK
    <2> QED
        BY <2>1, <2>2, <2>3, <2>5, <2>6, <2>7 DEF SeatType
<1>m. PICK st \in SeatType : st = seat'
    BY <1>y
<1> DEFINE m == [k |-> "result", id |-> exec.req, ok |-> active # 0,
                 cap |-> SeatCap(active, st)]
<1>p. /\ toHost' \in Seq(ToHostMsg) /\ ToldTo(toHost', toHost, m)
      /\ m.k = "result" /\ m.id = exec.req /\ m.cap = Now'
    <2>1. toHost' = Result(toHost, exec.req, active # 0, active, st)
        BY <1>e, <1>m
    <2>2. m.cap = Now'
        BY <1>a, <1>m DEF Now
    <2> QED
        BY <1>i, <1>m, <1>x, <1>y, <2>1, <2>2, ResultFacts
        DEF DesktopTyped, QueuesTyped, SeatType
<1> HIDE DEF m
<1>o. ~Ends(m) /\ req[m.id].kind # "none"
    BY <1>p, <1>y DEF Ends
<1>h. /\ \A h \in InHost' : h \in InHost \/ h = m
      /\ open => /\ Last(toHost', ReportKinds) = {m} /\ m \in InHost'
                 /\ Last(toHost', StateKind) = Last(toHost, StateKind)
      /\ InHost \subseteq InHost'
      /\ \A h \in Behind(toHost', QuestionKinds) : h.k \notin QuestionKinds
    BY <1>f, <1>p, <1>u DEF ToldTo
<1>t. DesktopTyped'
    BY <1>i, <1>a, <1>e, <1>l, <1>p, <1>q, <1>w, <1>y
       DEF DesktopTyped, DesktopTypeOK, QueuesTyped, ExecType, SeatType
<1>1. ReqsUsed'
    BY <1>i, <1>a DEF ReqsUsed
<1>2. RequestsFit'
    BY <1>i, <1>a, <1>h, <1>j, <1>o, <1>p DEF RequestsFit
<1>3. OneQuestion'
    BY <1>a, <1>f, <1>h, <1>j, <1>p, <1>y DEF OneQuestion
<1>4. ExecFits'
    BY <1>i, <1>a, <1>w, <1>x, <1>y DEF ExecFits, NoSeat, Seated
<1>5. HoldsFit'
    BY <1>i, <1>a, <1>e, <1>y DEF HoldsFit, Switching
<1>6. GrantsFit'
    BY <1>a, <1>w, <1>x, <1>y DEF GrantsFit, Seated
<1>7. DocumentsFit'
    BY <1>i, <1>a, <1>j, <1>l DEF DocumentsFit
<1>8. NotBooted'
    BY <1>i, <1>a, <1>h, <1>p, <1>z DEF NotBooted
<1>9. EndingsFit'
    BY <1>i, <1>a, <1>h, <1>o, <1>y DEF EndingsFit, Ends, Seated
<1>10. SeatFits'
    BY <1>i, <1>a, <1>f, <1>t2, <1>w, <1>x, <1>y DEF SeatFits, Seated
<1>11. TrackedFits'
    BY <1>a, <1>f, <1>t1, <1>w DEF TrackedFits, Tracked
<1>12. ToldFits'
    BY <1>a, <1>h, <1>p DEF ToldFits, Now, Changing
<1>13. CapsFit'
    BY <1>a, <1>h, <1>p DEF CapsFit, Now, Changing, LossPending
<1>14. ShownFits'
    BY <1>i, <1>a, <1>h, <1>p, <1>y DEF ShownFits, Seated
<1>15. ClicksFit'
    BY <1>i, <1>a, <1>j, <1>y DEF ClicksFit
<1> QED
    BY <1>t, <1>1, <1>2, <1>3, <1>4, <1>5, <1>6, <1>7, <1>8, <1>9, <1>10, <1>11, <1>12,
       <1>13, <1>14, <1>15
       DEF DesktopInv

\* The aftermath of a failed adoption ends.
LEMMA AftermathKeeps ==
    ASSUME DesktopInv, Aftermath
    PROVE  DesktopInv'
<1>i. /\ DesktopTyped /\ ReqsUsed /\ RequestsFit /\ OneQuestion /\ ExecFits /\ HoldsFit
      /\ GrantsFit /\ DocumentsFit /\ NotBooted /\ EndingsFit /\ SeatFits /\ TrackedFits
      /\ ToldFits /\ CapsFit /\ ShownFits /\ ClicksFit
    BY DEF DesktopInv
<1>n. MessagesFit
    BY MessagesTyped
<1> DEFINE s == [k |-> "state", gen |-> 0, cap |-> None]
           m == [k |-> "result", id |-> exec.req, ok |-> FALSE, cap |-> None]
<1>a. /\ UNCHANGED <<lost, shown, req, quit, caps, wiped, closing, target, bypass, doc, win, load>>
      /\ UNCHANGED <<open, child, toChild, nextGen, ending, seat, latest, lease, faults>>
      /\ child = "serving"
    BY DEF Aftermath, hostVars, userVars, frameVars
<1>b. /\ exec.phase = "stranded" /\ exec' = NoExec /\ grants' \subseteq grants
      /\ exec # NoExec /\ active \in {0, exec.gen} /\ active' = 0 /\ exec.gen # 0
      /\ ousted' = IF active = 0 THEN ousted ELSE ousted \cup {active}
    BY <1>i DEF Aftermath, ExecFits, NoExec
<1>d. /\ exec.req \in Reqs /\ req[exec.req].kind = "activate" /\ 0 \in Gens0
      /\ ousted' \subseteq 1..MaxGen /\ active \in Nat
    BY <1>b, <1>i, <1>n, DesktopAssumption
    DEF ExecFits, RequestsFit, MessagesFit, DesktopTyped, DesktopTypeOK, Gens0
<1>p. /\ toHost' \in Seq(ToHostMsg)
      /\ \/ active = 0 /\ ToldTo(toHost', toHost, m)
         \/ active # 0 /\ ReportedTo(toHost', toHost, s, m)
      /\ s.k = "state" /\ s.gen = 0 /\ s.cap = None
      /\ m.k = "result" /\ m.id = exec.req /\ m.cap = None
    <2>1. SeatCap(0, seat) = None /\ seat \in [gen : Gens0, cap : Caps \cup {None}]
        BY <1>i DEF SeatCap, DesktopTyped, DesktopTypeOK
    <2>2. toHost' = Result(IF active = exec.gen THEN Notify(toHost, 0, seat) ELSE toHost,
                           exec.req, FALSE, 0, seat)
        <3>1. (active' # 0) = FALSE
            BY <1>b
        <3> QED
            BY <1>b, <3>1 DEF Aftermath
    <2>3. CASE active = 0
        <3>1. toHost' = Result(toHost, exec.req, FALSE, 0, seat)
            BY <1>b, <2>2, <2>3
        <3> QED
            BY <1>d, <1>i, <2>1, <2>3, <3>1, ResultFacts DEF DesktopTyped, QueuesTyped
    <2>4. CASE active # 0
        <3>1. toHost' = Result(Notify(toHost, 0, seat), exec.req, FALSE, 0, seat)
            BY <1>b, <2>2, <2>4
        <3> QED
            BY <1>d, <1>i, <2>1, <2>4, <3>1, ReportFacts
    <2> QED
        BY <2>3, <2>4
<1> HIDE DEF s, m
<1>o. ~Ends(m) /\ req[m.id].kind # "none"
    BY <1>d, <1>p DEF Ends
<1>e. exec'.phase = "none" /\ exec' \in ExecType
    BY <1>b, DesktopAssumption DEF NoExec, ExecType, Gens0
<1>f. /\ load = "none" /\ \A h \in InHost : h.k \notin QuestionKinds
      /\ \A y \in InChild : y.k \notin AnswerKind
    BY <1>b, <1>i DEF OneQuestion
<1>j. /\ \A h \in InHost' : h \in InHost \/ (h = s /\ active # 0) \/ h = m
      /\ InHost \subseteq InHost'
      /\ open => /\ Last(toHost', ReportKinds) = {m} /\ m \in InHost'
                 /\ Last(toHost', StateKind) = IF active = 0 THEN Last(toHost, StateKind) ELSE {s}
                 /\ active # 0 => s \in InHost'
      /\ \A h \in Behind(toHost', QuestionKinds) : h \in Behind(toHost, QuestionKinds) \cup {s, m}
    BY <1>p DEF ToldTo, ReportedTo
<1>z. target # "absent"
    BY <1>b, <1>i DEF NotBooted
<1>v. ~Seated' /\ Now' = None
    BY <1>b DEF Seated, Now, SeatCap
<1>t. DesktopTyped'
    BY <1>i, <1>a, <1>b, <1>d, <1>e, <1>p
       DEF DesktopTyped, DesktopTypeOK, QueuesTyped, ExecType
<1>1. ReqsUsed'
    BY <1>i, <1>a DEF ReqsUsed
<1>2. RequestsFit'
    BY <1>i, <1>a, <1>b, <1>j, <1>o, <1>p DEF RequestsFit
<1>3. OneQuestion'
    BY <1>a, <1>e, <1>f, <1>j, <1>n, <1>p DEF OneQuestion, MessagesFit
<1>4. ExecFits'
    BY <1>i, <1>n, <1>a, <1>b, <1>e DEF ExecFits, MessagesFit
<1>5. HoldsFit'
    BY <1>i, <1>a, <1>b, <1>e DEF HoldsFit, Switching
<1>6. GrantsFit'
    BY <1>i, <1>n, <1>a, <1>b, <1>e DEF GrantsFit, Seated, MessagesFit
<1>7. DocumentsFit'
    BY <1>i, <1>a DEF DocumentsFit
<1>8. NotBooted'
    BY <1>i, <1>a, <1>j, <1>p, <1>z DEF NotBooted
<1>9. EndingsFit'
    BY <1>i, <1>a, <1>b, <1>e, <1>j, <1>v DEF EndingsFit, Ends, Seated
<1>10. SeatFits'
    BY <1>i, <1>a, <1>b, <1>f, <1>v DEF SeatFits, Seated
<1>11. TrackedFits'
    BY <1>i, <1>a, <1>b DEF TrackedFits, Tracked
<1>12. ToldFits'
    BY <1>a, <1>j, <1>p, <1>v DEF ToldFits, Now, Changing
<1>13. CapsFit'
    BY <1>a, <1>j, <1>p DEF CapsFit, Now, Changing, LossPending
<1>14. ShownFits'
    BY <1>i, <1>a, <1>b, <1>e, <1>j, <1>p, <1>v DEF ShownFits, Seated
<1>15. ClicksFit'
    BY <1>a, <1>b, <1>e DEF ClicksFit
<1> QED
    BY <1>t, <1>1, <1>2, <1>3, <1>4, <1>5, <1>6, <1>7, <1>8, <1>9, <1>10, <1>11, <1>12,
       <1>13, <1>14, <1>15
       DEF DesktopInv

\* The active run dies.
LEMMA RunCrashesKeeps ==
    ASSUME DesktopInv, RunCrashes
    PROVE  DesktopInv'
<1>i. /\ DesktopTyped /\ ReqsUsed /\ RequestsFit /\ OneQuestion /\ ExecFits /\ HoldsFit
      /\ GrantsFit /\ DocumentsFit /\ NotBooted /\ EndingsFit /\ SeatFits /\ TrackedFits
      /\ ToldFits /\ CapsFit /\ ShownFits /\ ClicksFit
    BY DEF DesktopInv
<1>n. MessagesFit
    BY MessagesTyped
<1> DEFINE s == [k |-> "state", gen |-> 0, cap |-> None]
<1>a. /\ UNCHANGED <<lost, shown, req, quit, caps, wiped, closing, target, bypass, doc, win, load>>
      /\ UNCHANGED <<open, child, toChild, nextGen, exec, ending, seat, grants, latest, lease>>
      /\ child = "serving"
    BY DEF RunCrashes, hostVars, userVars, frameVars
<1>b. /\ active # 0 /\ active' = 0 /\ ousted' = ousted \cup {active}
      /\ toHost' = Notify(toHost, 0, seat)
    BY DEF RunCrashes
<1>d. ousted' \subseteq 1..MaxGen /\ 0 \in Gens0 /\ faults' \in 0..MaxFault
    <2>1. active \in Gens0 /\ ousted \subseteq 1..MaxGen /\ faults \in 0..MaxFault
        BY <1>i DEF DesktopTyped, DesktopTypeOK
    <2>2. active \in 1..MaxGen /\ 0 \in Gens0
        BY <1>b, <2>1, DesktopAssumption DEF Gens0
    <2>3. ousted' \subseteq 1..MaxGen
        BY <1>b, <2>1, <2>2
    <2>4. faults < MaxFault /\ faults' = faults + 1
        BY DEF RunCrashes, Fault
    <2>5. faults' \in 0..MaxFault
        BY <2>1, <2>4, DesktopAssumption
    <2> QED
        BY <2>2, <2>3, <2>5
<1>p. /\ toHost' \in Seq(ToHostMsg) /\ ToldTo(toHost', toHost, s)
      /\ s.k = "state" /\ s.gen = 0 /\ s.cap = None
    <2>1. SeatCap(0, seat) = None
        BY DEF SeatCap
    <2> QED
        BY <1>b, <1>d, <1>i, <2>1, NotifyFacts DEF DesktopTyped, DesktopTypeOK, QueuesTyped
<1> HIDE DEF s
<1>j. /\ \A h \in InHost' : h \in InHost \/ h = s
      /\ open => Last(toHost', ReportKinds) = {s} /\ s \in InHost' /\ Last(toHost', StateKind) = {s}
      /\ \A h \in Behind(toHost', QuestionKinds) : h \in Behind(toHost, QuestionKinds) \cup {s}
    BY <1>p DEF ToldTo
<1>z. target # "absent"
    BY <1>b, <1>i DEF NotBooted
<1>v. ~Seated' /\ Now' = None
    BY <1>b DEF Seated, Now, SeatCap
<1>x. exec # NoExec => exec.gen # 0
    BY <1>i DEF ExecFits
<1>t. DesktopTyped'
    BY <1>i, <1>a, <1>b, <1>d, <1>p DEF DesktopTyped, DesktopTypeOK, QueuesTyped
<1>1. ReqsUsed'
    BY <1>i, <1>a DEF ReqsUsed
<1>2. RequestsFit'
    BY <1>i, <1>a, <1>j, <1>p DEF RequestsFit
<1>3. OneQuestion'
    BY <1>i, <1>a, <1>j, <1>p DEF OneQuestion
<1>4. ExecFits'
    BY <1>i, <1>n, <1>a, <1>b, <1>x DEF ExecFits, MessagesFit, NoExec
<1>5. HoldsFit'
    BY <1>i, <1>a, <1>b DEF HoldsFit, Switching
<1>6. GrantsFit'
    BY <1>i, <1>n, <1>a, <1>b DEF GrantsFit, Seated, MessagesFit
<1>7. DocumentsFit'
    BY <1>i, <1>a DEF DocumentsFit
<1>8. NotBooted'
    BY <1>i, <1>a, <1>j, <1>p, <1>z DEF NotBooted
<1>9. EndingsFit'
    BY <1>a, <1>b, <1>v DEF EndingsFit, Ends, Seated
<1>10. SeatFits'
    BY <1>i, <1>a, <1>b, <1>v, <1>x DEF SeatFits, Seated, OneQuestion, NoExec
<1>11. TrackedFits'
    BY <1>i, <1>a DEF TrackedFits, Tracked
<1>12. ToldFits'
    BY <1>a, <1>j, <1>p, <1>v DEF ToldFits, Now, Changing
<1>13. CapsFit'
    BY <1>a, <1>j, <1>p DEF CapsFit, Now, Changing, LossPending
<1>14. ShownFits'
    BY <1>a, <1>b, <1>j, <1>p, <1>v DEF ShownFits, Seated
<1>15. ClicksFit'
    BY <1>a, <1>b DEF ClicksFit
<1> QED
    BY <1>t, <1>1, <1>2, <1>3, <1>4, <1>5, <1>6, <1>7, <1>8, <1>9, <1>10, <1>11, <1>12,
       <1>13, <1>14, <1>15
       DEF DesktopInv

\* The initial state fits the invariant.
LEMMA DesktopInitEstablishes == DesktopInit => DesktopInv
<1> SUFFICES ASSUME DesktopInit PROVE DesktopInv
    OBVIOUS
<1>1. toChild \in Seq(ToChildMsg) /\ toHost \in Seq(ToHostMsg)
    BY EmptySeq DEF DesktopInit
<1>2. InChild = {} /\ InHost = {} /\ Len(toHost) = 0
    BY DEF DesktopInit, Msgs, Pos
<1>3. /\ Behind(toHost, AskKind) = {} /\ Behind(toHost, QuestionKinds) = {}
      /\ Behind(toChild, AnswerKind) = {}
    BY DEF DesktopInit, Behind, BehindPos, Pos
<1>4. Last(toHost, ReportKinds) = {} /\ Last(toHost, StateKind) = {}
    BY DEF DesktopInit, Last, LastPos, Pos
<1>5. DesktopTyped
    <2>1. /\ 0 \in Gens0 /\ 0 \in Docs0 /\ 0 \in 0..MaxFault
          /\ NoExec \in ExecType /\ NoSeat \in SeatType /\ NoHold \in HoldType
          /\ Unused \in ReqType
        BY DesktopAssumption
        DEF Gens0, Docs0, NoExec, NoSeat, NoHold, Unused, ExecType, SeatType, HoldType, ReqType
    <2>2. req \in [Reqs -> ReqType] /\ ending \in [Reqs -> HoldType]
        BY <2>1 DEF DesktopInit
    <2>3. lost \in BOOLEAN /\ bypass \in BOOLEAN /\ open \in BOOLEAN /\ wiped \in BOOLEAN
        BY DEF DesktopInit
    <2> QED
        BY <1>1, <2>1, <2>2, <2>3
        DEF DesktopInit, DesktopTyped, DesktopTypeOK, QueuesTyped, ExecType, SeatType, HoldType,
            ReqType
<1>6. ReqsUsed
    <2>1. \A r \in Reqs : r > 0
        BY DesktopAssumption DEF Reqs
    <2>2. 0 \in 0..MaxReq
        BY DesktopAssumption
    <2>3. \A r \in Reqs : req[r].kind = "none" /\ req[r].state = "unused"
        BY DEF DesktopInit, Unused
    <2> QED
        BY <2>1, <2>2, <2>3 DEF ReqsUsed
<1>7. \A r \in Reqs : ending[r].phase = "none" /\ req[r].state = "unused"
    BY DEF DesktopInit, NoHold, Unused
<1>8. OneQuestion /\ RequestsFit /\ NotBooted /\ EndingsFit /\ SeatFits /\ TrackedFits
    BY <1>2, <1>3, <1>7
    DEF DesktopInit, OneQuestion, RequestsFit, NotBooted, EndingsFit, SeatFits, TrackedFits,
        Seated
<1>9. ExecFits /\ HoldsFit /\ GrantsFit /\ DocumentsFit
    BY <1>2, <1>7
    DEF DesktopInit, ExecFits, HoldsFit, GrantsFit, DocumentsFit, NoExec, NoSeat
<1>10. ToldFits /\ CapsFit /\ ShownFits /\ ClicksFit
    BY <1>2, <1>3, <1>4
    DEF DesktopInit, ToldFits, CapsFit, ShownFits, ClicksFit, Now, SeatCap, NoSeat, Seated
<1> QED
    BY <1>5, <1>6, <1>8, <1>9, <1>10 DEF DesktopInv

\* A step that changes nothing keeps it.
LEMMA DesktopStutters == ASSUME DesktopInv, UNCHANGED desktopVars PROVE DesktopInv'
<1>1. /\ UNCHANGED <<lost, shown, req, quit, caps, wiped, closing, target, bypass, doc, win, load>>
      /\ UNCHANGED <<toChild, toHost, open, faults>>
      /\ UNCHANGED <<child, active, nextGen, exec, ending, ousted, seat, grants, latest, lease>>
    BY DEF desktopVars, hostVars, userVars, frameVars, chanVars, childVars
<1>2. DesktopTyped' /\ ReqsUsed' /\ ExecFits' /\ HoldsFit' /\ GrantsFit'
    BY <1>1
    DEF DesktopInv, DesktopTyped, DesktopTypeOK, QueuesTyped, ReqsUsed, ExecFits, HoldsFit,
        Switching, GrantsFit, Seated
<1>3. OneQuestion' /\ RequestsFit' /\ DocumentsFit' /\ NotBooted'
    BY <1>1 DEF DesktopInv, OneQuestion, RequestsFit, DocumentsFit, NotBooted
<1>4. EndingsFit' /\ SeatFits' /\ TrackedFits'
    BY <1>1 DEF DesktopInv, EndingsFit, SeatFits, TrackedFits, Tracked, Ends, Seated
<1>5. ToldFits' /\ CapsFit' /\ ShownFits' /\ ClicksFit'
    BY <1>1
    DEF DesktopInv, ToldFits, CapsFit, ShownFits, ClicksFit, Now, Changing, LossPending, Seated
<1> QED
    BY <1>2, <1>3, <1>4, <1>5 DEF DesktopInv

\* The host hears a report, of any kind.
LEMMA HearKeeps == ASSUME DesktopInv, Hear PROVE DesktopInv'
<1>1. Head(toHost).k \in {"booted", "state", "result", "ask", "replace"}
    BY DEF Hear
<1> QED
    BY <1>1, HearBootedKeeps, HearStateKeeps, HearResultKeeps, HearAskKeeps, HearReplaceKeeps

\* An answer of the handshake.
LEMMA AnswerKeeps == ASSUME DesktopInv, Answer PROVE DesktopInv'
<1>1. DesktopTypeOK
    BY DEF DesktopInv, DesktopTyped
<1>2. exec'.phase \in {"stranded", "replacing"} \/ exec' = NoExec
    BY <1>1 DEF Answer, DesktopTypeOK
<1> QED
    BY <1>2, AnswerStrands, AnswerSeats, AnswerReplaces

\* A request to activate.
LEMMA ActivationKeeps == ASSUME DesktopInv, StartActivation PROVE DesktopInv'
<1>1. \/ nextGen' = nextGen + 1
      \/ UNCHANGED <<nextGen, exec, ending>>
    BY DEF StartActivation
<1> QED
    BY <1>1, ActivationBegins, RequestAnswered

\* A request to deactivate.
LEMMA DeactivationKeeps == ASSUME DesktopInv, StartDeactivation PROVE DesktopInv'
<1>1. ending' # ending \/ UNCHANGED <<nextGen, exec, ending>>
    BY DEF StartDeactivation
<1> QED
    BY <1>1, DeactivationBegins, RequestAnswered

\* A drain ends.
LEMMA DrainedKeeps == ASSUME DesktopInv, NEW r \in Reqs, Drained(r) PROVE DesktopInv'
BY DrainPasses, SwitchGivesUp, DeactivationGivesUp

\* Every step keeps the invariant.
LEMMA DesktopStep == DesktopInv /\ [DesktopNext]_desktopVars => DesktopInv'
<1> SUFFICES ASSUME DesktopInv, [DesktopNext]_desktopVars PROVE DesktopInv'
    OBVIOUS
<1>1. CASE HostStep
    BY <1>1, QuietSteps, HearKeeps, TeardownEndsKeeps, LoadCommitsKeeps, QuitTeardownKeeps,
       PreparedKeeps, LoadSettlesKeeps
    DEF HostStep
<1>2. CASE ChildFences \/ ObserveNavigation \/ ObserveLoss
    BY <1>2, QuietSteps, ObserveNavigationKeeps, ObserveLossKeeps
<1>3. CASE StartActivation \/ StartSwitch \/ StagingFails \/ FirstCommit
    BY <1>3, ActivationKeeps, StartSwitchKeeps, StagingFailsKeeps, FirstCommitKeeps
<1>4. CASE StartDeactivation \/ Answer \/ Aftermath
    BY <1>4, DeactivationKeeps, AnswerKeeps, AftermathKeeps
<1>5. CASE \E r \in Reqs : Drained(r) \/ EndDeactivation(r) \/ EndSwitch(r)
    BY <1>5, DrainedKeeps, EndDeactivationKeeps, EndSwitchKeeps
<1>6. CASE Environment
    BY <1>6, ActivateKeeps, DeactivateKeeps, QuietSteps, ReloadKeeps, RendererLostKeeps,
       TargetDestroyedKeeps, GuardCompromisedKeeps, ChildBootsKeeps, RunCrashesKeeps
    DEF Environment
<1>7. CASE UNCHANGED desktopVars
    BY <1>7, DesktopStutters
<1> QED
    BY <1>1, <1>2, <1>3, <1>4, <1>5, <1>6, <1>7 DEF DesktopNext, ChildStep

----------------------------------------------------------------------------
(* The theorems.                                                           *)

\* Every reachable state of the desktop fits the invariant.
THEOREM DesktopInvariant == DesktopSpec => []DesktopInv
BY DesktopInitEstablishes, DesktopStep, PTL DEF DesktopSpec

\* Every variable of the desktop, the messages of both queues included, keeps
\* its type.
THEOREM DesktopTypeCorrect == DesktopSpec => [](DesktopTypeOK /\ QueuesTyped)
<1>1. DesktopInv => DesktopTypeOK /\ QueuesTyped
    BY DEF DesktopInv, DesktopTyped
<1> QED
    BY <1>1, DesktopInvariant, PTL

\* What the invariant says of a quiet state.
LEMMA QuietFits == ASSUME DesktopInv PROVE AuthorityFitsWindow
<1>i. DesktopTyped /\ ExecFits /\ GrantsFit /\ TrackedFits /\ CapsFit /\ SeatFits /\ DocumentsFit
    BY DEF DesktopInv
<1>n. MessagesFit
    BY MessagesTyped
<1> SUFFICES ASSUME Quiet PROVE AuthorityFitsWindow
    BY DEF AuthorityFitsWindow, InjectsTheSeat, EditorIsTheDocument
<1>1. InChild = {} /\ InHost = {} /\ open /\ exec.phase = "none" /\ quit = "no"
    BY DEF Quiet, Msgs, Pos, NoExec
<1>2. /\ caps \in {None, Now}
      /\ ~wiped /\ Now # None /\ Now \in grants => caps = Now
    BY <1>1, <1>i DEF CapsFit, Changing, LossPending
<1>3. active # 0 => Seated /\ Now = seat.cap /\ Now # None
    BY <1>1, <1>i, DesktopAssumption DEF ExecFits, Now, SeatCap, Seated, Caps
<1>4. \A c \in grants : c[2] = doc \/ (c[2] < win /\ c[1] # active)
    <2> SUFFICES ASSUME NEW c \in grants, c[2] # doc
                 PROVE  c[2] < win /\ c[1] # active
        OBVIOUS
    <2>1. c[2] < win
        BY <1>1, <1>i, <1>n DEF TrackedFits, Tracked, GrantsFit, MessagesFit
    <2>2. Seated /\ c = seat.cap => c[2] >= win
        BY <1>i DEF SeatFits
    <2> QED
        BY <1>i, <1>n, <2>1, <2>2 DEF GrantsFit, MessagesFit
<1> QED
    BY <1>2, <1>3, <1>4 DEF AuthorityFitsWindow, InjectsTheSeat, EditorIsTheDocument, Now

\* Whenever nothing is under way between the two processes, the window's
\* requests carry the seated session's capability exactly while the child's
\* authority grants it (unless a late clear took it), never another
\* session's; and no document of the window but the one shown is the editor.
THEOREM DesktopAuthorityFits == DesktopSpec => []AuthorityFitsWindow
BY DesktopInvariant, QuietFits, PTL

\* A deactivation ends the session it was clicked for, and what it empties
\* after its waits is that session's entry, unless that entry had been
\* emptied before.
THEOREM DesktopDeactivatesTheNamed == DesktopSpec => DeactivatesTheNamed
<1> DEFINE Named(r) ==
        req[r].kind = "deactivate" /\ ending[r].phase = "revoking" /\ ending'[r].phase = "none"
          => /\ ending[r].gen = req[r].sess
             /\ active' # active => active = req[r].sess \/ req[r].sess \in ousted
<1>1. ASSUME DesktopInv, [DesktopNext]_desktopVars, NEW r \in Reqs PROVE Named(r)
    <2> SUFFICES ASSUME req[r].kind = "deactivate", ending[r].phase = "revoking",
                        ending'[r].phase = "none"
                 PROVE  /\ ending[r].gen = req[r].sess
                        /\ active = req[r].sess \/ req[r].sess \in ousted
        OBVIOUS
    <2>1. ~Switching(r)
        BY <1>1 DEF Switching, DesktopInv, RequestsFit, ExecFits, NoExec
    <2> QED
        BY <1>1, <2>1 DEF DesktopInv, HoldsFit
<1>2. DesktopInv /\ [DesktopNext]_desktopVars => [\A r \in Reqs : Named(r)]_desktopVars
    BY <1>1
<1> QED
    BY <1>2, DesktopInvariant, PTL DEF DesktopSpec, DeactivatesTheNamed

============================================================================
