---------------------------- MODULE BackupRestore ----------------------------
(***************************************************************************)
(* Backups of the data directory and their restoration (backup_manager, the *)
(* preflight of gateway_runtime).  The server, or a restoration, holds      *)
(* gateway.lock; a backup holds backup.lock only, so it can run beside      *)
(* either.  Both locks end with their process.  A restoration replaces file *)
(* after file under a marker on disk; what it needs to undo itself is in    *)
(* memory.                                                                 *)
(***************************************************************************)
EXTENDS Integers, FiniteSets

CONSTANTS
    File, Database,     \* the files of an archive; the SQLite databases among them
    LastArchive,        \* bound: archives are numbered by their age, from 0
    Keep                \* backup_keep, at least 2

ASSUME BackupAssumption ==
    /\ Database \subseteq File /\ IsFiniteSet(File) /\ File # {}
    /\ LastArchive \in Nat /\ Keep \in Nat /\ Keep >= 2

VARIABLES
    data,        \* the state of the Gateway each file belongs to
    side,        \* likewise for the journal beside a database
    archives,    \* the archives there are, and their content
    marker,      \* restore.pending.json: the archive it names, if it is there
    running,     \* a server runs
    restore,     \* the restoration that runs
    backup,      \* the backup that runs
    before,      \* history: the data when the marker was set
    clashed,     \* history: a backup began between a restoration's own and its marker,
                 \* or removed the archive that a restoration had begun with
    undone       \* history: a restoration that resumed another was undone

backupVars == <<data, side, archives, marker, running, restore, backup, before, clashed, undone>>

\* The data the Gateway ran on, and the data archive 0 was made of.
States == {"LIVE", "PAST"}
None == "NONE"
Contents == [File -> States]
Partial == [File -> States \cup {None}]
ArchiveId == 0..LastArchive
Gone == [f \in File |-> None]        \* no such archive

NoRestore == [at |-> None, archive |-> 0, new |-> Gone, left |-> {}, old |-> Gone,
              oldSide |-> [f \in Database |-> None], resumes |-> FALSE]
Restoration ==
    [at : {None, "SAVING", "SAVED", "REPLACING", "UNDOING"}, archive : ArchiveId, resumes : BOOLEAN,
     left : SUBSET File, new : Partial, old : Partial, oldSide : [Database -> States \cup {None}]]
NoBackup == [at |-> None, left |-> {}, taken |-> Gone]

BackupTypeOK ==
    /\ data \in Contents
    /\ side \in [Database -> States \cup {None}]
    /\ archives \in [ArchiveId -> Contents \cup {Gone}]
    /\ marker \in {{}} \cup {{a} : a \in ArchiveId}
    /\ {running, clashed, undone} \subseteq BOOLEAN
    /\ restore \in Restoration
    /\ backup \in [at : {None, "READING"}, left : SUBSET File, taken : Partial]
    /\ before \in Contents

BackupInit ==
    /\ data = [f \in File |-> "LIVE"] /\ before = data
    /\ side = [f \in Database |-> None]
    /\ archives = [a \in ArchiveId |-> IF a = 0 THEN [f \in File |-> "PAST"] ELSE Gone]
    /\ marker = {} /\ running = FALSE
    /\ restore = NoRestore /\ backup = NoBackup
    /\ clashed = FALSE /\ undone = FALSE

There(kept) == {a \in ArchiveId : kept[a] # Gone}

-----------------------------------------------------------------------------
(* The server.                                                             *)

\* Runtime.serve: gateway.lock is free and no marker is there.  SQLite rolls the
\* journals it finds into the databases.
ServerStarts ==
    /\ ~running /\ restore.at = None
    /\ marker = {}
    /\ running' = TRUE
    /\ side' = [f \in Database |-> None]
    /\ UNCHANGED <<data, archives, marker, restore, backup, before, clashed, undone>>

ServerStops ==
    /\ running /\ running' = FALSE
    /\ UNCHANGED <<data, side, archives, marker, restore, backup, before, clashed, undone>>

\* The process ends amid transactions: their journals stay.
ServerDies ==
    /\ running /\ running' = FALSE
    /\ side' = [f \in Database |-> data[f]]
    /\ UNCHANGED <<data, archives, marker, restore, backup, before, clashed, undone>>

-----------------------------------------------------------------------------
(* create.                                                                 *)

\* The newest archives, and the one that is protected.
Retained(kept, protected) ==
    [a \in ArchiveId |-> IF Cardinality({b \in There(kept) : b >= a}) <= Keep \/ a \in protected
                         THEN kept[a] ELSE Gone]

\* A new archive, the youngest, within the bound.
Archived(content, protected) ==
    \E id \in ArchiveId :
        /\ id - 1 \in There(archives) \cup {0} /\ \A a \in There(archives) : a < id
        /\ archives' = Retained([archives EXCEPT ![id] = content], protected)

\* By the server's schedule, or from the command line.
BackupBegins ==
    /\ backup.at = None
    /\ marker = {}
    /\ backup' = [at |-> "READING", left |-> File, taken |-> Gone]
    /\ clashed' = (clashed \/ restore.at = "SAVED")
    /\ UNCHANGED <<data, side, archives, marker, running, restore, before, undone>>

\* Each file is read at its own time.
BackupReads(f) ==
    /\ backup.at = "READING" /\ f \in backup.left
    /\ backup' = [backup EXCEPT !.left = @ \ {f}, !.taken[f] = data[f]]
    /\ UNCHANGED <<data, side, archives, marker, running, restore, before, clashed, undone>>

BackupEnds ==
    /\ backup.at = "READING" /\ backup.left = {}
    /\ Archived(backup.taken, {})
    /\ backup' = NoBackup
    /\ clashed' = (clashed \/ (restore.at # None /\ archives'[restore.archive] = Gone))
    /\ UNCHANGED <<data, side, marker, running, restore, before, undone>>

\* It fails, or its process ends.
BackupFails ==
    /\ backup.at = "READING"
    /\ backup' = NoBackup
    /\ UNCHANGED <<data, side, archives, marker, running, restore, before, clashed, undone>>

-----------------------------------------------------------------------------
(* restore.                                                                *)

\* gateway.lock is free, a marker names this archive, and the archive, which is
\* read into memory, verifies.
RestoreBegins(a) ==
    /\ ~running /\ restore.at = None
    /\ archives[a] # Gone
    /\ marker \subseteq {a}
    /\ restore' = [NoRestore EXCEPT !.at = IF marker = {} THEN "SAVING" ELSE "SAVED",
                     !.archive = a, !.new = archives[a], !.resumes = marker # {}]
    /\ UNCHANGED <<data, side, archives, marker, running, backup, before, clashed, undone>>

\* The data are backed up first; nothing else writes them meanwhile.
RestoreSaves ==
    /\ restore.at = "SAVING"
    /\ backup.at = None
    /\ Archived(data, {restore.archive})
    /\ restore' = [restore EXCEPT !.at = "SAVED"]
    /\ UNCHANGED <<data, side, marker, running, backup, before, clashed, undone>>

\* That backup fails, as it does when another one holds backup.lock.
RestoreRefused ==
    /\ restore.at = "SAVING"
    /\ restore' = NoRestore
    /\ UNCHANGED <<data, side, archives, marker, running, backup, before, clashed, undone>>

RestoreMarks ==
    /\ restore.at = "SAVED"
    /\ marker' = {restore.archive}
    /\ restore' = [restore EXCEPT !.at = "REPLACING", !.left = File]
    /\ before' = IF marker = {} THEN data ELSE before
    /\ UNCHANGED <<data, side, archives, running, backup, clashed, undone>>

\* A journal is put aside before its database is replaced.
MoveSide(f) ==
    /\ restore.at = "REPLACING" /\ f \in restore.left
    /\ side[f] # None
    /\ restore' = [restore EXCEPT !.oldSide[f] = side[f]]
    /\ side' = [side EXCEPT ![f] = None]
    /\ UNCHANGED <<data, archives, marker, running, backup, before, clashed, undone>>

\* os.replace: a file is replaced whole.
ReplaceFile(f) ==
    /\ restore.at = "REPLACING" /\ f \in restore.left
    /\ f \in Database => side[f] = None
    /\ data' = [data EXCEPT ![f] = restore.new[f]]
    /\ restore' = [restore EXCEPT !.left = @ \ {f}, !.old[f] = data[f]]
    /\ UNCHANGED <<side, archives, marker, running, backup, before, clashed, undone>>

\* Mistake: the marker is removed when the last file is not replaced yet.
RestoreEndsEarly ==
    /\ restore.at = "REPLACING" /\ Cardinality(restore.left) <= 1
    /\ marker' = {}
    /\ restore' = NoRestore
    /\ UNCHANGED <<data, side, archives, running, backup, before, clashed, undone>>

RestoreEnds ==
    /\ restore.at = "REPLACING" /\ restore.left = {}
    /\ marker' = {}
    /\ restore' = NoRestore
    /\ UNCHANGED <<data, side, archives, running, backup, before, clashed, undone>>

\* Any exception among the replacements.
RestoreFails ==
    /\ restore.at = "REPLACING"
    /\ restore' = [restore EXCEPT !.at = "UNDOING"]
    /\ undone' = (undone \/ restore.resumes)
    /\ UNCHANGED <<data, side, archives, marker, running, backup, before, clashed>>

Touched == {f \in File : restore.old[f] # None}
TouchedSides == {f \in Database : restore.oldSide[f] # None}

\* What was touched gets back what it held when this restoration touched it, a
\* database before its journal.
UndoFile(f) ==
    /\ restore.at = "UNDOING" /\ f \in Touched
    /\ data' = [data EXCEPT ![f] = restore.old[f]]
    /\ restore' = [restore EXCEPT !.old[f] = None]
    /\ UNCHANGED <<side, archives, marker, running, backup, before, clashed, undone>>

UndoSide(f) ==
    /\ restore.at = "UNDOING" /\ f \in TouchedSides \ Touched
    /\ side' = [side EXCEPT ![f] = restore.oldSide[f]]
    /\ restore' = [restore EXCEPT !.oldSide[f] = None]
    /\ UNCHANGED <<data, archives, marker, running, backup, before, clashed, undone>>

UndoEnds ==
    /\ restore.at = "UNDOING" /\ Touched = {} /\ TouchedSides = {}
    /\ marker' = {}
    /\ restore' = NoRestore
    /\ UNCHANGED <<data, side, archives, running, backup, before, clashed, undone>>

\* The undoing raises, or the process of the restoration ends.
RestoreDies ==
    /\ restore.at # None
    /\ restore' = NoRestore
    /\ UNCHANGED <<data, side, archives, marker, running, backup, before, clashed, undone>>

BackupNext ==
    \/ ServerStarts \/ ServerStops \/ ServerDies
    \/ BackupBegins \/ BackupEnds \/ BackupFails
    \/ \E f \in File : BackupReads(f) \/ ReplaceFile(f) \/ UndoFile(f)
    \/ \E f \in Database : MoveSide(f) \/ UndoSide(f)
    \/ \E a \in ArchiveId : RestoreBegins(a)
    \/ RestoreSaves \/ RestoreRefused \/ RestoreMarks \/ RestoreEnds
    \/ RestoreFails \/ UndoEnds \/ RestoreDies

BackupSpec == BackupInit /\ [][BackupNext]_backupVars

-----------------------------------------------------------------------------
(* Properties.                                                             *)

OneState(content) == \A f, g \in File : content[f] = content[g]

\* "An apply creates a pre-restore backup and durable recovery marker"
\* (manual_content.py); "restore marker blocks mixed backups"
\* (test_deployment_runtime.py): no server runs on files of two states.
NeverMixed == running => OneState(data)

\* So it is, unless a restoration that resumed an interrupted one was undone, or
\* a backup ran into a restoration.
MarkerBlocksMixture ==
    ~undone /\ ~clashed /\ marker = {} /\ restore.at = None =>
        OneState(data) /\ \A f \in Database : side[f] \in {None, data[f]}

\* What an interrupted restoration needs is there, unless a backup ran into it:
\* the archive the marker demands, and one of the data as they were.
InterruptedCanResume ==
    marker # {} /\ ~clashed =>
        marker \subseteq There(archives) /\ \E a \in ArchiveId : archives[a] = before

Calm == ~clashed /\ ~undone

\* Archives are whole, and so are the data where no marker is.
WholeIsSound ==
    Calm =>
        /\ \A a \in There(archives) : OneState(archives[a])
        /\ marker = {} => OneState(data) /\ \A f \in Database : side[f] \in {None, data[f]}

\* What a backup has read is what the data are.
BackupIsSound ==
    backup.at = "READING" =>
        /\ \A f \in File \ backup.left : backup.taken[f] # None
        /\ ~clashed => /\ marker = {} /\ restore.at \in {None, "SAVING"}
                       /\ \A f \in File \ backup.left : backup.taken[f] = data[f]

\* A restoration's marker, its archive and the one it can go back to.
RestorationIsSound ==
    /\ running => restore.at = None /\ marker = {}
    /\ restore.resumes => restore.at \notin {None, "SAVING"}
    /\ restore.at = "SAVING" => marker = {}
    /\ restore.at = "SAVED" => marker = IF restore.resumes THEN {restore.archive} ELSE {}
    /\ restore.at \in {"REPLACING", "UNDOING"} => marker = {restore.archive}
    /\ restore.at # None => restore.new \in Contents /\ (Calm => OneState(restore.new))
    /\ restore.at # None /\ ~clashed => archives[restore.archive] = restore.new
    /\ restore.at = "SAVED" /\ ~restore.resumes /\ ~clashed =>
        \E a \in ArchiveId : archives[a] = data

\* What a restoration holds of the data it replaces.
ReplacementIsSound ==
    /\ restore.at \notin {"REPLACING", "UNDOING"} => Touched = {} /\ TouchedSides = {}
    /\ restore.at = "REPLACING" =>
        /\ \A f \in restore.left : restore.old[f] = None
        /\ \A f \in File \ restore.left :
            data[f] = restore.new[f] /\ (f \in Database => side[f] = None)
    /\ restore.at = "UNDOING" /\ restore.resumes => undone
    /\ restore.at \in {"REPLACING", "UNDOING"} /\ ~restore.resumes /\ Calm =>
        /\ OneState(before)
        /\ \A f \in File : IF f \in Touched THEN restore.old[f] = before[f] ELSE data[f] = before[f]
        /\ \A f \in Database : {side[f], restore.oldSide[f]} \subseteq {None, before[f]}

\* A backup that ran into a restoration, or an undone resumption, is what the code
\* does not survive (the run `mixed`); until then the data are those a demanded
\* restoration found, or what its archive holds.
Promise == INSTANCE RestorePromise WITH
    Archive <- ArchiveId, Content <- {c \in Contents : OneState(c)}, Absent <- Gone,
    content <- IF marker = {} THEN data ELSE before, kept <- archives,
    demanded <- marker, serving <- running, void <- clashed \/ undone

\* "If interrupted, inspect the marker/recovery result before restarting"
\* (manual_content.py): what takes many files, and may end between any two of them,
\* is one step to whoever waits for the marker to go.
KeepsRestorePromise == Promise!Spec

RestoreInv ==
    /\ BackupTypeOK /\ MarkerBlocksMixture /\ InterruptedCanResume
    /\ WholeIsSound /\ BackupIsSound /\ RestorationIsSound /\ ReplacementIsSound

=============================================================================
