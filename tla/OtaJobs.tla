------------------------------ MODULE OtaJobs ------------------------------
(***************************************************************************)
(* Firmware updates over the air (ota_manager, the routes under             *)
(* /api/firmware/check, /update and /jobs): devices ask for updates,        *)
(* operators create jobs, devices report a job's progress.  A request reads *)
(* with one connection and writes with another; between the two any other   *)
(* request may be served, and the process may end.                          *)
(*                                                                         *)
(* Of the catalogue only the set of ACTIVE releases is seen here; it        *)
(* changes as ActiveReleases says, which FirmwareReleases implements.       *)
(***************************************************************************)
EXTENDS Firmware, FiniteSets

CONSTANTS
    Node, Job, NoRelease,
    LinesOf,     \* the lines of a node's hardware, one per channel
    OtaThread,   \* threads that serve a request
    MaxOverlaps  \* bound: jobs and nodes with overlapping requests

ASSUME OtaAssumption == NoRelease \notin Release /\ MaxOverlaps \in Nat /\ LinesOf \in [Node -> SUBSET Line]

VARIABLES
    active,      \* the ACTIVE releases
    jobs,        \* table firmware_update_jobs
    devices,     \* table device_firmware
    work,        \* what each thread has read and will do next
    raced,       \* history: jobs of which two updates overlapped
    doubled      \* history: nodes for which two creations of a job overlapped

otaVars == <<active, jobs, devices, work, raced, doubled>>

-----------------------------------------------------------------------------

\* ALLOWED_JOB_TRANSITIONS; a job starts as UPDATE_AVAILABLE or APPROVED.
JobTransitions ==
    [UPDATE_AVAILABLE |-> {"APPROVED", "CANCELLED", "FAILED"},
     APPROVED      |-> {"DOWNLOADING", "CANCELLED", "FAILED"},
     DOWNLOADING   |-> {"VERIFYING", "FAILED", "CANCELLED"},
     VERIFYING     |-> {"READY_TO_BOOT", "FAILED", "CANCELLED"},
     READY_TO_BOOT |-> {"REBOOTING", "FAILED", "CANCELLED"},
     REBOOTING     |-> {"VALIDATING", "FAILED", "ROLLBACK"},
     VALIDATING    |-> {"SUCCESS", "FAILED", "ROLLBACK"},
     SUCCESS |-> {}, FAILED |-> {"ROLLBACK"}, ROLLBACK |-> {}, CANCELLED |-> {}]
JobStates == DOMAIN JobTransitions
Settled == {"SUCCESS", "FAILED", "ROLLBACK", "CANCELLED"}      \* TERMINAL_STATES

Version == {0} \cup {VersionOf[r] : r \in Release}
JobRow == [state : JobStates, node : Node, release : Release]
NoJob == [state |-> "ABSENT"]
Device == [state : JobStates \cup {"UNKNOWN", "IDLE", "CHECKING"}, current : Version,
           target : Release \cup {NoRelease}]

Idle == [at |-> "NONE"]
Check == [at : {"CHECKING"}, node : Node, line : Line, current : Version, downgrade : BOOLEAN]
Creation == [at : {"READ", "ALONE"}, node : Node, release : Release, state : JobStates]
Update == [at : {"UPDATE"}, job : Job, seen : JobRow, to : JobStates]

OtaTypeOK ==
    /\ active \subseteq Release
    /\ jobs \in [Job -> JobRow \cup {NoJob}]
    /\ devices \in [Node -> Device]
    /\ work \in [OtaThread -> {Idle} \cup Check \cup Creation \cup Update]
    /\ raced \subseteq Job /\ doubled \subseteq Node

OtaInit ==
    /\ active = {}
    /\ jobs = [j \in Job |-> NoJob]
    /\ devices = [n \in Node |-> [state |-> "UNKNOWN", current |-> 0, target |-> NoRelease]]
    /\ work = [t \in OtaThread |-> Idle]
    /\ raced = {} /\ doubled = {}

\* Histories within the bound.
Bounded(races, doubles) == Cardinality(races) + Cardinality(doubles) <= MaxOverlaps

Turn(t, next) == work' = [work EXCEPT ![t] = next]

-----------------------------------------------------------------------------
(* The catalogue.                                                          *)

Catalogue == INSTANCE ActiveReleases

\* update_release_status: a newly active release replaces the one of its line.
Activate(r) ==
    /\ Catalogue!Activate(r)
    /\ UNCHANGED <<jobs, devices, work, raced, doubled>>

Withdraw(r) ==
    /\ Catalogue!Withdraw(r)
    /\ UNCHANGED <<jobs, devices, work, raced, doubled>>

-----------------------------------------------------------------------------
(* check_for_update.                                                       *)

\* upsert_device_state replaces every column.
Upsert(n, state, current, target) ==
    devices' = [devices EXCEPT ![n] = [state |-> state, current |-> current, target |-> target]]

\* What ota_config.json says at this moment is the operator's choice: updates are
\* enabled, and downgrades are allowed or not.
CheckBegins(t, n, line, current, downgrade) ==
    /\ work[t] = Idle
    /\ line \in LinesOf[n]
    /\ Upsert(n, "CHECKING", current, NoRelease)
    /\ Turn(t, [at |-> "CHECKING", node |-> n, line |-> line, current |-> current,
                downgrade |-> downgrade])
    /\ UNCHANGED <<active, jobs, raced, doubled>>

\* find_update: the highest ACTIVE release of the line, if it is newer.
Found(line, current, downgrade) ==
    {r \in active : /\ LineOf[r] = line
                    /\ downgrade \/ VersionOf[r] > current
                    /\ \A s \in active : LineOf[s] = line => VersionOf[s] <= VersionOf[r]}

\* The releases are read and the row is written: a release that is withdrawn in
\* between leaves the same row as one that is withdrawn right after.
CheckStores(t) ==
    /\ work[t].at = "CHECKING"
    /\ LET w == work[t]  found == Found(w.line, w.current, w.downgrade) IN
         \/ /\ found = {}
            /\ Upsert(w.node, "IDLE", w.current, NoRelease)
         \/ \E r \in found : Upsert(w.node, "UPDATE_AVAILABLE", w.current, r)
    /\ Turn(t, Idle)
    /\ UNCHANGED <<active, jobs, raced, doubled>>

-----------------------------------------------------------------------------
(* create_update_job.                                                      *)

Compatible(r, n) == LineOf[r] \in LinesOf[n]

\* Threads that are creating a job for the node.
Creators(n) == {t \in OtaThread : work[t].at \in {"READ", "ALONE"} /\ work[t].node = n}

\* The release and the device are read and checked.
JobReads(t, n, r, authorized) ==
    /\ work[t] = Idle
    /\ r \in active
    /\ devices[n].state # "UNKNOWN" /\ Compatible(r, n)
    /\ Turn(t, [at |-> "READ", node |-> n, release |-> r,
                state |-> IF authorized THEN "APPROVED" ELSE "UPDATE_AVAILABLE"])
    /\ doubled' = IF Creators(n) = {} THEN doubled ELSE doubled \cup {n}
    /\ Bounded(raced, doubled')
    /\ UNCHANGED <<active, jobs, devices, raced>>

Active(j, n) == jobs[j].state \notin Settled \cup {"ABSENT"} /\ jobs[j].node = n

\* Mistake: only jobs in the state of a new one are looked for.
JobChecksNew(t) ==
    /\ work[t].at = "READ"
    /\ IF \E j \in Job : Active(j, work[t].node) /\ jobs[j].state = work[t].state
       THEN Turn(t, Idle) ELSE Turn(t, [work[t] EXCEPT !.at = "ALONE"])
    /\ UNCHANGED <<active, jobs, devices, raced, doubled>>

\* The SELECT before the transaction of the INSERT.
JobChecks(t) ==
    /\ work[t].at = "READ"
    /\ IF \E j \in Job : Active(j, work[t].node)
       THEN Turn(t, Idle) ELSE Turn(t, [work[t] EXCEPT !.at = "ALONE"])
    /\ UNCHANGED <<active, jobs, devices, raced, doubled>>

\* The job and the device's row, in one transaction.
JobInserts(t, j) ==
    /\ work[t].at = "ALONE"
    /\ jobs[j] = NoJob
    /\ LET w == work[t] IN
         /\ jobs' = [jobs EXCEPT ![j] = [state |-> w.state, node |-> w.node, release |-> w.release]]
         /\ devices' = [devices EXCEPT ![w.node].state = w.state, ![w.node].target = w.release]
    /\ Turn(t, Idle)
    /\ UNCHANGED <<active, raced, doubled>>

-----------------------------------------------------------------------------
(* update_job_state.                                                       *)

Updaters(j) == {t \in OtaThread : work[t].at = "UPDATE" /\ work[t].job = j}

\* Mistake: a settled job may be reported as failed.
MayMoveLate(from, to) == to = from \/ to \in JobTransitions[from] \/ to = "FAILED"

\* A report of the state the job is in is accepted.
MayMove(from, to) == to = from \/ to \in JobTransitions[from]

\* The job is read and the transition is checked against it.
UpdateReads(t, j, to) ==
    /\ work[t] = Idle
    /\ jobs[j] # NoJob /\ MayMove(jobs[j].state, to)
    /\ Turn(t, [at |-> "UPDATE", job |-> j, seen |-> jobs[j], to |-> to])
    /\ raced' = IF Updaters(j) = {} THEN raced ELSE raced \cup {j}
    /\ Bounded(raced', doubled)
    /\ UNCHANGED <<active, jobs, devices, doubled>>

\* Mistake: the target stays when a job is cancelled.
ReportedKeeping(device, job, to) ==
    [device EXCEPT !.state = to,
       !.current = IF to = "SUCCESS" THEN VersionOf[job.release] ELSE @,
       !.target = IF to \in {"SUCCESS", "ROLLBACK"} THEN NoRelease ELSE @]

\* The device's row after a report: a failure keeps the target, the other ends clear it.
Reported(device, job, to) ==
    [device EXCEPT !.state = to,
       !.current = IF to = "SUCCESS" THEN VersionOf[job.release] ELSE @,
       !.target = IF to \in Settled \ {"FAILED"} THEN NoRelease ELSE @]

\* The job's and the device's row, in one transaction, whatever they are by now.
UpdateWrites(t) ==
    /\ work[t].at = "UPDATE"
    /\ LET w == work[t] IN
         /\ jobs' = [jobs EXCEPT ![w.job].state = w.to]
         /\ devices' = [devices EXCEPT ![w.seen.node] = Reported(@, w.seen, w.to)]
    /\ Turn(t, Idle)
    /\ UNCHANGED <<active, raced, doubled>>

\* The process ends and is started again.
OtaCrash ==
    /\ work' = [t \in OtaThread |-> Idle]
    /\ UNCHANGED <<active, jobs, devices, raced, doubled>>

\* The routes: a check, by the device or from its page; a job; a report of one.
CheckNext(t) ==
    \/ \E n \in Node, line \in Line, current \in Version, downgrade \in BOOLEAN :
         CheckBegins(t, n, line, current, downgrade)
    \/ CheckStores(t)

JobNext(t) ==
    \/ \E n \in Node, r \in Release, authorized \in BOOLEAN : JobReads(t, n, r, authorized)
    \/ JobChecks(t)
    \/ \E j \in Job : JobInserts(t, j)

UpdateNext(t) ==
    \/ \E j \in Job, to \in JobStates : UpdateReads(t, j, to)
    \/ UpdateWrites(t)

OtaNext ==
    \/ \E t \in OtaThread : CheckNext(t) \/ JobNext(t) \/ UpdateNext(t)
    \/ \E r \in Release : Activate(r) \/ Withdraw(r)
    \/ OtaCrash

OtaSpec == OtaInit /\ [][OtaNext]_otaVars

-----------------------------------------------------------------------------
(* Properties.                                                             *)

\* A device's jobs never overlap as long as its requests do not: if no two
\* creations for a node overlapped, and no two reports of one of its jobs, it
\* has at most one job that is not settled, whatever else runs in between
\* ("Device already has active OTA job", create_update_job).
OneJobPerNode ==
    \A n \in Node \ doubled, j, k \in Job \ raced : Active(j, n) /\ Active(k, n) => j = k

\* A job that succeeded, was rolled back or was cancelled stays so, unless two
\* reports of it overlapped (ALLOWED_JOB_TRANSITIONS is checked against the
\* state that was read, update_job_state).
SettledStays ==
    [][\A j \in Job \ raced : jobs[j].state \in Settled \ {"FAILED"} => jobs'[j] = jobs[j]]_otaVars

\* A device that is shown as idle, checking or at the end of an update has no
\* target, in whatever order checks, jobs and reports write its row.
NoTargetAtRest ==
    \A n \in Node :
        devices[n].state \in {"UNKNOWN", "IDLE", "CHECKING", "SUCCESS", "ROLLBACK", "CANCELLED"}
        => devices[n].target = NoRelease

\* The jobs are what they would be if every request were one step, however reads
\* and writes interleave and wherever the process ends, except where two requests
\* about the same job or the same device overlapped: a job keeps its device and its
\* release, follows ALLOWED_JOB_TRANSITIONS and is only created for a device that
\* has no open one (create_update_job, update_job_state).
Promised == INSTANCE JobPromise WITH
    Row     <- JobRow,
    First   <- {"UPDATE_AVAILABLE", "APPROVED"},
    Follows <- [from \in JobStates |-> JobTransitions[from] \cup {from}]
JobsAreKept == Promised!Spec

\* What the threads know of the rows they have read.
WorkIsSound ==
    /\ \A t \in OtaThread :
         /\ work[t].at = "UPDATE" =>
              /\ jobs[work[t].job] # NoJob
              /\ MayMove(work[t].seen.state, work[t].to)
              /\ work[t].seen.node = jobs[work[t].job].node
              /\ work[t].job \notin raced => work[t].seen = jobs[work[t].job]
         /\ work[t].at \in {"READ", "ALONE"} => work[t].state \in {"APPROVED", "UPDATE_AVAILABLE"}
         /\ work[t].at = "ALONE" /\ work[t].node \notin doubled =>
              \A j \in Job \ raced : ~Active(j, work[t].node)
    /\ \A t, u \in OtaThread, j \in Job \ raced : t \in Updaters(j) /\ u \in Updaters(j) => t = u
    /\ \A t, u \in OtaThread, n \in Node \ doubled : t \in Creators(n) /\ u \in Creators(n) => t = u

\* The inductive invariant of the proofs.
OtaInv == OtaTypeOK /\ OneJobPerNode /\ NoTargetAtRest /\ WorkIsSound

=============================================================================
