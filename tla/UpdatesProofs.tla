---------------------------- MODULE UpdatesProofs ----------------------------
(***************************************************************************)
(* Proofs about OtaJobs, for every set of releases, nodes, jobs and         *)
(* threads, and any number of overlapping requests; about TransportSwitch,  *)
(* for any number of transactions, commands, retries and cut-off requests;  *)
(* and about the runs that hold both beside the catalogue.                  *)
(***************************************************************************)
EXTENDS MCUpdates, FirmwareReleasesProofs

\* What a thread has read, against the rows as they are.
WorkerIsSound(t) ==
    /\ work[t].at = "UPDATE" =>
         /\ jobs[work[t].job] # NoJob
         /\ MayMove(work[t].seen.state, work[t].to)
         /\ work[t].seen.node = jobs[work[t].job].node
         /\ work[t].job \notin raced => work[t].seen = jobs[work[t].job]
    /\ work[t].at \in {"READ", "ALONE"} => work[t].state \in {"APPROVED", "UPDATE_AVAILABLE"}
    /\ work[t].at = "ALONE" /\ work[t].node \notin doubled =>
         \A j \in Job \ raced : ~Active(j, work[t].node)

UpdatesApart ==
    \A t, u \in OtaThread, j \in Job \ raced : t \in Updaters(j) /\ u \in Updaters(j) => t = u
CreationsApart ==
    \A t, u \in OtaThread, n \in Node \ doubled : t \in Creators(n) /\ u \in Creators(n) => t = u

LEMMA WorkParts ==
    WorkIsSound <=> (\A t \in OtaThread : WorkerIsSound(t)) /\ UpdatesApart /\ CreationsApart
BY DEF WorkIsSound, WorkerIsSound, UpdatesApart, CreationsApart

---------------------------------------------------------------------------
(* States, rows and requests.                                              *)

LEMMA JobStatesAre ==
    JobStates = {"UPDATE_AVAILABLE", "APPROVED", "DOWNLOADING", "VERIFYING", "READY_TO_BOOT",
                 "REBOOTING", "VALIDATING", "SUCCESS", "FAILED", "ROLLBACK", "CANCELLED"}
BY DEF JobStates, JobTransitions

\* From a settled state no transition leads to one that is not, and only a failure moves on.
LEMMA SettledEnds ==
    ASSUME NEW from \in Settled, NEW to, MayMove(from, to)
    PROVE  to \in Settled /\ (from # "FAILED" => to = from)
BY DEF Settled, MayMove, JobTransitions

LEMMA WorkFields ==
    ASSUME OtaTypeOK, NEW t \in OtaThread
    PROVE  /\ work[t].at \in {"NONE", "CHECKING", "READ", "ALONE", "UPDATE"}
           /\ work[t].at = "NONE" => work[t] = Idle
           /\ work[t].at = "CHECKING" => work[t] \in Check
           /\ work[t].at \in {"READ", "ALONE"} => work[t] \in Creation
           /\ work[t].at = "UPDATE" => work[t] \in Update
BY DEF OtaTypeOK, Idle, Check, Creation, Update

LEMMA JobFields ==
    ASSUME OtaTypeOK, NEW j \in Job
    PROVE  /\ jobs[j] # NoJob => jobs[j] \in JobRow /\ jobs[j].state # "ABSENT"
           /\ NoJob.state = "ABSENT"
BY JobStatesAre DEF OtaTypeOK, JobRow, NoJob

---------------------------------------------------------------------------
(* The initial state.                                                      *)

LEMMA OtaInitKeeps == OtaInit => OtaInv
<1> SUFFICES ASSUME OtaInit PROVE OtaInv
  OBVIOUS
<1> USE DEF OtaInit
<1>1. OtaTypeOK
  <2>1. [state |-> "UNKNOWN", current |-> 0, target |-> NoRelease] \in Device
    BY DEF Device, Version
  <2> QED BY <2>1 DEF OtaTypeOK
<1>2. OneJobPerNode /\ NoTargetAtRest
  BY DEF OneJobPerNode, NoTargetAtRest, Active, NoJob
<1>3. WorkIsSound
  BY DEF WorkIsSound, Idle, Updaters, Creators
<1> QED BY <1>1, <1>2, <1>3 DEF OtaInv

---------------------------------------------------------------------------
(* Steps that change one thread's request and no job.                      *)

\* A thread that neither updates nor creates has nothing to be sound about.
LEMMA RestKeeps ==
    ASSUME OtaInv, NEW t \in OtaThread, NEW next \in {Idle} \cup Check, Turn(t, next),
           UNCHANGED <<jobs, raced, doubled>>
    PROVE  OneJobPerNode' /\ WorkIsSound'
<1>1. OtaTypeOK /\ OneJobPerNode /\ (\A u \in OtaThread : WorkerIsSound(u)) /\ UpdatesApart /\ CreationsApart
  BY WorkParts DEF OtaInv
<1>2. next.at \in {"NONE", "CHECKING"}
  BY DEF Idle, Check
<1>3. work' = [work EXCEPT ![t] = next] /\ work \in [OtaThread -> {Idle} \cup Check \cup Creation \cup Update]
  BY <1>1 DEF Turn, OtaTypeOK
<1>4. OneJobPerNode'
  BY <1>1 DEF OneJobPerNode, Active
<1>5. (\A u \in OtaThread : WorkerIsSound(u))'
  BY <1>1, <1>2, <1>3 DEF WorkerIsSound, Active
<1>6. UpdatesApart' /\ CreationsApart'
  BY <1>1, <1>2, <1>3 DEF UpdatesApart, CreationsApart, Updaters, Creators
<1> QED BY <1>4, <1>5, <1>6 DEF WorkIsSound, WorkerIsSound, UpdatesApart, CreationsApart

LEMMA CheckKeeps ==
    ASSUME OtaInv, NEW t \in OtaThread, CheckNext(t)
    PROVE  OtaInv'
<1>1. OtaTypeOK /\ NoTargetAtRest
  BY DEF OtaInv
<1>2. ASSUME NEW n \in Node, NEW line \in Line, NEW current \in Version, NEW downgrade \in BOOLEAN,
             CheckBegins(t, n, line, current, downgrade)
      PROVE  OtaInv'
  <2> DEFINE next == [at |-> "CHECKING", node |-> n, line |-> line, current |-> current,
                      downgrade |-> downgrade]
  <2>1. next \in Check /\ Turn(t, next) /\ UNCHANGED <<active, jobs, raced, doubled>>
    BY <1>2 DEF Check, CheckBegins
  <2>2. OneJobPerNode' /\ WorkIsSound'
    BY <2>1, RestKeeps
  <2>3. devices' = [devices EXCEPT ![n] = [state |-> "CHECKING", current |-> current, target |-> NoRelease]]
    BY <1>2 DEF CheckBegins, Upsert
  <2>4. OtaTypeOK'
    <3>1. [state |-> "CHECKING", current |-> current, target |-> NoRelease] \in Device
      BY DEF Device
    <3> QED BY <1>1, <2>1, <2>3, <3>1 DEF OtaTypeOK, Turn
  <2>5. NoTargetAtRest'
    BY <1>1, <2>3 DEF NoTargetAtRest, OtaTypeOK
  <2> QED BY <2>2, <2>4, <2>5 DEF OtaInv
<1>3. ASSUME CheckStores(t) PROVE OtaInv'
  <2>1. work[t] \in Check
    BY <1>1, <1>3, WorkFields DEF CheckStores
  <2>2. Turn(t, Idle) /\ UNCHANGED <<active, jobs, raced, doubled>>
    BY <1>3 DEF CheckStores
  <2>3. OneJobPerNode' /\ WorkIsSound'
    BY <2>2, RestKeeps
  <2>4. PICK state \in {"IDLE", "UPDATE_AVAILABLE"}, target \in Release \cup {NoRelease} :
          /\ devices' = [devices EXCEPT ![work[t].node] =
               [state |-> state, current |-> work[t].current, target |-> target]]
          /\ state = "IDLE" => target = NoRelease
    BY <1>1, <1>3 DEF CheckStores, Upsert, Found, OtaTypeOK
  <2>5. OtaTypeOK'
    <3>1. [state |-> state, current |-> work[t].current, target |-> target] \in Device
      BY <2>1, JobStatesAre DEF Device, Check
    <3>2. work' \in [OtaThread -> {Idle} \cup Check \cup Creation \cup Update]
      BY <1>1, <2>2 DEF OtaTypeOK, Turn
    <3>3. devices' \in [Node -> Device]
      BY <1>1, <2>4, <3>1 DEF OtaTypeOK
    <3> QED BY <1>1, <2>2, <3>2, <3>3 DEF OtaTypeOK
  <2>6. NoTargetAtRest'
    BY <1>1, <2>1, <2>4 DEF NoTargetAtRest, OtaTypeOK, Check
  <2> QED BY <2>3, <2>5, <2>6 DEF OtaInv
<1> QED BY <1>2, <1>3 DEF CheckNext

---------------------------------------------------------------------------
(* create_update_job.                                                      *)

LEMMA JobReadsKeeps ==
    ASSUME OtaInv, NEW t \in OtaThread, NEW n \in Node, NEW r \in Release, NEW authorized \in BOOLEAN,
           JobReads(t, n, r, authorized)
    PROVE  OtaInv'
<1> DEFINE next == [at |-> "READ", node |-> n, release |-> r,
                    state |-> IF authorized THEN "APPROVED" ELSE "UPDATE_AVAILABLE"]
<1>1. /\ OtaTypeOK /\ OneJobPerNode /\ NoTargetAtRest
      /\ (\A u \in OtaThread : WorkerIsSound(u)) /\ UpdatesApart /\ CreationsApart
  BY WorkParts DEF OtaInv
<1>2. /\ work[t] = Idle /\ work' = [work EXCEPT ![t] = next]
      /\ doubled' = (IF Creators(n) = {} THEN doubled ELSE doubled \cup {n})
      /\ UNCHANGED <<active, jobs, devices, raced>>
  BY DEF JobReads, Turn
<1>3. /\ next \in Creation /\ next.at = "READ" /\ next.node = n
      /\ next.state \in {"APPROVED", "UPDATE_AVAILABLE"}
  BY JobStatesAre DEF Creation
<1> HIDE DEF next
<1>4. OtaTypeOK'
  BY <1>1, <1>2, <1>3 DEF OtaTypeOK
<1>5. OneJobPerNode' /\ NoTargetAtRest'
  BY <1>1, <1>2 DEF OneJobPerNode, NoTargetAtRest, Active
<1>6. (\A u \in OtaThread : WorkerIsSound(u))'
  BY <1>1, <1>2, <1>3 DEF WorkerIsSound, Active, OtaTypeOK
<1>7. UpdatesApart'
  BY <1>1, <1>2, <1>3 DEF UpdatesApart, Updaters, OtaTypeOK
<1>8. CreationsApart'
  BY <1>1, <1>2, <1>3 DEF CreationsApart, Creators, OtaTypeOK
<1> QED BY <1>4, <1>5, <1>6, <1>7, <1>8
        DEF OtaInv, WorkIsSound, WorkerIsSound, UpdatesApart, CreationsApart

LEMMA JobChecksKeeps ==
    ASSUME OtaInv, NEW t \in OtaThread, JobChecks(t)
    PROVE  OtaInv'
<1>1. /\ OtaTypeOK /\ OneJobPerNode /\ NoTargetAtRest
      /\ (\A u \in OtaThread : WorkerIsSound(u)) /\ UpdatesApart /\ CreationsApart
  BY WorkParts DEF OtaInv
<1>2. work[t] \in Creation /\ work[t].at = "READ" /\ UNCHANGED <<active, jobs, devices, raced, doubled>>
  BY <1>1, WorkFields DEF JobChecks
<1>3. CASE Turn(t, Idle)
  <2>1. OneJobPerNode' /\ WorkIsSound'
    BY <1>2, <1>3, RestKeeps
  <2>2. OtaTypeOK' /\ NoTargetAtRest'
    BY <1>1, <1>2, <1>3 DEF OtaTypeOK, NoTargetAtRest, Turn
  <2> QED BY <2>1, <2>2 DEF OtaInv
<1>4. CASE (\A j \in Job : ~Active(j, work[t].node)) /\ Turn(t, [work[t] EXCEPT !.at = "ALONE"])
  <2> DEFINE next == [work[t] EXCEPT !.at = "ALONE"]
  <2>1. /\ next \in Creation /\ next.at = "ALONE" /\ next.node = work[t].node
        /\ next.state = work[t].state
    BY <1>2 DEF Creation
  <2>2. work' = [work EXCEPT ![t] = next]
    BY <1>4 DEF Turn
  <2> HIDE DEF next
  <2>3. OtaTypeOK'
    BY <1>1, <1>2, <2>1, <2>2 DEF OtaTypeOK
  <2>4. OneJobPerNode' /\ NoTargetAtRest'
    BY <1>1, <1>2 DEF OneJobPerNode, NoTargetAtRest, Active
  <2>5. (\A u \in OtaThread : WorkerIsSound(u))'
    BY <1>1, <1>2, <1>4, <2>1, <2>2 DEF WorkerIsSound, Active, OtaTypeOK
  <2>6. UpdatesApart'
    BY <1>1, <1>2, <2>1, <2>2 DEF UpdatesApart, Updaters, OtaTypeOK
  <2>7. CreationsApart'
    BY <1>1, <1>2, <2>1, <2>2 DEF CreationsApart, Creators, OtaTypeOK
  <2> QED BY <2>3, <2>4, <2>5, <2>6, <2>7
          DEF OtaInv, WorkIsSound, WorkerIsSound, UpdatesApart, CreationsApart
<1> QED BY <1>3, <1>4 DEF JobChecks

LEMMA JobInsertsKeeps ==
    ASSUME OtaInv, NEW t \in OtaThread, NEW j \in Job, JobInserts(t, j)
    PROVE  OtaInv'
<1> DEFINE w == work[t]
           row == [state |-> w.state, node |-> w.node, release |-> w.release]
<1>1. /\ OtaTypeOK /\ OneJobPerNode /\ NoTargetAtRest
      /\ (\A u \in OtaThread : WorkerIsSound(u)) /\ UpdatesApart /\ CreationsApart
  BY WorkParts DEF OtaInv
<1>2. /\ w \in Creation /\ w.at = "ALONE" /\ w.state \in {"APPROVED", "UPDATE_AVAILABLE"}
      /\ w.node \in Node /\ w.release \in Release
      /\ w.node \notin doubled => \A k \in Job \ raced : ~Active(k, w.node)
  <2>1. w \in Creation /\ w.at = "ALONE"
    BY <1>1, WorkFields DEF JobInserts
  <2> QED BY <1>1, <2>1 DEF WorkerIsSound, Creation
<1>3. /\ jobs[j] = NoJob /\ jobs' = [jobs EXCEPT ![j] = row]
      /\ devices' = [devices EXCEPT ![w.node].state = w.state, ![w.node].target = w.release]
      /\ work' = [work EXCEPT ![t] = Idle]
      /\ UNCHANGED <<active, raced, doubled>>
  BY DEF JobInserts, Turn
<1>4. row \in JobRow /\ row.node = w.node
  BY <1>2, JobStatesAre DEF JobRow
<1> HIDE DEF w, row
<1>5. devices'[w.node].state = w.state /\ devices' \in [Node -> Device]
      /\ \A n \in Node \ {w.node} : devices'[n] = devices[n]
  <2>1. devices \in [Node -> Device]
    BY <1>1 DEF OtaTypeOK
  <2>2. devices[w.node] \in Device
    BY <1>2, <2>1
  <2>3. devices' = [devices EXCEPT ![w.node] = [devices[w.node] EXCEPT !.state = w.state, !.target = w.release]]
    BY <1>2, <1>3, <2>1, <2>2 DEF Device
  <2>4. [devices[w.node] EXCEPT !.state = w.state, !.target = w.release] \in Device
        /\ [devices[w.node] EXCEPT !.state = w.state, !.target = w.release].state = w.state
    BY <1>2, <2>2, JobStatesAre DEF Device
  <2> QED BY <1>2, <2>1, <2>3, <2>4
<1>6. OtaTypeOK'
  BY <1>1, <1>3, <1>4, <1>5 DEF OtaTypeOK
<1>7. \A k \in Job : jobs'[k] = IF k = j THEN row ELSE jobs[k]
  BY <1>1, <1>3 DEF OtaTypeOK
<1>8. \A k \in Job, n \in Node : Active(k, n)' => Active(k, n) \/ (k = j /\ n = w.node)
  BY <1>4, <1>7 DEF Active
<1>9. OneJobPerNode'
  BY <1>1, <1>2, <1>3, <1>8 DEF OneJobPerNode
<1>10. NoTargetAtRest'
  BY <1>1, <1>2, <1>5 DEF NoTargetAtRest
<1>11. (\A u \in OtaThread : WorkerIsSound(u))'
  <2> SUFFICES ASSUME NEW u \in OtaThread PROVE WorkerIsSound(u)'
    OBVIOUS
  <2>1. CASE u = t
    BY <1>1, <1>3, <2>1 DEF WorkerIsSound, OtaTypeOK, Idle
  <2>2. CASE u # t
    <3>1. work'[u] = work[u] /\ WorkerIsSound(u)
      BY <1>1, <1>3, <2>2 DEF OtaTypeOK
    <3>2. work[u].at = "UPDATE" => jobs'[work[u].job] = jobs[work[u].job]
      <4> SUFFICES ASSUME work[u].at = "UPDATE" PROVE jobs'[work[u].job] = jobs[work[u].job]
        OBVIOUS
      <4>1. work[u].job \in Job
        BY <1>1, WorkFields DEF Update
      <4> QED BY <1>3, <1>7, <3>1, <4>1 DEF WorkerIsSound
    <3>3. work[u].at = "ALONE" /\ work[u].node \notin doubled =>
            \A k \in Job \ raced : ~Active(k, work[u].node)'
      <4> SUFFICES ASSUME work[u].at = "ALONE", work[u].node \notin doubled, NEW k \in Job \ raced,
                          Active(k, work[u].node)'
                   PROVE  FALSE
        BY <1>3
      <4>1. work[u].node \in Node
        BY <1>1, WorkFields DEF Creation
      <4>2. ~Active(k, work[u].node)
        BY <3>1 DEF WorkerIsSound
      <4>3. work[u].node = w.node
        BY <1>3, <1>8, <3>1, <4>1, <4>2 DEF Active
      <4>4. u \in Creators(w.node) /\ t \in Creators(w.node)
        BY <1>2, <4>3 DEF Creators, w
      <4> QED BY <1>1, <1>2, <2>2, <4>1, <4>3, <4>4 DEF CreationsApart
    <3> QED BY <1>3, <3>1, <3>2, <3>3 DEF WorkerIsSound, Active
  <2> QED BY <2>1, <2>2
<1>12. UpdatesApart' /\ CreationsApart'
  BY <1>1, <1>3 DEF UpdatesApart, CreationsApart, Updaters, Creators, OtaTypeOK, Idle
<1> QED BY <1>6, <1>9, <1>10, <1>11, <1>12
        DEF OtaInv, WorkIsSound, WorkerIsSound, UpdatesApart, CreationsApart

---------------------------------------------------------------------------
(* update_job_state.                                                       *)

LEMMA UpdateReadsKeeps ==
    ASSUME OtaInv, NEW t \in OtaThread, NEW j \in Job, NEW to \in JobStates, UpdateReads(t, j, to)
    PROVE  OtaInv'
<1> DEFINE next == [at |-> "UPDATE", job |-> j, seen |-> jobs[j], to |-> to]
<1>1. /\ OtaTypeOK /\ OneJobPerNode /\ NoTargetAtRest
      /\ (\A u \in OtaThread : WorkerIsSound(u)) /\ UpdatesApart /\ CreationsApart
  BY WorkParts DEF OtaInv
<1>2. /\ work[t] = Idle /\ jobs[j] # NoJob /\ MayMove(jobs[j].state, to)
      /\ work' = [work EXCEPT ![t] = next]
      /\ raced' = (IF Updaters(j) = {} THEN raced ELSE raced \cup {j})
      /\ UNCHANGED <<active, jobs, devices, doubled>>
  BY DEF UpdateReads, Turn
<1>3. /\ next \in Update /\ next.at = "UPDATE" /\ next.job = j /\ next.seen = jobs[j] /\ next.to = to
  BY <1>1, <1>2, JobFields DEF Update
<1> HIDE DEF next
<1>4. OtaTypeOK'
  BY <1>1, <1>2, <1>3 DEF OtaTypeOK
<1>5. OneJobPerNode' /\ NoTargetAtRest'
  BY <1>1, <1>2 DEF OneJobPerNode, NoTargetAtRest, Active
<1>6. (\A u \in OtaThread : WorkerIsSound(u))'
  <2> SUFFICES ASSUME NEW u \in OtaThread PROVE WorkerIsSound(u)'
    OBVIOUS
  <2>1. CASE u = t
    <3>1. work'[u] = next
      BY <1>1, <1>2, <2>1 DEF OtaTypeOK
    <3> QED BY <1>2, <1>3, <3>1 DEF WorkerIsSound
  <2>2. CASE u # t
    <3>1. work'[u] = work[u] /\ WorkerIsSound(u) /\ raced \subseteq raced'
      BY <1>1, <1>2, <2>2 DEF OtaTypeOK
    <3> QED BY <1>2, <3>1 DEF WorkerIsSound, Active
  <2> QED BY <2>1, <2>2
<1>7. UpdatesApart'
  BY <1>1, <1>2, <1>3 DEF UpdatesApart, Updaters, OtaTypeOK
<1>8. CreationsApart'
  BY <1>1, <1>2, <1>3 DEF CreationsApart, Creators, OtaTypeOK
<1> QED BY <1>4, <1>5, <1>6, <1>7, <1>8
        DEF OtaInv, WorkIsSound, WorkerIsSound, UpdatesApart, CreationsApart

\* What the transaction does to the job it is about.
LEMMA UpdateEffect ==
    ASSUME OtaInv, NEW t \in OtaThread, UpdateWrites(t)
    PROVE  LET w == work[t]  new == [jobs[w.job] EXCEPT !.state = w.to] IN
           /\ w \in Update /\ w.job \in Job /\ jobs[w.job] \in JobRow
           /\ jobs' = [jobs EXCEPT ![w.job] = new]
           /\ new \in JobRow /\ new.node = jobs[w.job].node /\ new.state = w.to
           /\ MayMove(w.seen.state, w.to) /\ w.seen.node = jobs[w.job].node
           /\ w.job \notin raced => w.seen = jobs[w.job]
<1>1. OtaTypeOK /\ WorkerIsSound(t)
  BY WorkParts DEF OtaInv
<1>2. work[t] \in Update /\ work[t].at = "UPDATE" /\ work[t].job \in Job /\ work[t].to \in JobStates
  <2>1. work[t] \in Update /\ work[t].at = "UPDATE"
    BY <1>1, WorkFields DEF UpdateWrites
  <2> QED BY <2>1 DEF Update
<1>3. jobs[work[t].job] \in JobRow
  BY <1>1, <1>2, JobFields DEF WorkerIsSound
<1>4. jobs' = [jobs EXCEPT ![work[t].job] = [jobs[work[t].job] EXCEPT !.state = work[t].to]]
  BY <1>1, <1>2, <1>3 DEF UpdateWrites, OtaTypeOK
<1>5. LET new == [jobs[work[t].job] EXCEPT !.state = work[t].to] IN
      new \in JobRow /\ new.node = jobs[work[t].job].node /\ new.state = work[t].to
  BY <1>2, <1>3 DEF JobRow
<1> QED BY <1>1, <1>2, <1>3, <1>4, <1>5 DEF WorkerIsSound

LEMMA UpdateWritesKeeps ==
    ASSUME OtaInv, NEW t \in OtaThread, UpdateWrites(t)
    PROVE  OtaInv'
<1> DEFINE w == work[t]
           new == [jobs[w.job] EXCEPT !.state = w.to]
           row == Reported(devices[w.seen.node], w.seen, w.to)
<1>1. /\ OtaTypeOK /\ OneJobPerNode /\ NoTargetAtRest
      /\ (\A u \in OtaThread : WorkerIsSound(u)) /\ UpdatesApart /\ CreationsApart
  BY WorkParts DEF OtaInv
<1>2. /\ w \in Update /\ w.at = "UPDATE" /\ w.job \in Job /\ jobs[w.job] \in JobRow
      /\ jobs' = [jobs EXCEPT ![w.job] = new]
      /\ new \in JobRow /\ new.node = jobs[w.job].node /\ new.state = w.to
      /\ MayMove(w.seen.state, w.to) /\ w.seen.node = jobs[w.job].node
      /\ w.job \notin raced => w.seen = jobs[w.job]
  BY UpdateEffect DEF UpdateWrites
<1>3. /\ devices' = [devices EXCEPT ![w.seen.node] = row]
      /\ work' = [work EXCEPT ![t] = Idle]
      /\ UNCHANGED <<active, raced, doubled>>
  BY <1>1 DEF UpdateWrites, Turn, OtaTypeOK
<1>4. w.seen \in JobRow /\ w.seen.node \in Node /\ w.seen.release \in Release /\ w.to \in JobStates
  BY <1>2 DEF Update, JobRow
<1>5. /\ row \in Device /\ row.state = w.to
      /\ w.to \in Settled \ {"FAILED"} => row.target = NoRelease
  <2>1. devices[w.seen.node] \in Device
    BY <1>1, <1>4 DEF OtaTypeOK
  <2>2. VersionOf[w.seen.release] \in Version
    BY <1>4 DEF Version
  <2> QED BY <1>4, <2>1, <2>2 DEF Reported, Device
<1> HIDE DEF w, new, row
<1>6. \A k \in Job : jobs'[k] = IF k = w.job THEN new ELSE jobs[k]
  BY <1>1, <1>2 DEF OtaTypeOK
<1>7. OtaTypeOK'
  BY <1>1, <1>2, <1>3, <1>5 DEF OtaTypeOK
<1>8. \A k \in Job \ raced, n \in Node : Active(k, n)' => Active(k, n)
  <2> SUFFICES ASSUME NEW k \in Job \ raced, NEW n \in Node, Active(k, n)' PROVE Active(k, n)
    OBVIOUS
  <2>1. CASE k = w.job
    <3>1. w.seen = jobs[k] /\ jobs'[k] = new /\ new.node = n /\ w.to \notin Settled
      BY <1>2, <1>6, <2>1 DEF Active
    <3>2. jobs[k].state \notin Settled
      BY <1>2, <3>1, SettledEnds
    <3>3. jobs[k].state # "ABSENT"
      BY <1>2, <2>1, JobStatesAre DEF JobRow
    <3> QED BY <1>2, <2>1, <3>1, <3>2, <3>3 DEF Active
  <2>2. CASE k # w.job
    BY <1>6, <2>2 DEF Active
  <2> QED BY <2>1, <2>2
<1>9. OneJobPerNode'
  BY <1>1, <1>3, <1>8 DEF OneJobPerNode
<1>10. NoTargetAtRest'
  <2> SUFFICES ASSUME NEW n \in Node,
                      devices'[n].state \in {"UNKNOWN", "IDLE", "CHECKING", "SUCCESS", "ROLLBACK", "CANCELLED"}
               PROVE  devices'[n].target = NoRelease
    BY DEF NoTargetAtRest
  <2>1. CASE n = w.seen.node
    <3>1. devices'[n] = row
      BY <1>1, <1>3, <2>1 DEF OtaTypeOK
    <3> QED BY <1>4, <1>5, <3>1, JobStatesAre DEF Settled
  <2>2. CASE n # w.seen.node
    BY <1>1, <1>3, <2>2 DEF OtaTypeOK, NoTargetAtRest
  <2> QED BY <2>1, <2>2
<1>11. (\A u \in OtaThread : WorkerIsSound(u))'
  <2> SUFFICES ASSUME NEW u \in OtaThread PROVE WorkerIsSound(u)'
    OBVIOUS
  <2>1. CASE u = t
    BY <1>1, <1>3, <2>1 DEF WorkerIsSound, OtaTypeOK, Idle
  <2>2. CASE u # t
    <3>1. work'[u] = work[u] /\ WorkerIsSound(u)
      BY <1>1, <1>3, <2>2 DEF OtaTypeOK
    <3>2. work[u].at = "UPDATE" =>
            /\ jobs'[work[u].job] # NoJob /\ jobs'[work[u].job].node = jobs[work[u].job].node
            /\ work[u].job \notin raced => jobs'[work[u].job] = jobs[work[u].job]
      <4> SUFFICES ASSUME work[u].at = "UPDATE"
                   PROVE  /\ jobs'[work[u].job] # NoJob
                          /\ jobs'[work[u].job].node = jobs[work[u].job].node
                          /\ work[u].job \notin raced => jobs'[work[u].job] = jobs[work[u].job]
        OBVIOUS
      <4>1. work[u].job \in Job
        BY <1>1, WorkFields DEF Update
      <4>2. CASE work[u].job = w.job
        <5>1. jobs'[work[u].job] = new /\ new # NoJob
          BY <1>2, <1>6, <4>1, <4>2, JobStatesAre DEF JobRow, NoJob
        <5>2. u \in Updaters(w.job) /\ t \in Updaters(w.job)
          BY <1>2, <4>2 DEF Updaters, w
        <5>3. w.job \in raced
          BY <1>1, <1>2, <2>2, <5>2 DEF UpdatesApart
        <5> QED BY <1>2, <4>2, <5>1, <5>3
      <4>3. CASE work[u].job # w.job
        BY <1>6, <3>1, <4>1, <4>3 DEF WorkerIsSound
      <4> QED BY <4>2, <4>3
    <3>3. work[u].at = "ALONE" /\ work[u].node \notin doubled =>
            \A k \in Job \ raced : ~Active(k, work[u].node)'
      <4> SUFFICES ASSUME work[u].at = "ALONE", work[u].node \notin doubled, NEW k \in Job \ raced
                   PROVE  ~Active(k, work[u].node)'
        BY <1>3
      <4>1. work[u].node \in Node
        BY <1>1, WorkFields DEF Creation
      <4>2. ~Active(k, work[u].node)
        BY <3>1 DEF WorkerIsSound
      <4> QED BY <1>8, <3>1, <4>1, <4>2 DEF Active
    <3> QED BY <1>3, <3>1, <3>2, <3>3 DEF WorkerIsSound, Active
  <2> QED BY <2>1, <2>2
<1>12. UpdatesApart' /\ CreationsApart'
  BY <1>1, <1>3 DEF UpdatesApart, CreationsApart, Updaters, Creators, OtaTypeOK, Idle
<1> QED BY <1>7, <1>9, <1>10, <1>11, <1>12
        DEF OtaInv, WorkIsSound, WorkerIsSound, UpdatesApart, CreationsApart

---------------------------------------------------------------------------
(* Every step.                                                             *)

\* The catalogue changes, or the process ends.
LEMMA OthersKeep ==
    ASSUME OtaInv, OtaCrash \/ \E r \in Release : Activate(r) \/ Withdraw(r)
    PROVE  OtaInv'
<1>1. /\ OtaTypeOK /\ OneJobPerNode /\ NoTargetAtRest /\ WorkIsSound
  BY DEF OtaInv
<1>2. UNCHANGED <<jobs, devices, raced, doubled>>
  BY DEF OtaCrash, Activate, Withdraw
<1>3. OtaTypeOK'
  BY <1>1 DEF OtaTypeOK, OtaCrash, Activate, Withdraw, Catalogue!Activate, Catalogue!Withdraw
<1>4. OneJobPerNode' /\ NoTargetAtRest'
  BY <1>1, <1>2 DEF OneJobPerNode, NoTargetAtRest, Active
<1>5. WorkIsSound'
  <2>1. CASE OtaCrash
    BY <2>1 DEF OtaCrash, WorkIsSound, Idle, Updaters, Creators
  <2>2. CASE UNCHANGED work
    BY <1>1, <1>2, <2>2 DEF WorkIsSound, Updaters, Creators, Active
  <2> QED BY <2>1, <2>2 DEF Activate, Withdraw
<1> QED BY <1>3, <1>4, <1>5 DEF OtaInv

LEMMA OtaStepKeeps == OtaInv /\ [OtaNext]_otaVars => OtaInv'
<1> SUFFICES ASSUME OtaInv, [OtaNext]_otaVars PROVE OtaInv'
  OBVIOUS
<1>1. ASSUME NEW t \in OtaThread, JobNext(t) PROVE OtaInv'
  BY <1>1, JobReadsKeeps, JobChecksKeeps, JobInsertsKeeps DEF JobNext
<1>2. ASSUME NEW t \in OtaThread, UpdateNext(t) PROVE OtaInv'
  BY <1>2, UpdateReadsKeeps, UpdateWritesKeeps DEF UpdateNext
<1>3. CASE UNCHANGED otaVars
  BY <1>3 DEF otaVars, OtaInv, OtaTypeOK, OneJobPerNode, NoTargetAtRest, WorkIsSound, Active, Updaters,
              Creators
<1> QED BY <1>1, <1>2, <1>3, CheckKeeps, OthersKeep DEF OtaNext

\* The inductive invariant: jobs, the devices' rows and what threads have read agree.
THEOREM OtaInvariance == OtaSpec => []OtaInv
BY OtaInitKeeps, OtaStepKeeps, PTL DEF OtaSpec

\* A device whose requests do not overlap has at most one job that is not settled
\* (create_update_job, update_job_state).
THEOREM OneJob == OtaSpec => []OneJobPerNode
<1>1. OtaInv => OneJobPerNode
  BY DEF OtaInv
<1> QED BY <1>1, OtaInvariance, PTL

\* A device at rest has no target (upsert_device_state, update_job_state).
THEOREM NoTarget == OtaSpec => []NoTargetAtRest
<1>1. OtaInv => NoTargetAtRest
  BY DEF OtaInv
<1> QED BY <1>1, OtaInvariance, PTL

\* What settled a job is not changed by any later, repeated or overtaken report, as
\* long as no two of the job overlapped (ALLOWED_JOB_TRANSITIONS).
THEOREM SettledJobsStay == OtaSpec => SettledStays
<1> DEFINE Stays == \A j \in Job \ raced : jobs[j].state \in Settled \ {"FAILED"} => jobs'[j] = jobs[j]
<1>1. OtaInv /\ [OtaNext]_otaVars => [Stays]_otaVars
  <2> SUFFICES ASSUME OtaInv, OtaNext, NEW j \in Job \ raced, jobs[j].state \in Settled \ {"FAILED"}
               PROVE  jobs'[j] = jobs[j]
    OBVIOUS
  <2>1. OtaTypeOK
    BY DEF OtaInv
  <2>2. CASE \E t \in OtaThread : UpdateWrites(t)
    <3> PICK t \in OtaThread : UpdateWrites(t)
      BY <2>2
    <3>1. /\ jobs' = [jobs EXCEPT ![work[t].job] = [jobs[work[t].job] EXCEPT !.state = work[t].to]]
          /\ jobs[work[t].job] \in JobRow /\ MayMove(work[t].seen.state, work[t].to)
          /\ work[t].job \notin raced => work[t].seen = jobs[work[t].job]
      BY UpdateEffect
    <3>2. CASE work[t].job = j
      <4>1. work[t].to = jobs[j].state
        BY <3>1, <3>2, SettledEnds
      <4>2. [jobs[j] EXCEPT !.state = jobs[j].state] = jobs[j]
        BY <3>1, <3>2 DEF JobRow
      <4> QED BY <2>1, <3>1, <3>2, <4>1, <4>2 DEF OtaTypeOK
    <3>3. CASE work[t].job # j
      BY <2>1, <3>1, <3>3 DEF OtaTypeOK
    <3> QED BY <3>2, <3>3
  <2>3. CASE \E t \in OtaThread, k \in Job : JobInserts(t, k)
    BY <2>1, <2>3 DEF JobInserts, OtaTypeOK, NoJob, Settled
  <2>4. CASE UNCHANGED jobs
    BY <2>4
  <2> QED
    BY <2>2, <2>3, <2>4
    DEF OtaNext, CheckNext, JobNext, UpdateNext, CheckBegins, CheckStores, JobReads, JobChecks,
        UpdateReads, Activate, Withdraw, OtaCrash
<1> QED BY <1>1, OtaInvariance, PTL DEF OtaSpec, SettledStays

---------------------------------------------------------------------------
(* The promise of the jobs.                                                *)

LEMMA PromisedStarts == OtaInit => Promised!Init
BY DEF OtaInit, Promised!Init

\* A creation that no other overlapped inserts its row for a device without an open job.
LEMMA InsertCreates ==
    ASSUME OtaInv, NEW t \in OtaThread, NEW j \in Job, JobInserts(t, j)
    PROVE  Promised!Next
<1> DEFINE w == work[t]
           row == [state |-> w.state, node |-> w.node, release |-> w.release]
<1>1. OtaTypeOK /\ WorkerIsSound(t)
  BY WorkParts DEF OtaInv
<1>2. w \in Creation /\ w.at = "ALONE" /\ w.state \in {"APPROVED", "UPDATE_AVAILABLE"}
  BY <1>1, WorkFields DEF JobInserts, WorkerIsSound
<1>3. w.node \in Node /\ w.release \in Release
  BY <1>2 DEF Creation
<1>4. row \in JobRow
  BY <1>2, <1>3, JobStatesAre DEF JobRow
<1>5. w.node \in doubled \/ Promised!Open(w.node) = {}
  BY <1>1, <1>2, JobFields DEF WorkerIsSound, Promised!Open, Active
<1>6. Promised!Create(j, row)
  BY <1>2, <1>5 DEF Promised!Create, JobInserts
<1> QED BY <1>4, <1>6 DEF Promised!Next

\* A report that no other of its job overlapped moves the job along the table.
LEMMA WriteReports ==
    ASSUME OtaInv, NEW t \in OtaThread, UpdateWrites(t)
    PROVE  Promised!Next
<1> DEFINE j == work[t].job
           new == [jobs[j] EXCEPT !.state = work[t].to]
<1>1. /\ j \in Job /\ jobs[j] \in JobRow /\ new \in JobRow /\ new.state = work[t].to
      /\ jobs' = [jobs EXCEPT ![j] = new]
      /\ MayMove(work[t].seen.state, work[t].to)
      /\ j \notin raced => work[t].seen = jobs[j]
  BY UpdateEffect
<1>2. jobs[j] # NoJob /\ jobs[j].state \in JobStates /\ new.state \in JobStates
  BY <1>1, JobStatesAre DEF JobRow, NoJob
<1>3. j \in raced \/ new.state \in
        [from \in JobStates |-> JobTransitions[from] \cup {from}][jobs[j].state]
  BY <1>1, <1>2 DEF MayMove
<1>4. UNCHANGED <<raced, doubled>> /\ jobs' = [jobs EXCEPT ![j].state = new.state]
  BY <1>1 DEF UpdateWrites
<1>5. Promised!Report(j, new.state)
  BY <1>2, <1>3, <1>4 DEF Promised!Report
<1> QED BY <1>1, <1>5 DEF Promised!Next

LEMMA PromisedStep == OtaInv /\ [OtaNext]_otaVars => [Promised!Next]_(Promised!vars)
<1> SUFFICES ASSUME OtaInv, [OtaNext]_otaVars PROVE [Promised!Next]_(Promised!vars)
  OBVIOUS
<1>1. CASE \E t \in OtaThread, j \in Job : JobInserts(t, j)
  BY <1>1, InsertCreates
<1>2. CASE \E t \in OtaThread : UpdateWrites(t)
  BY <1>2, WriteReports
<1>3. CASE UNCHANGED jobs /\ raced \subseteq raced' /\ doubled \subseteq doubled'
  BY <1>3 DEF Promised!Next, Promised!Overlap
<1> QED
  BY <1>1, <1>2, <1>3
  DEF OtaNext, otaVars, CheckNext, JobNext, UpdateNext, CheckBegins, CheckStores, JobReads, JobChecks,
      UpdateReads, Activate, Withdraw, OtaCrash

\* The jobs implement the promise made for requests of one step each
\* (create_update_job, update_job_state).
THEOREM JobsKept == OtaSpec => JobsAreKept
BY PromisedStarts, PromisedStep, OtaInvariance, PTL DEF OtaSpec, JobsAreKept, Promised!Spec

---------------------------------------------------------------------------
(* TransportSwitch: the documents and the Master.                          *)

LEMMA StepFields ==
    ASSUME TransportTypeOK, NEW c \in Step
    PROVE  Made(c) <=> steps[c] \in StepRow
BY DEF TransportTypeOK, Made, NoStep, StepRow

LEMMA TxAreMade ==
    ASSUME TransportTypeOK
    PROVE  /\ TxMade \subseteq Tx
           /\ \A c \in Step : Made(c) => steps[c].tx \in TxMade
<1>1. \A c \in Step : Made(c) => steps[c].tx \in Tx
  BY StepFields DEF StepRow
<1> QED BY <1>1 DEF TxMade

LEMMA TransportInitKeeps == TransportInit => TransportInv
<1> SUFFICES ASSUME TransportInit PROVE TransportInv
  OBVIOUS
<1> USE DEF TransportInit
<1>1. TransportTypeOK
  <2>1. transport \in Document
    BY TransportAssumption DEF Document, DocStates, Operations
  <2>2. steps \in [Step -> StepRow \cup {NoStep}] /\ replies \in [Step -> TrialStates \cup {"SILENT"}]
    OBVIOUS
  <2>3. filing \in Document \cup {NoFiling} /\ reported \in 0..MaxTx
    BY TransportAssumption
  <2>4. trial \in [Tx -> TrialStates]
    BY DEF TrialStates
  <2> QED BY <2>1, <2>2, <2>3, <2>4 DEF TransportTypeOK
<1>2. \A c \in Step : ~Made(c)
  BY DEF Made
<1>3. TxMade = {}
  BY <1>2 DEF TxMade
<1>4. CommitIsProved /\ EndIsTrue /\ EarlierHaveEnded /\ StepsAreSingle
  BY <1>2, <1>3 DEF CommitIsProved, EndIsTrue, Ended, EarlierHaveEnded, EndedBefore, StepsAreSingle
<1>5. DocumentsAreSound
  BY <1>2, <1>3 DEF DocumentsAreSound, DocIsSound, NamesAll, Operations
<1>6. RepliesAreTrue /\ ConfirmsAreProved
  BY <1>2 DEF RepliesAreTrue, ConfirmsAreProved
<1> QED BY <1>1, <1>4, <1>5, <1>6 DEF TransportInv

\* What a refreshed document shows: the same transaction and steps, and an end
\* only if the Master came to it.
LEMMA RefreshedLemma ==
    ASSUME TransportInv
    PROVE  /\ Refreshed \in Document
           /\ Refreshed.tx = transport.tx /\ Refreshed.last = transport.last
           /\ Refreshed.commands = transport.commands
           /\ Refreshed.tx = 0 <=> Refreshed.state = "IDLE"
           /\ Refreshed.state \in Ended => trial[transport.tx] = Refreshed.state
<1> DEFINE state == RefreshedState(transport)
<1>1. transport \in Document /\ DocIsSound(transport)
  BY DEF TransportInv, TransportTypeOK, DocumentsAreSound
<1>2. transport.tx \in Tx \cup {0} /\ transport.commands \in [Operations -> Step \cup {0}]
      /\ transport.last \in Operations \cup {"none"} /\ transport.state \in DocStates
  BY <1>1, TransportAssumption DEF Document, Tx
<1>3. ASSUME transport.tx # 0
      PROVE  state \in DocStates \ {"IDLE"} /\ (state \in Ended => trial[transport.tx] = state)
  <2> DEFINE c == transport.commands[transport.last]
             told == FromCommand(transport)
  <2>1. transport.tx \in Tx
    BY <1>2, <1>3
  <2>2. trial[transport.tx] \in TrialStates
    BY <2>1 DEF TransportInv, TransportTypeOK
  <2>3. transport.state # "IDLE" /\ (transport.state \in Ended => trial[transport.tx] = transport.state)
    BY <1>1, <1>3 DEF DocIsSound, TransportInv, EndIsTrue
  <2>4. told \in DocStates \ {"IDLE"} /\ (told \in Ended => trial[transport.tx] = told)
    <3>1. CASE transport.last = "none"
      BY <1>2, <2>3, <3>1 DEF FromCommand
    <3>2. CASE transport.last # "none"
      <4>1. c \in Step /\ Made(c) /\ steps[c].tx = transport.tx
        BY <1>1, <1>2, <3>2 DEF DocIsSound
      <4>2. steps[c].state \in TrialStates
        BY <4>1, StepFields DEF StepRow, TransportInv
      <4>3. steps[c].state \in Ended => trial[transport.tx] = steps[c].state
        BY <4>1 DEF TransportInv, RepliesAreTrue
      <4>4. told \in {steps[c].state, transport.state, "UNKNOWN_REQUIRES_DEVICE_STATUS"}
        BY <3>2 DEF FromCommand
      <4> QED BY <1>2, <2>3, <4>2, <4>3, <4>4 DEF DocStates, TrialStates, Ended
    <3> QED BY <3>1, <3>2
  <2>5. state \in {trial[transport.tx], told, "EXPIRED_AWAITING_DEVICE_STATUS"}
    BY <1>3 DEF RefreshedState
  <2> QED BY <2>2, <2>4, <2>5 DEF DocStates, TrialStates, Ended
<1>4. transport.tx = 0 => state = "IDLE"
  BY DEF RefreshedState
<1>5. /\ Refreshed.tx = transport.tx /\ Refreshed.last = transport.last
      /\ Refreshed.commands = transport.commands /\ Refreshed.state = state
  BY <1>1 DEF Refreshed, Document
<1>6. Refreshed \in Document
  <2>1. state \in DocStates
    BY <1>3, <1>4 DEF DocStates
  <2> QED BY <1>1, <2>1 DEF Refreshed, Document
<1> HIDE DEF state
<1> QED BY <1>3, <1>4, <1>5, <1>6 DEF Ended

\* Steps that make no command and leave the documents alone.
LEMMA RowsChangeKeeps ==
    ASSUME TransportInv, UNCHANGED <<transport, filing, cut>>,
           \A c \in Step : Made(c)' = Made(c),
           \A c \in Step : Made(c) => steps'[c].op = steps[c].op /\ steps'[c].tx = steps[c].tx,
           \A c \in Step, t \in Tx : ProvedProbe(c, t) => ProvedProbe(c, t)',
           \A t \in Tx : trial[t] \in Ended => trial'[t] = trial[t],
           TransportTypeOK', RepliesAreTrue', CommitIsProved'
    PROVE  TransportInv'
<1>1. TxMade' = TxMade
  BY DEF TxMade
<1>2. TransportTypeOK /\ DocIsSound(transport) /\ TxMade \subseteq Tx
  BY TxAreMade DEF TransportInv, DocumentsAreSound
<1>3. EndIsTrue'
  <2>1. transport.state \in Ended => transport.tx \in Tx
    BY <1>2 DEF DocIsSound, Ended
  <2> QED BY <2>1 DEF TransportInv, EndIsTrue
<1>4. \A tx : EndedBefore(tx) => EndedBefore(tx)'
  BY <1>1, <1>2 DEF EndedBefore
<1>5. EarlierHaveEnded'
  BY <1>4 DEF TransportInv, EarlierHaveEnded, EndedBefore
<1>6. StepsAreSingle'
  BY DEF TransportInv, StepsAreSingle
<1>7. \A d \in Document : DocIsSound(d) => DocIsSound(d)'
  BY <1>1 DEF DocIsSound, Document
<1>8. \A d : NamesAll(d) => NamesAll(d)'
  BY DEF NamesAll
<1>9. DocumentsAreSound'
  <2>1. DocIsSound(transport)' /\ (filing'.tx # transport'.tx => NamesAll(transport)')
    BY <1>2, <1>7, <1>8 DEF TransportInv, TransportTypeOK, DocumentsAreSound, DocIsSound, NamesAll
  <2>2. ASSUME filing # NoFiling PROVE DocIsSound(filing)' /\ NamesAll(filing)' /\ EndedBefore(filing.tx)'
    BY <1>2, <1>4, <1>7, <1>8, <2>2
    DEF TransportInv, TransportTypeOK, DocumentsAreSound, DocIsSound, NamesAll, EndedBefore
  <2> QED BY <1>1, <2>1, <2>2 DEF TransportInv, DocumentsAreSound
<1>10. ConfirmsAreProved'
  <2> SUFFICES ASSUME NEW c \in Step, Made(c)', steps'[c].op = "confirm"
               PROVE  \E d \in Step : ProvedProbe(d, steps[c].tx)'
    BY DEF ConfirmsAreProved, ProvedProbe
  <2>1. Made(c) /\ steps[c].op = "confirm" /\ steps[c].tx \in Tx
    BY <1>2, TxAreMade
  <2> QED BY <2>1 DEF TransportInv, ConfirmsAreProved
<1> QED BY <1>3, <1>5, <1>6, <1>9, <1>10 DEF TransportInv

---------------------------------------------------------------------------
(* The command store and the Master.                                       *)

\* A command's row changes its phase, not what it is a command for.
LEMMA RowKeeps ==
    ASSUME TransportInv, NEW c \in Step, NEW row \in StepRow, Made(c),
           row.op = steps[c].op, row.tx = steps[c].tx,
           steps[c].phase = "COMPLETED" => row = steps[c],
           row.state \in Ended => row.state \in {steps[c].state, replies[c]},
           steps' = [steps EXCEPT ![c] = row],
           UNCHANGED <<transport, filing, reported, overdue, trial, replies, cut>>
    PROVE  TransportInv'
<1>1. TransportTypeOK'
  BY DEF TransportInv, TransportTypeOK
<1>2. \A d \in Step : steps'[d] = IF d = c THEN row ELSE steps[d]
  BY DEF TransportInv, TransportTypeOK
<1>3. \A d \in Step : Made(d)' = Made(d)
  <2>1. row # NoStep
    BY DEF StepRow, NoStep
  <2> QED BY <1>2, <2>1 DEF Made
<1>4. \A d \in Step : Made(d) => steps'[d].op = steps[d].op /\ steps'[d].tx = steps[d].tx
  BY <1>2
<1>5. \A d \in Step, t \in Tx : ProvedProbe(d, t) => ProvedProbe(d, t)'
  BY <1>2, <1>3 DEF ProvedProbe
<1>6. RepliesAreTrue'
  BY <1>2, <1>3, <1>4 DEF TransportInv, RepliesAreTrue
<1>7. CommitIsProved'
  BY <1>5 DEF TransportInv, CommitIsProved
<1> QED BY <1>1, <1>3, <1>4, <1>5, <1>6, <1>7, RowsChangeKeeps

LEMMA StoreKeeps ==
    ASSUME TransportInv, NEW c \in Step, NEW proved \in BOOLEAN,
           Respond(c, proved) \/ GiveUp(c) \/ RetryStep(c)
    PROVE  TransportInv'
<1>1. Made(c) /\ steps[c] \in StepRow /\ steps \in [Step -> StepRow \cup {NoStep}]
  <2>1. steps[c].phase # "ABSENT"
    BY DEF Respond, GiveUp, RetryStep
  <2> QED BY <2>1, StepFields DEF TransportInv, TransportTypeOK, Made, NoStep
<1>2. CASE Respond(c, proved)
  <2> DEFINE row == [steps[c] EXCEPT !.phase = "COMPLETED", !.state = replies[c], !.proved = proved]
  <2>1. replies[c] \in TrialStates
    BY <1>2 DEF Respond, TransportInv, TransportTypeOK
  <2>2. /\ row \in StepRow /\ row.op = steps[c].op /\ row.tx = steps[c].tx
        /\ row.state = replies[c]
    BY <1>1, <2>1 DEF StepRow
  <2>3. steps' = [steps EXCEPT ![c] = row] /\ steps[c].phase = "pending"
    BY <1>1, <1>2 DEF Respond
  <2> HIDE DEF row
  <2> QED BY <1>1, <1>2, <2>2, <2>3, RowKeeps DEF Respond
<1>3. CASE GiveUp(c)
  <2> DEFINE row == [steps[c] EXCEPT !.phase = "FAILED"]
  <2>1. /\ row \in StepRow /\ row.op = steps[c].op /\ row.tx = steps[c].tx
        /\ row.state = steps[c].state
    BY <1>1 DEF StepRow
  <2>2. steps' = [steps EXCEPT ![c] = row] /\ steps[c].phase = "pending"
    BY <1>1, <1>3 DEF GiveUp
  <2> HIDE DEF row
  <2> QED BY <1>1, <1>3, <2>1, <2>2, RowKeeps DEF GiveUp
<1>4. CASE RetryStep(c)
  <2> DEFINE row == [steps[c] EXCEPT !.phase = "pending", !.rounds = @ + 1]
  <2>1. /\ row \in StepRow /\ row.op = steps[c].op /\ row.tx = steps[c].tx
        /\ row.state = steps[c].state
    BY <1>1, <1>4, TransportAssumption DEF StepRow, RetryStep
  <2>2. steps' = [steps EXCEPT ![c] = row] /\ steps[c].phase = "FAILED"
    BY <1>1, <1>4 DEF RetryStep
  <2> HIDE DEF row
  <2> QED BY <1>1, <1>4, <2>1, <2>2, RowKeeps DEF RetryStep
<1> QED BY <1>2, <1>3, <1>4

\* Neither reports, the clock nor the Master touch documents and commands; what
\* ended stays as it ended.
LEMMA TrialKeeps ==
    ASSUME TransportInv, UNCHANGED <<transport, steps, filing, cut>>,
           reported' \in 0..MaxTx, overdue' \subseteq Tx,
           trial' \in [Tx -> TrialStates], replies' \in [Step -> TrialStates \cup {"SILENT"}],
           \A t \in Tx : trial[t] \in Ended => trial'[t] = trial[t],
           RepliesAreTrue', CommitIsProved'
    PROVE  TransportInv'
<1>1. TransportTypeOK'
  BY DEF TransportInv, TransportTypeOK
<1>2. /\ \A c \in Step : Made(c)' = Made(c)
      /\ \A c \in Step : Made(c) => steps'[c].op = steps[c].op /\ steps'[c].tx = steps[c].tx
      /\ \A c \in Step, t \in Tx : ProvedProbe(c, t) => ProvedProbe(c, t)'
  BY DEF Made, ProvedProbe
<1> QED BY <1>1, <1>2, RowsChangeKeeps

LEMMA OthersKeepTransport ==
    ASSUME TransportInv,
           (\E t \in 0..MaxTx : IngestStatus(t)) \/ \E t \in Tx : DeadlinePasses(t)
    PROVE  TransportInv'
<1>1. /\ UNCHANGED <<transport, steps, filing, trial, replies, cut>>
      /\ reported' \in 0..MaxTx /\ overdue' \subseteq Tx
  BY DEF IngestStatus, DeadlinePasses, TransportInv, TransportTypeOK
<1>2. RepliesAreTrue' /\ CommitIsProved'
  BY <1>1 DEF TransportInv, RepliesAreTrue, CommitIsProved, ProvedProbe, Made
<1> QED BY <1>1, <1>2, TrialKeeps DEF TransportInv, TransportTypeOK

LEMMA LapseKeeps == ASSUME TransportInv, NEW t \in Tx, Lapse(t) PROVE TransportInv'
<1>1. /\ UNCHANGED <<transport, steps, filing, reported, overdue, replies, cut>>
      /\ trial[t] \in {"PREPARED", "TRIAL"} /\ trial \in [Tx -> TrialStates]
      /\ trial' = [trial EXCEPT ![t] = IF @ = "TRIAL" THEN "ROLLED_BACK" ELSE "CANCELLED"]
  BY DEF Lapse, Open, TransportInv, TransportTypeOK
<1>2. /\ trial' \in [Tx -> TrialStates]
      /\ \A u \in Tx : u # t => trial'[u] = trial[u]
      /\ trial'[t] # "COMMITTED"
  BY <1>1 DEF TrialStates, Ended
<1>3. \A u \in Tx : trial[u] \in Ended => trial'[u] = trial[u]
  BY <1>1, <1>2 DEF Ended
<1>4. RepliesAreTrue'
  <2> SUFFICES ASSUME NEW c \in Step, Made(c)
               PROVE  \A s \in {replies[c], steps[c].state} \cap Ended : trial'[steps[c].tx] = s
    BY <1>1 DEF TransportInv, RepliesAreTrue, Made
  <2>1. steps[c].tx \in Tx
    BY TxAreMade DEF TransportInv
  <2> QED BY <1>3, <2>1 DEF TransportInv, RepliesAreTrue
<1>5. CommitIsProved'
  BY <1>1, <1>2 DEF TransportInv, CommitIsProved, ProvedProbe, Made
<1> QED BY <1>1, <1>2, <1>3, <1>4, <1>5, TrialKeeps DEF TransportInv, TransportTypeOK

\* What the Master makes of a transaction: never of one that has ended, and
\* committed by a confirmation alone.
LEMMA EffectsLemma ==
    ASSUME TransportTypeOK, NEW op \in Operations, NEW t \in Tx, NEW s \in Effects(op, t)
    PROVE  /\ s \in TrialStates
           /\ trial[t] \in Ended => s = trial[t]
           /\ s = "COMMITTED" => op = "confirm" \/ trial[t] = "COMMITTED"
<1>1. trial[t] \in TrialStates
  BY DEF TransportTypeOK
<1>2. CASE op = "prepare"
  BY <1>1, <1>2 DEF Effects, TrialStates, Ended
<1>3. CASE op = "apply"
  BY <1>1, <1>3 DEF Effects, TrialStates, Ended
<1>4. CASE op = "probe"
  BY <1>1, <1>4 DEF Effects
<1>5. CASE op = "confirm"
  BY <1>1, <1>5 DEF Effects, TrialStates, Ended
<1>6. CASE op = "cancel"
  BY <1>1, <1>6 DEF Effects, TrialStates, Ended, Open
<1> QED BY <1>2, <1>3, <1>4, <1>5, <1>6 DEF Operations

LEMMA RunKeeps == ASSUME TransportInv, NEW c \in Step, Run(c) PROVE TransportInv'
<1> DEFINE t == steps[c].tx
<1>1. /\ UNCHANGED <<transport, steps, filing, reported, overdue, cut>>
      /\ Made(c) /\ replies[c] = "SILENT"
  BY DEF Run
<1>2. t \in Tx /\ steps[c].op \in Operations /\ TransportTypeOK
  BY <1>1, StepFields DEF TransportInv, StepRow
<1>3. PICK s \in TrialStates :
        /\ replies' = [replies EXCEPT ![c] = s] /\ trial' = [trial EXCEPT ![t] = s]
        /\ trial[t] \in Ended => s = trial[t]
        /\ s = "COMMITTED" => steps[c].op = "confirm" \/ trial[t] = "COMMITTED"
  <2>1. CASE \E s \in Effects(steps[c].op, t) : trial' = [trial EXCEPT ![t] = s] /\ Answer(c, s)
    <3> PICK s \in Effects(steps[c].op, t) : trial' = [trial EXCEPT ![t] = s] /\ Answer(c, s)
      BY <2>1
    <3> QED BY <1>2, EffectsLemma DEF Answer
  <2>2. CASE trial[t] \in Ended /\ Answer(c, trial[t]) /\ UNCHANGED trial
    <3>1. trial' = [trial EXCEPT ![t] = trial[t]]
      BY <1>2, <2>2 DEF TransportTypeOK
    <3>2. trial[t] \in TrialStates
      BY <1>2 DEF TransportTypeOK
    <3> QED BY <2>2, <3>1, <3>2 DEF Answer
  <2> QED BY <2>1, <2>2 DEF Run
<1> HIDE DEF t
<1>4. /\ trial' \in [Tx -> TrialStates] /\ replies' \in [Step -> TrialStates \cup {"SILENT"}]
      /\ \A u \in Tx : trial'[u] = IF u = t THEN s ELSE trial[u]
      /\ \A d \in Step : replies'[d] = IF d = c THEN s ELSE replies[d]
  BY <1>2, <1>3 DEF TransportTypeOK
<1>5. \A u \in Tx : trial[u] \in Ended => trial'[u] = trial[u]
  BY <1>3, <1>4
<1>6. RepliesAreTrue'
  <2>1. \A d \in Step : replies'[d] # "SILENT" => Made(d)'
    BY <1>1, <1>4 DEF TransportInv, RepliesAreTrue, Made
  <2>2. ASSUME NEW d \in Step, Made(d), NEW x \in {replies'[d], steps[d].state} \cap Ended
        PROVE  trial'[steps[d].tx] = x
    <3>1. steps[d].tx \in Tx
      BY <1>2, <2>2, TxAreMade
    <3>2. CASE x \in {replies[d], steps[d].state}
      BY <1>5, <2>2, <3>1, <3>2 DEF TransportInv, RepliesAreTrue
    <3>3. CASE x \notin {replies[d], steps[d].state}
      BY <1>2, <1>4, <2>2, <3>3 DEF t
    <3> QED BY <3>2, <3>3
  <2> QED BY <1>1, <2>1, <2>2 DEF RepliesAreTrue, Made
<1>7. CommitIsProved'
  <2> SUFFICES ASSUME NEW u \in Tx, trial'[u] = "COMMITTED"
               PROVE  \E d \in Step : ProvedProbe(d, u)
    BY <1>1 DEF CommitIsProved, ProvedProbe, Made
  <2>1. CASE trial[u] = "COMMITTED"
    BY <2>1 DEF TransportInv, CommitIsProved
  <2>2. CASE trial[u] # "COMMITTED"
    <3>1. u = t /\ steps[c].op = "confirm"
      BY <1>3, <1>4, <2>2
    <3> QED BY <1>1, <3>1 DEF TransportInv, ConfirmsAreProved, t
  <2> QED BY <2>1, <2>2
<1>8. reported' \in 0..MaxTx /\ overdue' \subseteq Tx
  BY <1>1, <1>2 DEF TransportTypeOK
<1> QED BY <1>1, <1>4, <1>5, <1>6, <1>7, <1>8, TrialKeeps

---------------------------------------------------------------------------
(* The requests.                                                           *)

LEMMA ShowKeeps == TransportInv /\ Show => TransportInv'
<1> SUFFICES ASSUME TransportInv, Show PROVE TransportInv'
  OBVIOUS
<1>1. /\ UNCHANGED <<steps, filing, reported, overdue, trial, replies, cut>>
      /\ transport' \in Document /\ transport'.tx = transport.tx
      /\ transport'.last = transport.last /\ transport'.commands = transport.commands
      /\ transport'.tx = 0 <=> transport'.state = "IDLE"
      /\ transport'.state \in Ended => trial[transport.tx] = transport'.state
  BY RefreshedLemma DEF Show
<1>2. TransportTypeOK'
  BY <1>1 DEF TransportInv, TransportTypeOK
<1>3. EndIsTrue' /\ EarlierHaveEnded'
  BY <1>1 DEF TransportInv, EndIsTrue, EarlierHaveEnded, EndedBefore, TxMade, Made
<1>4. DocumentsAreSound'
  BY <1>1 DEF TransportInv, DocumentsAreSound, DocIsSound, NamesAll, EndedBefore, TxMade, Made
<1>5. CommitIsProved' /\ StepsAreSingle' /\ RepliesAreTrue' /\ ConfirmsAreProved'
  BY <1>1 DEF TransportInv, CommitIsProved, StepsAreSingle, RepliesAreTrue, ConfirmsAreProved,
       ProvedProbe, Made
<1> QED BY <1>2, <1>3, <1>4, <1>5 DEF TransportInv

\* A new command, and the document that will name it.
LEMMA CreateEffect ==
    ASSUME TransportInv, NEW op \in Operations, NEW tx \in Tx, Create(op, tx)
    PROVE  \E c \in Step :
             /\ ~Made(c) /\ steps' \in [Step -> StepRow \cup {NoStep}]
             /\ Made(c)' /\ steps'[c].op = op /\ steps'[c].tx = tx /\ steps'[c].state = "NONE"
             /\ \A d \in Step : d # c => steps'[d] = steps[d] /\ Made(d)' = Made(d)
             /\ TxMade' = TxMade \cup {tx}
             /\ filing' \in Document /\ filing'.tx = tx
             /\ op # "probe" => filing'.state \notin Ended \cup {"IDLE"}
             /\ op = "probe" => filing'.state = Refreshed.state
             /\ filing'.last = IF op = "probe" THEN transport.last ELSE op
             /\ \A o \in Operations :
                  filing'.commands[o] = IF o = op THEN c
                                        ELSE IF op = "prepare" THEN 0 ELSE transport.commands[o]
<1>1. PICK c \in Step :
        /\ \A d \in Step : Made(d) <=> d < c
        /\ steps' = [steps EXCEPT ![c] =
             [phase |-> "pending", tx |-> tx, op |-> op, rounds |-> 0, state |-> "NONE",
              proved |-> FALSE]]
        /\ filing' = [Refreshed EXCEPT
             !.tx = tx,
             !.state = CASE op = "prepare" -> "PREPARE_QUEUED" [] op = "apply" -> "APPLY_QUEUED"
                         [] op = "confirm" -> "CONFIRM_QUEUED" [] op = "cancel" -> "CANCEL_QUEUED"
                         [] op = "probe" -> @,
             !.last = IF op = "probe" THEN @ ELSE op,
             !.commands = [o \in Operations |-> IF o = op THEN c
                                                ELSE IF op = "prepare" THEN 0 ELSE @[o]]]
  BY DEF Create
<1> DEFINE row == [phase |-> "pending", tx |-> tx, op |-> op, rounds |-> 0, state |-> "NONE",
                   proved |-> FALSE]
           state == CASE op = "prepare" -> "PREPARE_QUEUED" [] op = "apply" -> "APPLY_QUEUED"
                      [] op = "confirm" -> "CONFIRM_QUEUED" [] op = "cancel" -> "CANCEL_QUEUED"
                      [] op = "probe" -> Refreshed.state
           commands == [o \in Operations |-> IF o = op THEN c
                                             ELSE IF op = "prepare" THEN 0 ELSE transport.commands[o]]
<1>2. row \in StepRow /\ row # NoStep
  BY TransportAssumption DEF StepRow, TrialStates, NoStep
<1>3. ~Made(c)
  BY <1>1 DEF Step
<1>4. steps \in [Step -> StepRow \cup {NoStep}]
  BY DEF TransportInv, TransportTypeOK
<1>5. /\ steps' \in [Step -> StepRow \cup {NoStep}]
      /\ steps'[c] = row /\ \A d \in Step : d # c => steps'[d] = steps[d]
  BY <1>1, <1>2, <1>4
<1>6. Made(c)' /\ \A d \in Step : d # c => Made(d)' = Made(d)
  BY <1>2, <1>5 DEF Made
<1>7. TxMade' = TxMade \cup {tx}
  BY <1>3, <1>5, <1>6 DEF TxMade
<1>8. /\ Refreshed \in Document /\ Refreshed.commands = transport.commands
      /\ Refreshed.last = transport.last
  BY RefreshedLemma
<1>9. state \in DocStates /\ (op # "probe" => state \notin Ended \cup {"IDLE"})
      /\ (op = "probe" => state = Refreshed.state)
  BY <1>8 DEF Operations, DocStates, Ended, Document
<1>10. commands \in [Operations -> Step \cup {0}]
  BY <1>8 DEF Document
<1>11. filing' = [Refreshed EXCEPT !.tx = tx, !.state = state,
                    !.last = IF op = "probe" THEN transport.last ELSE op, !.commands = commands]
  BY <1>1, <1>8
<1> HIDE DEF state, commands
<1>12. /\ filing' \in Document /\ filing'.tx = tx /\ filing'.state = state
       /\ filing'.last = (IF op = "probe" THEN transport.last ELSE op) /\ filing'.commands = commands
  <2> DEFINE last == IF op = "probe" THEN transport.last ELSE op
  <2>1. last \in Operations \cup {"none"} /\ tx \in 0..MaxTx
    BY <1>8, TransportAssumption DEF Document, Tx
  <2> HIDE DEF last
  <2>2. filing' = [tx |-> tx, state |-> state, last |-> last, commands |-> commands]
    BY <1>8, <1>11 DEF Document, last
  <2> QED BY <1>9, <1>10, <2>1, <2>2 DEF Document, last
<1> QED BY <1>3, <1>5, <1>6, <1>7, <1>9, <1>12 DEF commands

\* A command of a new transaction, or the first one of its kind in its own.
LEMMA CreateKeeps ==
    ASSUME TransportInv, NEW op \in Operations, NEW tx \in Tx, Create(op, tx),
           filing = NoFiling, transport' = Refreshed, tx >= transport.tx,
           UNCHANGED <<reported, overdue, trial, replies, cut>>,
           EndedBefore(tx),
           op = "prepare" => tx \notin TxMade, op # "prepare" => tx = transport.tx,
           op # "prepare" => transport.commands[op] = 0,
           op = "probe" => Refreshed.state = "TRIAL",
           op = "confirm" => \E d \in Step : ProvedProbe(d, tx)
    PROVE  TransportInv'
<1>1. PICK c \in Step :
        /\ ~Made(c) /\ steps' \in [Step -> StepRow \cup {NoStep}]
        /\ Made(c)' /\ steps'[c].op = op /\ steps'[c].tx = tx /\ steps'[c].state = "NONE"
        /\ \A d \in Step : d # c => steps'[d] = steps[d] /\ Made(d)' = Made(d)
        /\ TxMade' = TxMade \cup {tx}
        /\ filing' \in Document /\ filing'.tx = tx
        /\ op # "probe" => filing'.state \notin Ended \cup {"IDLE"}
        /\ op = "probe" => filing'.state = Refreshed.state
        /\ filing'.last = IF op = "probe" THEN transport.last ELSE op
        /\ \A o \in Operations :
             filing'.commands[o] = IF o = op THEN c
                                   ELSE IF op = "prepare" THEN 0 ELSE transport.commands[o]
  BY CreateEffect
<1>2. /\ transport' \in Document /\ transport'.tx = transport.tx
      /\ transport'.last = transport.last /\ transport'.commands = transport.commands
      /\ transport'.tx = 0 <=> transport'.state = "IDLE"
      /\ transport'.state \in Ended => trial[transport.tx] = transport'.state
  BY RefreshedLemma
<1>3. /\ transport \in Document /\ DocIsSound(transport) /\ NamesAll(transport)
      /\ \A t \in TxMade : t > transport.tx => t \in cut
      /\ TxMade \subseteq Tx /\ EarlierHaveEnded
  <2>1. transport.tx # -1 /\ \A t \in Tx : t # -1
    BY DEF TransportInv, TransportTypeOK, Document, Tx
  <2> QED BY <2>1, TxAreMade DEF TransportInv, TransportTypeOK, DocumentsAreSound, NoFiling
<1>4. /\ c # 0 /\ tx # 0 /\ transport.tx \in 0..MaxTx
      /\ transport.commands \in [Operations -> Step \cup {0}]
      /\ transport.last \in Operations \cup {"none"}
  BY <1>3 DEF Document, Step, Tx
<1>5. TransportTypeOK'
  BY <1>1, <1>2 DEF TransportInv, TransportTypeOK
<1>6. \A d \in Step : Made(d) => d # c /\ Made(d)' /\ steps'[d] = steps[d] /\ steps[d].tx \in TxMade
  BY <1>1, TxAreMade DEF TransportInv
<1>7. \A d \in Step : Made(d)' => d = c \/ (Made(d) /\ steps'[d] = steps[d])
  BY <1>1
<1>8. \A d \in Step, t \in Tx : ProvedProbe(d, t) => ProvedProbe(d, t)'
  BY <1>6 DEF ProvedProbe
<1>9. CommitIsProved'
  BY <1>8 DEF TransportInv, CommitIsProved
<1>10. EndIsTrue'
  BY <1>2 DEF EndIsTrue
<1>11. EarlierHaveEnded'
  BY <1>1, <1>2, <1>3, <1>4 DEF EarlierHaveEnded, EndedBefore, Tx
\* Commands of this transaction are named, and are of other kinds.
<1>12. \A d \in Step : Made(d) /\ steps[d].tx = tx /\ tx \notin cut =>
         op # "prepare" /\ steps[d].op # op /\ transport.commands[steps[d].op] = d
  <2> SUFFICES ASSUME NEW d \in Step, Made(d), steps[d].tx = tx, tx \notin cut
               PROVE  op # "prepare" /\ steps[d].op # op /\ transport.commands[steps[d].op] = d
    OBVIOUS
  <2>1. op # "prepare" /\ tx = transport.tx
    BY <1>6
  <2>2. transport.commands[steps[d].op] = d
    BY <1>3, <2>1 DEF NamesAll
  <2>3. d # 0
    BY DEF Step
  <2> QED BY <2>1, <2>2, <2>3
<1>13. StepsAreSingle'
  <2> SUFFICES ASSUME NEW d \in Step, NEW e \in Step, Made(d)', Made(e)', d # e,
                      steps'[d].tx = steps'[e].tx, steps'[d].op = steps'[e].op
               PROVE  steps'[d].tx \in cut
    BY DEF StepsAreSingle
  <2>1. CASE d # c /\ e # c
    BY <1>7, <2>1 DEF TransportInv, StepsAreSingle
  <2>2. CASE d = c
    BY <1>1, <1>7, <1>12, <2>2
  <2>3. CASE e = c
    BY <1>1, <1>7, <1>12, <2>3
  <2> QED BY <2>1, <2>2, <2>3
<1>14. DocIsSound(transport)'
  <2>1. ASSUME NEW o \in Operations, transport.commands[o] # 0
        PROVE  /\ Made(transport.commands[o])' /\ steps'[transport.commands[o]].op = o
               /\ steps'[transport.commands[o]].tx = transport.tx
    <3>1. transport.commands[o] \in Step
      BY <1>4, <2>1
    <3>2. /\ Made(transport.commands[o]) /\ steps[transport.commands[o]].op = o
          /\ steps[transport.commands[o]].tx = transport.tx
      BY <1>3, <2>1 DEF DocIsSound
    <3>3. /\ steps'[transport.commands[o]] = steps[transport.commands[o]]
          /\ Made(transport.commands[o])'
      BY <1>2, <1>6, <3>1, <3>2 DEF Made
    <3> QED BY <3>2, <3>3
  <2> QED BY <1>1, <1>2, <1>3, <2>1 DEF DocIsSound
<1>15. DocIsSound(filing)'
  <2>1. filing'.state # "IDLE"
    BY <1>1
  <2>2. filing'.last # "none" => filing'.commands[filing'.last] # 0
    <3>1. CASE op # "probe"
      BY <1>1, <1>4, <3>1
    <3>2. CASE op = "probe"
      BY <1>1, <1>3, <1>4, <3>2 DEF DocIsSound
    <3> QED BY <3>1, <3>2
  <2>3. ASSUME NEW o \in Operations, filing'.commands[o] # 0
        PROVE  /\ Made(filing.commands[o])' /\ steps'[filing'.commands[o]].op = o
               /\ steps'[filing'.commands[o]].tx = tx
    <3>1. CASE o = op
      <4>1. filing'.commands[o] = c
        BY <1>1, <3>1
      <4>2. Made(filing.commands[o])'
        BY <1>1, <4>1 DEF Made
      <4> QED BY <1>1, <3>1, <4>1, <4>2
    <3>2. CASE o # op
      <4> DEFINE e == transport.commands[o]
      <4>1. op # "prepare" /\ filing'.commands[o] = e
        BY <1>1, <2>3, <3>2
      <4>2. e \in Step
        BY <1>4, <2>3, <4>1
      <4>3. Made(e) /\ steps[e].op = o /\ steps[e].tx = transport.tx
        BY <1>3, <2>3, <4>1 DEF DocIsSound
      <4>4. e # c /\ steps'[e] = steps[e] /\ steps[e] # NoStep
        BY <1>6, <4>2, <4>3 DEF Made
      <4>5. Made(filing.commands[o])'
        BY <4>1, <4>4 DEF Made
      <4> QED BY <4>1, <4>3, <4>4, <4>5
    <3> QED BY <3>1, <3>2
  <2> QED BY <1>1, <1>4, <2>1, <2>2, <2>3 DEF DocIsSound
<1>16. filing'.tx # transport'.tx => NamesAll(transport)'
  BY <1>1, <1>2, <1>3, <1>7 DEF NamesAll
<1>17. NamesAll(filing)'
  <2> SUFFICES ASSUME NEW d \in Step, Made(d)', steps'[d].tx = tx, tx \notin cut
               PROVE  filing'.commands[steps'[d].op] = d
    BY <1>1 DEF NamesAll
  <2>1. CASE d = c
    BY <1>1, <2>1
  <2>2. CASE d # c
    <3>1. Made(d) /\ steps'[d] = steps[d] /\ steps[d].op \in Operations
      BY <1>7, <2>2, StepFields DEF TransportInv, StepRow
    <3> QED BY <1>1, <1>12, <3>1
  <2> QED BY <2>1, <2>2
<1>18. EndedBefore(filing.tx)'
  BY <1>1, <1>3 DEF EndedBefore, Tx
<1>19. DocumentsAreSound'
  <2>1. \A t \in TxMade' : t > transport'.tx => t \in cut' \/ t = filing'.tx
    BY <1>1, <1>2, <1>3
  <2>2. filing'.state \notin Ended
    BY <1>1 DEF Ended
  <2> QED BY <1>1, <1>2, <1>14, <1>15, <1>16, <1>17, <1>18, <2>1, <2>2 DEF DocumentsAreSound
<1>20. RepliesAreTrue'
  <2>1. replies[c] = "SILENT"
    BY <1>1 DEF TransportInv, RepliesAreTrue
  <2> QED BY <1>1, <1>6, <1>7, <2>1 DEF TransportInv, RepliesAreTrue, Ended
<1>21. ConfirmsAreProved'
  <2> SUFFICES ASSUME NEW d \in Step, Made(d)', steps'[d].op = "confirm"
               PROVE  \E e \in Step : ProvedProbe(e, steps[d].tx)'
    BY DEF ConfirmsAreProved, ProvedProbe
  <2>1. \A e \in Step, t \in Tx : ProvedProbe(e, t) /\ t = steps'[d].tx => ProvedProbe(e, steps[d].tx)'
    BY <1>8 DEF ProvedProbe
  <2>2. CASE d = c
    BY <1>1, <2>1, <2>2
  <2>3. CASE d # c
    <3>1. Made(d) /\ steps'[d] = steps[d] /\ steps[d].tx \in Tx
      BY <1>3, <1>6, <1>7, <2>3
    <3> QED BY <2>1, <3>1 DEF TransportInv, ConfirmsAreProved
  <2> QED BY <2>2, <2>3
<1> QED BY <1>5, <1>9, <1>10, <1>11, <1>13, <1>19, <1>20, <1>21 DEF TransportInv

LEMMA PrepareKeeps == TransportInv /\ Prepare => TransportInv'
<1> SUFFICES ASSUME TransportInv, Prepare PROVE TransportInv'
  OBVIOUS
<1>1. PICK t \in Tx : (\A u \in Tx : u \in TxMade <=> u < t) /\ Create("prepare", t)
  BY DEF Prepare
<1>2. transport.tx \in TxMade \cup {0} /\ TxMade \subseteq Tx /\ Tx \subseteq Nat
  BY TxAreMade DEF TransportInv, DocumentsAreSound, DocIsSound, Tx
<1>3. t \notin TxMade /\ \A u \in TxMade : u < t
  BY <1>1, <1>2 DEF Tx
<1>4. t >= transport.tx /\ transport.tx \in Int
  <2>1. transport.tx \in 0..MaxTx /\ t \in Int /\ t >= 0
    BY DEF TransportInv, TransportTypeOK, Document, Tx
  <2>2. transport.tx = 0 \/ transport.tx < t
    BY <1>2, <1>3
  <2> QED BY <2>1, <2>2
<1>5. transport.tx # 0 => trial[transport.tx] \in Ended
  BY RefreshedLemma DEF Prepare, MayPrepare
<1>6. EndedBefore(t)
  <2> SUFFICES ASSUME NEW u \in TxMade \ cut, u < t PROVE trial[u] \in Ended
    BY DEF EndedBefore
  <2>1. ~(u > transport.tx)
    <3>1. filing.tx = -1 /\ u # -1
      BY <1>2 DEF Prepare, NoFiling, Tx
    <3> QED BY <3>1 DEF TransportInv, DocumentsAreSound
  <2>2. CASE u = transport.tx
    BY <1>2, <1>5, <2>2 DEF Tx
  <2>3. CASE u < transport.tx
    BY <2>3 DEF TransportInv, EarlierHaveEnded, EndedBefore
  <2>4. u \in Int /\ transport.tx \in Int
    BY <1>2, <1>4 DEF Tx
  <2> QED BY <2>1, <2>2, <2>3, <2>4
<1> QED BY <1>1, <1>3, <1>4, <1>6, CreateKeeps DEF Prepare, Operations

LEMMA TakeKeeps ==
    ASSUME TransportInv, NEW op \in Operations \ {"prepare"}, Take(op)
    PROVE  TransportInv'
<1>1. /\ filing = NoFiling /\ transport' = Refreshed
      /\ MayTake(op, Refreshed) /\ Create(op, transport.tx)
      /\ UNCHANGED <<reported, overdue, trial, replies, cut>>
  BY DEF Take
<1>2. Refreshed.tx = transport.tx /\ Refreshed.commands = transport.commands
  BY RefreshedLemma
<1>3. transport.tx \in Tx /\ transport.tx >= transport.tx /\ DocIsSound(transport)
  BY <1>1, <1>2, TxAreMade DEF TransportInv, DocumentsAreSound, DocIsSound, MayTake, Tx
<1>4. transport.commands[op] = 0 /\ (op = "probe" => Refreshed.state = "TRIAL")
  BY <1>1, <1>2 DEF MayTake
<1>5. op = "confirm" => \E d \in Step : ProvedProbe(d, transport.tx)
  <2> SUFFICES ASSUME op = "confirm" PROVE \E d \in Step : ProvedProbe(d, transport.tx)
    OBVIOUS
  <2> DEFINE d == transport.commands["probe"]
  <2>1. d # 0 /\ steps[d].phase = "COMPLETED" /\ steps[d].proved
    BY <1>1, <1>2 DEF MayTake, Proof
  <2>2. d \in Step
    BY <2>1 DEF TransportInv, TransportTypeOK, Document, Operations
  <2>3. Made(d) /\ steps[d].op = "probe" /\ steps[d].tx = transport.tx
    BY <1>3, <2>1 DEF DocIsSound, Operations
  <2> QED BY <2>1, <2>2, <2>3 DEF ProvedProbe
<1>6. EndedBefore(transport.tx)
  BY DEF TransportInv, EarlierHaveEnded
<1> QED BY <1>1, <1>3, <1>4, <1>5, <1>6, CreateKeeps

LEMMA FileKeeps == TransportInv /\ File => TransportInv'
<1> SUFFICES ASSUME TransportInv, File PROVE TransportInv'
  OBVIOUS
<1>1. /\ UNCHANGED <<steps, reported, overdue, trial, replies, cut>>
      /\ transport' = filing /\ filing # NoFiling /\ filing' = NoFiling
  BY DEF File
<1>2. /\ DocIsSound(filing) /\ filing.state \notin Ended /\ filing.tx >= transport.tx
      /\ NamesAll(filing) /\ EndedBefore(filing.tx)
  BY <1>1 DEF TransportInv, DocumentsAreSound
<1>3. filing \in Document /\ transport \in Document
  BY <1>1 DEF TransportInv, TransportTypeOK
<1>4. TransportTypeOK'
  BY <1>1, <1>3 DEF TransportInv, TransportTypeOK
<1>5. EndIsTrue' /\ EarlierHaveEnded'
  BY <1>1, <1>2 DEF EndIsTrue, EarlierHaveEnded, EndedBefore, TxMade, Made
<1>6. \A t \in TxMade : t > filing.tx => t \in cut
  <2> SUFFICES ASSUME NEW t \in TxMade, t > filing.tx PROVE t \in cut
    OBVIOUS
  <2>1. t \in Tx /\ filing.tx \in 0..MaxTx /\ transport.tx \in 0..MaxTx
    BY <1>3, TxAreMade DEF TransportInv, Document
  <2>2. t > transport.tx /\ t # filing.tx
    BY <1>2, <2>1 DEF Tx
  <2> QED BY <2>2 DEF TransportInv, DocumentsAreSound
<1>7. DocumentsAreSound'
  <2>1. DocIsSound(transport)' /\ NamesAll(transport)'
    BY <1>1, <1>2 DEF DocIsSound, NamesAll, TxMade, Made
  <2>2. \A t \in TxMade' : t > transport'.tx => t \in cut' \/ t = filing'.tx
    BY <1>1, <1>6 DEF TxMade, Made
  <2> QED BY <1>1, <2>1, <2>2 DEF DocumentsAreSound
<1>8. CommitIsProved' /\ StepsAreSingle' /\ RepliesAreTrue' /\ ConfirmsAreProved'
  BY <1>1 DEF TransportInv, CommitIsProved, StepsAreSingle, RepliesAreTrue, ConfirmsAreProved,
       ProvedProbe, Made
<1> QED BY <1>4, <1>5, <1>7, <1>8 DEF TransportInv

LEMMA FilingCutKeeps == TransportInv /\ FilingCut => TransportInv'
<1> SUFFICES ASSUME TransportInv, FilingCut PROVE TransportInv'
  OBVIOUS
<1>1. /\ UNCHANGED <<transport, steps, reported, overdue, trial, replies>>
      /\ filing # NoFiling /\ filing' = NoFiling /\ cut' = cut \cup {filing.tx}
  BY DEF FilingCut
<1>2. filing.tx \in Tx
  BY <1>1, TxAreMade DEF TransportInv, DocumentsAreSound
<1>3. TransportTypeOK'
  BY <1>1, <1>2 DEF TransportInv, TransportTypeOK
<1>4. EndIsTrue' /\ EarlierHaveEnded'
  BY <1>1 DEF TransportInv, EndIsTrue, EarlierHaveEnded, EndedBefore, TxMade, Made
<1>5. DocumentsAreSound'
  <2>1. DocIsSound(transport)'
    BY <1>1 DEF TransportInv, DocumentsAreSound, DocIsSound, TxMade, Made
  <2>2. NamesAll(transport)'
    BY <1>1 DEF TransportInv, DocumentsAreSound, NamesAll, Made
  <2>3. \A t \in TxMade' : t > transport'.tx => t \in cut'
    BY <1>1 DEF TransportInv, DocumentsAreSound, TxMade, Made
  <2> QED BY <1>1, <2>1, <2>2, <2>3 DEF DocumentsAreSound
<1>6. CommitIsProved' /\ StepsAreSingle' /\ RepliesAreTrue' /\ ConfirmsAreProved'
  BY <1>1 DEF TransportInv, CommitIsProved, StepsAreSingle, RepliesAreTrue, ConfirmsAreProved,
       ProvedProbe, Made
<1> QED BY <1>3, <1>4, <1>5, <1>6 DEF TransportInv

LEMMA TransportStepKeeps == TransportInv /\ [TransportNext]_transportVars => TransportInv'
<1> SUFFICES ASSUME TransportInv, [TransportNext]_transportVars PROVE TransportInv'
  OBVIOUS
<1>1. CASE Show \/ Prepare \/ File \/ FilingCut
  BY <1>1, ShowKeeps, PrepareKeeps, FileKeeps, FilingCutKeeps
<1>2. CASE \E op \in Operations \ {"prepare"} : Take(op)
  BY <1>2, TakeKeeps
<1>3. CASE \E c \in Step : StepNext(c)
  <2> PICK c \in Step : StepNext(c)
    BY <1>3
  <2>1. CASE \E proved \in BOOLEAN : Respond(c, proved)
    BY <2>1, StoreKeeps
  <2>2. CASE GiveUp(c) \/ RetryStep(c)
    BY <2>2, StoreKeeps
  <2>3. CASE Run(c)
    BY <2>3, RunKeeps
  <2> QED BY <2>1, <2>2, <2>3 DEF StepNext
<1>4. CASE (\E t \in 0..MaxTx : IngestStatus(t)) \/ \E t \in Tx : DeadlinePasses(t)
  BY <1>4, OthersKeepTransport
<1>5. CASE \E t \in Tx : Lapse(t)
  BY <1>5, LapseKeeps
<1>6. CASE UNCHANGED transportVars
  <2>1. UNCHANGED <<transport, steps, filing, reported, overdue, trial, replies, cut>>
    BY <1>6 DEF transportVars
  <2>2. RepliesAreTrue' /\ CommitIsProved'
    BY <2>1 DEF TransportInv, RepliesAreTrue, CommitIsProved, ProvedProbe, Made
  <2> QED BY <2>1, <2>2, TrialKeeps DEF TransportInv, TransportTypeOK
<1> QED BY <1>1, <1>2, <1>3, <1>4, <1>5, <1>6 DEF TransportNext, TransportRequest

\* The inductive invariant of the switch, its commands and the Master's trials,
\* for any number of transactions, commands, retries and cut-off requests.
THEOREM TransportInvariance == TransportSpec => []TransportInv
<1>1. TransportInit => TransportInv
  BY TransportInitKeeps
<1>2. TransportInv /\ [TransportNext]_transportVars => TransportInv'
  BY TransportStepKeeps
<1> QED BY <1>1, <1>2, PTL DEF TransportSpec

\* A Master stays on a new transport only after a probe of that transaction came
\* back over it (transport_switch.action, the proof asked of `confirm`).
THEOREM CommitsAreProved == TransportSpec => []CommitIsProved
<1>1. TransportInv => CommitIsProved
  BY DEF TransportInv
<1> QED BY <1>1, TransportInvariance, PTL

\* An end that the document shows is the Master's (refreshed), and a step has one
\* command (action) unless a saving was cut off.
THEOREM SwitchIsTrue == TransportSpec => [](EndIsTrue /\ StepsAreSingle)
<1>1. TransportInv => EndIsTrue /\ StepsAreSingle
  BY DEF TransportInv
<1> QED BY <1>1, TransportInvariance, PTL

---------------------------------------------------------------------------
(* The switch and the command store.                                       *)

LEMMA StoreStarts == TransportInit => Store!Init
BY DEF TransportInit, Store!Init, StepPhase, Made, NoStep

\* What the store shows of the steps that an action leaves alone.
LEMMA StepsLeftAlone ==
    ASSUME TransportInv, NEW c \in Step, NEW row, steps' = [steps EXCEPT ![c] = row], row # NoStep,
           UNCHANGED replies
    PROVE  /\ \A d \in Step \ {c} : Made(d)' = Made(d) /\ StepPhase(d)' = StepPhase(d)
                                    /\ steps'[d].rounds = steps[d].rounds
           /\ Made(c)' /\ steps'[c] = row
           /\ StepPhase(c)' = IF row.phase = "pending" THEN "pending"
                              ELSE IF row.phase = "COMPLETED" THEN "succeeded" ELSE "unknown"
<1>1. steps'[c] = row /\ \A d \in Step \ {c} : steps'[d] = steps[d]
  BY DEF TransportInv, TransportTypeOK
<1> QED BY <1>1 DEF Made, StepPhase

LEMMA CreateSubmits ==
    ASSUME TransportInv, NEW op \in Operations, NEW tx \in Tx, Create(op, tx), UNCHANGED replies
    PROVE  Store!Next
<1> DEFINE row == [phase |-> "pending", tx |-> tx, op |-> op, rounds |-> 0, state |-> "NONE",
                   proved |-> FALSE]
<1>1. PICK c \in Step : ~Made(c) /\ steps' = [steps EXCEPT ![c] = row]
  <2>1. PICK c \in Step : (\A d \in Step : Made(d) <=> d < c) /\ steps' = [steps EXCEPT ![c] = row]
    BY DEF Create
  <2>2. ~(c < c)
    BY TransportAssumption DEF Step
  <2> QED BY <2>1, <2>2
<1>2. row # NoStep /\ row.phase = "pending" /\ row.rounds = 0
  BY DEF NoStep
<1> HIDE DEF row
<1>3. /\ \A d \in Step \ {c} : Made(d)' = Made(d) /\ StepPhase(d)' = StepPhase(d)
                               /\ steps'[d].rounds = steps[d].rounds
      /\ Made(c)' /\ steps'[c] = row /\ StepPhase(c)' = "pending" /\ StepPhase(c) = "none"
  BY <1>1, <1>2, StepsLeftAlone DEF StepPhase
<1>4. UNCHANGED [d \in Step |-> IF Made(d) THEN steps[d].rounds ELSE 0]
  BY <1>1, <1>2, <1>3
<1>5. [d \in Step |-> StepPhase(d)]' = [[d \in Step |-> StepPhase(d)] EXCEPT ![c] = "pending"]
  BY <1>3
<1>6. Store!Submit(c)
  BY <1>3, <1>4, <1>5 DEF Store!Submit
<1> QED BY <1>6 DEF Store!Next

LEMMA RespondSettles ==
    ASSUME TransportInv, NEW c \in Step, NEW proved \in BOOLEAN, Respond(c, proved) \/ GiveUp(c)
    PROVE  Store!Next
<1>1. Made(c) /\ steps[c] \in StepRow /\ steps[c].phase = "pending" /\ UNCHANGED replies
  BY StepFields DEF Respond, GiveUp, TransportInv, TransportTypeOK, NoStep
<1>2. PICK row \in StepRow : /\ steps' = [steps EXCEPT ![c] = row]
                             /\ row.phase # "pending" /\ row.rounds = steps[c].rounds
  <2>1. CASE Respond(c, proved)
    <3>1. [steps[c] EXCEPT !.phase = "COMPLETED", !.state = replies[c], !.proved = proved] \in StepRow
      BY <1>1, <2>1 DEF Respond, TransportInv, TransportTypeOK, StepRow
    <3>2. steps' = [steps EXCEPT ![c] =
            [steps[c] EXCEPT !.phase = "COMPLETED", !.state = replies[c], !.proved = proved]]
      BY <2>1 DEF Respond
    <3> QED BY <1>1, <3>1, <3>2 DEF StepRow
  <2>2. CASE GiveUp(c)
    <3>1. [steps[c] EXCEPT !.phase = "FAILED"] \in StepRow
      BY <1>1 DEF StepRow
    <3>2. steps' = [steps EXCEPT ![c] = [steps[c] EXCEPT !.phase = "FAILED"]]
      BY <2>2 DEF GiveUp
    <3> QED BY <1>1, <3>1, <3>2 DEF StepRow
  <2> QED BY <2>1, <2>2
<1>3. row # NoStep
  BY DEF NoStep, StepRow
<1>4. /\ \A d \in Step \ {c} : Made(d)' = Made(d) /\ StepPhase(d)' = StepPhase(d)
                               /\ steps'[d].rounds = steps[d].rounds
      /\ Made(c)' /\ steps'[c] = row /\ StepPhase(c)' \in {"succeeded", "unknown"}
      /\ StepPhase(c) = "pending"
  BY <1>1, <1>2, <1>3, StepsLeftAlone DEF StepPhase
<1>5. Store!Settle(c)
  BY <1>1, <1>2, <1>4 DEF Store!Settle, Store!Outcomes
<1> QED BY <1>5 DEF Store!Next

LEMMA RetryReopens ==
    ASSUME TransportInv, NEW c \in Step, RetryStep(c)
    PROVE  Store!Next
<1>1. /\ Made(c) /\ steps[c] \in StepRow /\ steps[c].phase = "FAILED" /\ UNCHANGED replies
      /\ steps[c].rounds < StepRetries
  BY StepFields DEF RetryStep, TransportInv, TransportTypeOK, NoStep
<1> DEFINE row == [steps[c] EXCEPT !.phase = "pending", !.rounds = @ + 1]
<1>2. steps' = [steps EXCEPT ![c] = row]
  BY DEF RetryStep
<1>3. row.phase = "pending" /\ row.rounds = steps[c].rounds + 1 /\ row # NoStep
  BY <1>1 DEF StepRow, NoStep
<1> HIDE DEF row
<1>4. /\ \A d \in Step \ {c} : Made(d)' = Made(d) /\ StepPhase(d)' = StepPhase(d)
                               /\ steps'[d].rounds = steps[d].rounds
      /\ Made(c)' /\ steps'[c] = row /\ StepPhase(c)' = "pending" /\ StepPhase(c) = "unknown"
  BY <1>1, <1>2, <1>3, StepsLeftAlone DEF StepPhase
<1>5. Store!Reopen(c)
  BY <1>1, <1>3, <1>4 DEF Store!Reopen
<1> QED BY <1>5 DEF Store!Next

LEMMA RunTransmits ==
    ASSUME TransportInv, NEW c \in Step, Run(c)
    PROVE  Store!Next
<1>1. Made(c) /\ replies[c] = "SILENT" /\ UNCHANGED steps
  BY DEF Run
<1>2. PICK s : s # "SILENT" /\ replies' = [replies EXCEPT ![c] = s]
  <2>1. CASE \E s \in Effects(steps[c].op, steps[c].tx) : Answer(c, s)
    <3>1. PICK s \in Effects(steps[c].op, steps[c].tx) : Answer(c, s)
      BY <2>1
    <3>2. steps[c].op \in Operations /\ steps[c].tx \in Tx
      BY <1>1, StepFields DEF TransportInv, StepRow
    <3>3. s # "SILENT"
      BY <3>1, <3>2
      DEF Effects, Operations, TransportInv, TransportTypeOK, TrialStates, Ended
    <3> QED BY <3>1, <3>3 DEF Answer
  <2>2. CASE trial[steps[c].tx] \in Ended /\ Answer(c, trial[steps[c].tx])
    BY <2>2 DEF Answer, Ended
  <2> QED BY <2>1, <2>2 DEF Run
<1>3. replies'[c] # "SILENT" /\ \A d \in Step \ {c} : replies'[d] = replies[d]
  BY <1>2 DEF TransportInv, TransportTypeOK
<1>4. \A d \in Step : Made(d)' = Made(d) /\ StepPhase(d)' = StepPhase(d)
  BY <1>1 DEF Made, StepPhase
<1>5. StepPhase(c) # "none"
  BY <1>1 DEF StepPhase
<1>6. /\ UNCHANGED [d \in Step |-> StepPhase(d)]
      /\ UNCHANGED [d \in Step |-> IF Made(d) THEN steps[d].rounds ELSE 0]
  BY <1>1, <1>4
<1> DEFINE packets == [d \in Step |-> IF replies[d] = "SILENT" THEN 0 ELSE 1]
<1>7. packets[c] = 0 /\ packets[c] < 1 + StepRetries
  BY <1>1, TransportAssumption
<1>8. packets' = [packets EXCEPT ![c] = packets[c] + 1]
  <2>1. packets' = [packets EXCEPT ![c] = 1]
    BY <1>1, <1>3
  <2>2. packets[c] + 1 = 1
    BY <1>7
  <2> HIDE DEF packets
  <2> QED BY <2>1, <2>2, Zenon
<1>9. [d \in Step |-> StepPhase(d)][c] # "none"
  BY <1>5
<1>10. Store!Transmit(c)
  BY <1>6, <1>7, <1>8, <1>9, Zenon DEF Store!Transmit
<1> QED BY <1>10 DEF Store!Next

LEMMA StoreStep ==
    ASSUME TransportInv, [TransportNext]_transportVars
    PROVE  [Store!Next]_(Store!vars)
<1>1. ASSUME UNCHANGED <<steps, replies>> PROVE UNCHANGED Store!vars
  BY <1>1 DEF Store!vars, StepPhase, Made
<1>2. CASE Prepare
  <2>1. PICK t \in Tx : Create("prepare", t)
    BY <1>2 DEF Prepare
  <2> QED BY <1>2, <2>1, CreateSubmits DEF Prepare, Operations
<1>3. ASSUME NEW op \in Operations, Take(op) PROVE Store!Next
  <2>1. transport.tx \in Tx
    BY <1>3 DEF Take, MayTake, Refreshed, TransportInv, TransportTypeOK, Document, Tx
  <2> QED BY <1>3, <2>1, CreateSubmits DEF Take
<1>4. CASE Show \/ File \/ FilingCut \/ \E t \in 0..MaxTx : IngestStatus(t)
  BY <1>1, <1>4 DEF Show, File, FilingCut, IngestStatus
<1>5. ASSUME NEW c \in Step, StepNext(c) PROVE Store!Next
  BY <1>5, RespondSettles, RetryReopens, RunTransmits DEF StepNext
<1>6. CASE \E t \in Tx : DeadlinePasses(t)
  BY <1>1, <1>6 DEF DeadlinePasses
<1>7. CASE \E t \in Tx : Lapse(t)
  BY <1>1, <1>7 DEF Lapse
<1>8. CASE UNCHANGED transportVars
  BY <1>1, <1>8 DEF transportVars
<1> QED BY <1>2, <1>3, <1>4, <1>5, <1>6, <1>7, <1>8 DEF TransportNext, TransportRequest

\* The steps of the switch are commands of the store as CommandPromise has them
\* (action, refreshed, ingest): settled once, reopened by a counted retry alone, and
\* each run by the Master once at most.
THEOREM StepsKept == TransportSpec => StepsKeptInStore
<1>1. TransportInv /\ [TransportNext]_transportVars => [Store!Next]_(Store!vars)
  BY StoreStep
<1> QED
  BY <1>1, StoreStarts, TransportInvariance, PTL DEF TransportSpec, StepsKeptInStore, Store!Safe

---------------------------------------------------------------------------
(* The runs of MCUpdates: the catalogue, the jobs or the transport.        *)

\* What the run of the updates checks on a small instance (firmware_manager,
\* ota_manager, transport_switch) holds for every value of the constants.
THEOREM UpdatesInvariance == UpdatesSpec => []UpdatesInv
<1> DEFINE Inv == ReleaseInv /\ OtaInv /\ TransportInv
<1>1. UpdatesInit => Inv
  BY ReleaseInitKeeps, OtaInitKeeps, TransportInitKeeps DEF UpdatesInit
<1>2. Inv /\ [UpdatesNext]_<<part, releaseVars, otaVars, transportVars>> => Inv'
  <2> SUFFICES ASSUME Inv, [UpdatesNext]_<<part, releaseVars, otaVars, transportVars>>
               PROVE  Inv'
    OBVIOUS
  <2>1. [ReleaseNext]_releaseVars /\ [OtaNext]_otaVars /\ [TransportNext]_transportVars
    BY DEF UpdatesNext
  <2> QED BY <2>1, ReleaseStepKeeps, OtaStepKeeps, TransportStepKeeps
<1>3. Inv => UpdatesInv
  BY DEF UpdatesInv
<1> QED BY <1>1, <1>2, <1>3, PTL DEF UpdatesSpec

=============================================================================
