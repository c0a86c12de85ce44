----------------------------- MODULE MqttSwitch -----------------------------
(***************************************************************************)
(* The switch of the Gateway and its Master to another MQTT broker         *)
(* (mqtt_store.Store, mqtt_service.Service, mqtt_api).  The Gateway        *)
(* coordinates.  An operator stages a profile, has it tested with the      *)
(* Master over a second connection, confirms, and the Master reports that  *)
(* it moved.                                                               *)
(*                                                                         *)
(* The journal is one row with a revision.  Every change is one            *)
(* transaction that fails unless the caller's revision is the row's; a     *)
(* caller inside the Gateway reads the revision first, in a transaction of *)
(* its own, and another thread may change the row in between.              *)
(***************************************************************************)
EXTENDS Integers

CONSTANTS
    Profile,        \* broker profiles
    FirstProfile,   \* the one commissioned before the first switch
    NoProfile,      \* the key is absent from the row
    TestTime,       \* seconds until test_deadline (60)
    SwitchTime,     \* seconds until deadline (120)
    Trusted,        \* whether the clock may be trusted after a restart
    MaxTx,          \* bound: transactions staged
    MaxNow,         \* bound: the clock
    MaxCrashes      \* bound: crashes of the Gateway process

ASSUME ProfileAssumption == FirstProfile \in Profile /\ NoProfile \notin Profile
ASSUME TimesAssumption == /\ Trusted \subseteq BOOLEAN
                          /\ TestTime \in Nat /\ SwitchTime \in Nat /\ TestTime <= SwitchTime
                          /\ MaxTx \in Nat /\ MaxNow \in Nat /\ MaxCrashes \in Nat

VARIABLES
    doc,         \* the journal: the row of mqtt_configuration
    up,          \* the process runs
    tester,      \* the test thread
    candidate,   \* the offer of candidate_client and candidate_profile
    recovery,    \* the offer of the recover_commit thread
    calls,       \* calls of the store that have read the revision and not yet written
    announcing,  \* a confirmation that is stored and not yet published: its offer
    reloading,   \* a thread that will reload the service
    net,         \* messages published so far
    master,      \* the Master's side (firmware, not in the repository)
    now,
    crashes

volatile == <<tester, candidate, recovery, calls, announcing, reloading>>
vars == <<doc, up, volatile, net, master, now, crashes>>

NoTime == -1
TxId == 1..MaxTx
Thread == {"worker", "callback", "recovery", "http"}

\* What a SWITCH_ message identifies: a transaction, a profile by its digest
\* and the shared revision it would bring.
Offer == [tx : Nat, profile : Profile, shared : Nat]
NoOffer == [tx |-> 0, profile |-> NoProfile, shared |-> 0]
OfferOrNone == Offer \cup {NoOffer}

Kinds == {"PREPARE", "READY", "CONFIRM", "COMMITTED", "ROLLBACK"}
Message == [kind : Kinds, offer : Offer]
Msg(kind, offer) == [kind |-> kind, offer |-> offer]

States == {"IDLE", "PENDING", "TESTING", "FAILED", "READY_TO_CONFIRM", "COMMITTING",
           "COMMITTED", "ROLLED_BACK", "RECOVERY_REQUIRED"}

Doc == [revision : Nat,
        shared   : Nat,                      \* shared_revision
        active   : Profile,
        pending  : Profile \cup {NoProfile},
        previous : Profile \cup {NoProfile},
        tx       : Nat,                      \* transaction_id, 0 before the first
        state    : States,
        decided  : BOOLEAN,                  \* decision is COMMIT
        testDeadline : Int,
        deadline : Int]

NoCall == [op |-> "NONE", tx |-> 0, rev |-> 0]
Call == [op : {"NONE", "SAW", "RECOVER", "COMMITTED"}, tx : Nat, rev : Nat]

\* `at` is what the test thread does next.
NoTest == [at |-> "NONE", offer |-> NoOffer, tx |-> 0, proved |-> FALSE, rev |-> 0]
TestThread == [at : {"NONE", "START", "PROBING", "RESULT"}, offer : OfferOrNone, tx : Nat,
          proved : BOOLEAN, rev : Nat]

TypeOK ==
    /\ doc \in Doc
    /\ up \in BOOLEAN
    /\ tester \in TestThread
    /\ candidate \in OfferOrNone /\ recovery \in OfferOrNone /\ announcing \in OfferOrNone
    /\ calls \in [Thread -> Call]
    /\ reloading \in BOOLEAN
    /\ net \subseteq Message
    /\ master \in [active : Profile, shared : Nat, prepared : OfferOrNone, done : Nat]
    /\ now \in Nat /\ crashes \in Nat

Init ==
    /\ doc = [revision |-> 1, shared |-> 0, active |-> FirstProfile, pending |-> NoProfile,
              previous |-> NoProfile, tx |-> 0, state |-> "IDLE", decided |-> FALSE,
              testDeadline |-> NoTime, deadline |-> NoTime]
    /\ up = TRUE
    /\ tester = NoTest /\ candidate = NoOffer /\ recovery = NoOffer /\ announcing = NoOffer
    /\ calls = [t \in Thread |-> NoCall]
    /\ reloading = FALSE
    /\ net = {}
    /\ master = [active |-> FirstProfile, shared |-> 0, prepared |-> NoOffer, done |-> 0]
    /\ now = 0 /\ crashes = 0

-----------------------------------------------------------------------------
(* The journal.  Each operator is the row after one call of the store.      *)

\* Mistake: nobody watches a switch that waits for the operator.
DoubtfulUnready == {"TESTING", "COMMITTING", "RECOVERY_REQUIRED"}

Doubtful == {"TESTING", "READY_TO_CONFIRM", "COMMITTING", "RECOVERY_REQUIRED"}

\* A transaction that changes nothing keeps the revision.
Change(row) ==
    doc' = IF row = doc THEN doc ELSE [row EXCEPT !.revision = doc.revision + 1]

\* A call that read the revision before.
Current(rev) == rev = doc.revision

Staged(p) ==
    [doc EXCEPT !.pending = p, !.tx = @ + 1, !.state = "PENDING", !.decided = FALSE,
                !.testDeadline = NoTime, !.deadline = NoTime]

RolledBack == [doc EXCEPT !.pending = NoProfile, !.state = "ROLLED_BACK"]

Testing == [doc EXCEPT !.state = "TESTING", !.deadline = now + SwitchTime,
                       !.testDeadline = now + TestTime]

Decided == [doc EXCEPT !.state = "COMMITTING", !.decided = TRUE, !.previous = doc.active]

\* Mistake: a connection in time is proof enough.
TestedByConnection(ok) ==
    [doc EXCEPT !.state = IF now <= doc.testDeadline THEN "READY_TO_CONFIRM" ELSE "FAILED"]

Tested(ok) ==
    [doc EXCEPT !.state = IF ok /\ now <= doc.testDeadline THEN "READY_TO_CONFIRM" ELSE "FAILED"]

\* A report of the Master that is repeated changes nothing.
Committed ==
    IF doc.state = "COMMITTED" THEN doc
    ELSE [doc EXCEPT !.active = doc.pending, !.pending = NoProfile,
                     !.shared = @ + 1, !.state = "COMMITTED"]

\* Mistake: the deadline comes before the decision.
RecoveredByDeadline(trusted) ==
    CASE doc.state \notin Doubtful                                       -> doc
      [] doc.state \in Doubtful /\ trusted /\ doc.deadline < now          -> RolledBack
      [] OTHER                      -> [doc EXCEPT !.state = "RECOVERY_REQUIRED"]

Recovered(trusted) ==
    CASE doc.state \notin Doubtful                           -> doc
      [] doc.state \in Doubtful /\ ~doc.decided /\ trusted
                                /\ doc.deadline < now        -> RolledBack
      [] OTHER                      -> [doc EXCEPT !.state = "RECOVERY_REQUIRED"]

\* What the row offers the Master.
PendingOffer == [tx |-> doc.tx, profile |-> doc.pending, shared |-> doc.shared + 1]
ActiveOffer == [tx |-> doc.tx, profile |-> doc.active, shared |-> doc.shared]

Publish(kind, offer) == net' = net \cup {Msg(kind, offer)}

-----------------------------------------------------------------------------
(* The operator, through the HTTP routes.  A stale expected_revision is     *)
(* refused and changes nothing.                                             *)

\* Mistake: a transaction replaces the one before it.
StageBusy(p) ==
    /\ up
    /\ doc.tx < MaxTx
    /\ Change(Staged(p))
    /\ UNCHANGED <<up, volatile, net, master, now, crashes>>

Stage(p) ==
    /\ up
    /\ doc.pending = NoProfile
    /\ doc.tx < MaxTx
    /\ Change(Staged(p))
    /\ UNCHANGED <<up, volatile, net, master, now, crashes>>

\* Mistake: a decided switch can be cancelled.
CancelAnyTime ==
    /\ up
    /\ doc.tx # 0
    /\ doc.state # "ROLLED_BACK"
    /\ Change(RolledBack)
    /\ UNCHANGED <<up, volatile, net, master, now, crashes>>

\* The rollback is announced to the Master once the row is written.
Cancel ==
    /\ up
    /\ doc.tx # 0 /\ ~doc.decided
    /\ doc.state # "ROLLED_BACK"
    /\ Change(RolledBack)
    /\ IF doc.state = "PENDING" THEN UNCHANGED net ELSE Publish("ROLLBACK", PendingOffer)
    /\ UNCHANGED <<up, volatile, master, now, crashes>>

Test ==
    /\ up
    /\ tester.at = "NONE"
    /\ doc.state = "PENDING"
    /\ now + SwitchTime < MaxNow
    /\ Change(Testing)
    /\ tester' = [NoTest EXCEPT !.at = "START", !.tx = doc.tx]
    /\ UNCHANGED <<up, candidate, recovery, calls, announcing, reloading, net, master, now, crashes>>

\* The decision is stored before it is announced.
Confirm ==
    /\ up
    /\ announcing = NoOffer
    /\ candidate # NoOffer
    /\ doc.state = "READY_TO_CONFIRM" /\ now <= doc.deadline
    /\ Change(Decided)
    /\ announcing' = PendingOffer
    /\ UNCHANGED <<up, tester, candidate, recovery, calls, reloading, net, master, now, crashes>>

\* The announcement carries the digest of candidate_profile.  It is not sent when
\* the second connection has gone meanwhile.
Announce ==
    /\ announcing # NoOffer
    /\ announcing' = NoOffer
    /\ IF candidate = NoOffer THEN UNCHANGED net
       ELSE Publish("CONFIRM", [announcing EXCEPT !.profile = candidate.profile])
    /\ UNCHANGED <<doc, up, tester, candidate, recovery, calls, reloading, master, now, crashes>>

\* publish() fails at once: the request asks for a recovery itself.
AnnounceFails ==
    /\ announcing # NoOffer /\ candidate # NoOffer
    /\ calls["http"] = NoCall
    /\ announcing' = NoOffer
    /\ calls' = [calls EXCEPT !["http"] = [NoCall EXCEPT !.op = "RECOVER", !.rev = doc.revision]]
    /\ UNCHANGED <<doc, up, tester, candidate, recovery, reloading, net, master, now, crashes>>

Operate == (\E p \in Profile : Stage(p)) \/ Cancel \/ Test \/ Confirm \/ Announce \/ AnnounceFails

-----------------------------------------------------------------------------
(* The test thread.  It reads the staged profile when it starts to run,    *)
(* which may be after the switch it was started for was cancelled.         *)

\* The proofs of TLS, CONNACK, SUBACK, PUBACK and of the probe are not told
\* apart: the test proves nothing without all of them, and fails whenever one
\* is missing.
TesterPrepares ==
    /\ tester.at = "START"
    /\ IF doc.pending = NoProfile
       THEN tester' = NoTest /\ UNCHANGED <<candidate, net>>
       ELSE LET offer == [PendingOffer EXCEPT !.tx = tester.tx] IN
            /\ tester' = [tester EXCEPT !.at = "PROBING", !.offer = offer]
            /\ candidate' = offer
            /\ Publish("PREPARE", offer)
    /\ UNCHANGED <<doc, up, recovery, calls, announcing, reloading, master, now, crashes>>

TesterHears ==
    /\ tester.at = "PROBING"
    /\ Msg("READY", tester.offer) \in net
    /\ tester' = [tester EXCEPT !.proved = TRUE]
    /\ UNCHANGED <<doc, up, candidate, recovery, calls, announcing, reloading, net, master, now, crashes>>

\* The test ends, proved or not, within 50 seconds, and reads the revision to
\* store its result.  The second connection stays open after a success.
TesterEnds ==
    /\ tester.at = "PROBING"
    /\ \E ok, kept \in BOOLEAN :
          /\ ok => tester.proved /\ kept
          /\ tester' = [tester EXCEPT !.at = "RESULT", !.proved = ok, !.rev = doc.revision]
          /\ candidate' = IF kept THEN candidate ELSE NoOffer
    /\ UNCHANGED <<doc, up, recovery, calls, announcing, reloading, net, master, now, crashes>>

TesterStores ==
    /\ tester.at = "RESULT"
    /\ IF Current(tester.rev) /\ tester.tx = doc.tx /\ doc.state = "TESTING"
       THEN Change(Tested(tester.proved))
       ELSE UNCHANGED doc
    /\ tester' = NoTest
    /\ UNCHANGED <<up, candidate, recovery, calls, announcing, reloading, net, master, now, crashes>>

TesterStep == TesterPrepares \/ TesterHears \/ TesterEnds \/ TesterStores

-----------------------------------------------------------------------------
(* Recovery: the worker's loop looks for a switch whose time has passed,   *)
(* and the start of the process looks for one it interrupted.              *)

WorkerSees ==
    /\ up
    /\ calls["worker"] = NoCall
    /\ doc.state \in Doubtful \ {"RECOVERY_REQUIRED"} /\ doc.deadline < now
    /\ calls' = [calls EXCEPT !["worker"] = [NoCall EXCEPT !.op = "SAW"]]
    /\ UNCHANGED <<doc, up, tester, candidate, recovery, announcing, reloading, net, master, now, crashes>>

WorkerReads ==
    /\ calls["worker"].op = "SAW"
    /\ calls' = [calls EXCEPT !["worker"] = [NoCall EXCEPT !.op = "RECOVER", !.rev = doc.revision]]
    /\ UNCHANGED <<doc, up, tester, candidate, recovery, announcing, reloading, net, master, now, crashes>>

\* REVISION_CONFLICT changes nothing, and the worker then leaves the second
\* connection open.
Recover(t) ==
    /\ calls[t].op = "RECOVER"
    /\ calls' = [calls EXCEPT ![t] = NoCall]
    /\ IF Current(calls[t].rev)
       THEN /\ Change(Recovered(TRUE))
            /\ candidate' = IF t = "worker" THEN NoOffer ELSE candidate
       ELSE UNCHANGED <<doc, candidate>>
    /\ UNCHANGED <<up, tester, recovery, announcing, reloading, net, master, now, crashes>>

-----------------------------------------------------------------------------
(* The Master's report that it moved, on three channels: the worker's, the *)
(* second connection, and the connection of recover_commit.                *)

Matches(t, offer) ==
    CASE t = "worker"   -> offer = (IF doc.state = "COMMITTED" THEN ActiveOffer ELSE PendingOffer)
      [] t = "callback" -> offer = candidate
      [] t = "recovery" -> offer = recovery
      [] OTHER          -> FALSE

Hear(t) ==
    /\ up
    /\ calls[t] = NoCall
    /\ \E m \in net :
          /\ m.kind = "COMMITTED" /\ Matches(t, m.offer)
          /\ calls' = [calls EXCEPT ![t] =
                          [op |-> "COMMITTED", tx |-> m.offer.tx, rev |-> doc.revision]]
    /\ UNCHANGED <<doc, up, tester, candidate, recovery, announcing, reloading, net, master, now, crashes>>

\* Two of the channels then reload the service on the new profile.
StoreCommitted(t) ==
    /\ calls[t].op = "COMMITTED"
    /\ calls' = [calls EXCEPT ![t] = NoCall]
    /\ IF Current(calls[t].rev) /\ calls[t].tx = doc.tx /\ doc.decided
       THEN /\ Change(Committed)
            /\ reloading' = (reloading \/ t # "worker")
            /\ recovery' = IF t = "recovery" THEN NoOffer ELSE recovery
       ELSE UNCHANGED <<doc, reloading, recovery>>
    /\ UNCHANGED <<up, tester, candidate, announcing, net, master, now, crashes>>

\* recover_commit publishes the decision again, and gives up after a while.
RecoveryAsks ==
    /\ recovery # NoOffer
    /\ Publish("CONFIRM", recovery)
    /\ UNCHANGED <<doc, up, volatile, master, now, crashes>>

RecoveryEnds ==
    /\ recovery # NoOffer
    /\ calls["recovery"] = NoCall
    /\ recovery' = NoOffer
    /\ UNCHANGED <<doc, up, tester, candidate, calls, announcing, reloading, net, master, now, crashes>>

\* _start: recover_commit runs for a switch that is decided and not finished.
InDoubt(row) == row.decided /\ row.pending # NoProfile

Reload ==
    /\ reloading
    /\ reloading' = FALSE
    /\ candidate' = NoOffer
    /\ recovery' = IF InDoubt(doc) THEN PendingOffer ELSE recovery
    /\ UNCHANGED <<doc, up, tester, calls, announcing, net, master, now, crashes>>

CommitStep == (\E t \in Thread : Hear(t) \/ StoreCommitted(t)) \/ RecoveryAsks \/ RecoveryEnds \/ Reload

-----------------------------------------------------------------------------
(* The process.                                                            *)

Crash ==
    /\ up /\ crashes < MaxCrashes
    /\ crashes' = crashes + 1
    /\ up' = FALSE
    /\ tester' = NoTest /\ candidate' = NoOffer /\ recovery' = NoOffer /\ announcing' = NoOffer
    /\ calls' = [t \in Thread |-> NoCall]
    /\ reloading' = FALSE
    /\ UNCHANGED <<doc, net, master, now>>

\* Mistake: the decision is announced for every staged profile.
RestartAnnounces ==
    /\ ~up
    /\ up' = TRUE
    /\ \E trusted \in Trusted : Change(Recovered(trusted))
    /\ recovery' = IF doc'.pending # NoProfile THEN PendingOffer' ELSE NoOffer
    /\ UNCHANGED <<tester, candidate, calls, announcing, reloading, net, master, now, crashes>>

\* mqtt_api.start: recover, then start the worker and perhaps recover_commit.
Restart ==
    /\ ~up
    /\ up' = TRUE
    /\ \E trusted \in Trusted : Change(Recovered(trusted))
    /\ recovery' = IF InDoubt(doc') THEN PendingOffer' ELSE NoOffer
    /\ UNCHANGED <<tester, candidate, calls, announcing, reloading, net, master, now, crashes>>

Tick ==
    /\ now < MaxNow
    /\ now' = now + 1
    /\ UNCHANGED <<doc, up, volatile, net, master, crashes>>

-----------------------------------------------------------------------------
(* The Master, as the Gateway's checks presume it.  A message of `net` may *)
(* never arrive, arrive late, or arrive again.                             *)

\* It prepares only the next shared revision, and answers when it is ready.
MasterPrepares ==
    \E m \in net :
        /\ m.kind = "PREPARE"
        /\ m.offer.shared = master.shared + 1
        /\ master' = [master EXCEPT !.prepared = m.offer]
        /\ Publish("READY", m.offer)
        /\ UNCHANGED <<doc, up, volatile, now, crashes>>

MasterCommits ==
    \E m \in net :
        /\ m.kind = "CONFIRM"
        /\ m.offer = master.prepared
        /\ m.offer.shared = master.shared + 1
        /\ master' = [active |-> m.offer.profile, shared |-> m.offer.shared,
                      prepared |-> NoOffer, done |-> m.offer.tx]
        /\ Publish("COMMITTED", m.offer)
        /\ UNCHANGED <<doc, up, volatile, now, crashes>>

\* The decision is announced again: so is its outcome.
MasterEchoes ==
    \E m \in net :
        /\ m.kind = "CONFIRM"
        /\ m.offer = [tx |-> master.done, profile |-> master.active, shared |-> master.shared]
        /\ Publish("COMMITTED", m.offer)
        /\ UNCHANGED <<doc, up, volatile, master, now, crashes>>

\* A rollback arrives, the Master's own deadline passes, or it loses power.
MasterDrops ==
    /\ master.prepared # NoOffer
    /\ master' = [master EXCEPT !.prepared = NoOffer]
    /\ UNCHANGED <<doc, up, volatile, net, now, crashes>>

MasterStep == MasterPrepares \/ MasterCommits \/ MasterEchoes \/ MasterDrops

-----------------------------------------------------------------------------
Next ==
    \/ Operate \/ TesterStep
    \/ WorkerSees \/ WorkerReads \/ (\E t \in Thread : Recover(t))
    \/ CommitStep
    \/ Crash \/ Restart \/ Tick
    \/ MasterStep

Spec == Init /\ [][Next]_vars

\* Threads that run go on, the process is started again after a crash, and time
\* passes.  Nothing is assumed of the operator, the network or the Master.
Fairness ==
    /\ WF_vars(TesterPrepares) /\ WF_vars(TesterEnds) /\ WF_vars(TesterStores)
    /\ WF_vars(WorkerSees) /\ WF_vars(WorkerReads) /\ WF_vars(Recover("worker"))
    /\ WF_vars(StoreCommitted("worker"))
    /\ WF_vars(Restart) /\ WF_vars(Tick)

FairSpec == Spec /\ Fairness

-----------------------------------------------------------------------------
(* Properties.                                                             *)

\* The two sides use one profile and one shared revision, or the Master is ahead
\* by the switch that the Gateway has decided and not forgotten: no crash, no
\* timeout, no lost or repeated message leaves them on two brokers with nobody
\* who knows (confirm, committed, recover, cancel).
Agreement ==
    \/ /\ master.shared = doc.shared
       /\ master.active = doc.active
    \/ /\ InDoubt(doc)
       /\ master.done = doc.tx
       /\ master.shared = doc.shared + 1
       /\ master.active = doc.pending

\* A decision rests on the Master's own answer for exactly this transaction,
\* profile and shared revision (test_result, confirm).
DecisionHasEvidence == InDoubt(doc) => Msg("READY", PendingOffer) \in net

\* The staged profile is there exactly while a transaction owns it (stage's
\* TRANSACTION_BUSY relies on it).
PendingIsOwned ==
    doc.pending # NoProfile <=> doc.state \notin {"IDLE", "COMMITTED", "ROLLED_BACK"}

\* A decided switch ends as COMMITTED and no other way: no timeout, recovery,
\* cancellation or new transaction reverses it.
DecisionStands ==
    [][InDoubt(doc) => \/ InDoubt(doc') /\ PendingOffer' = PendingOffer
                       \/ doc'.state = "COMMITTED" /\ doc'.active = doc.pending]_vars

\* A restart, a recovery or a second call never moves the deadline of a
\* transaction.
DeadlineIsFixed ==
    [][doc'.tx = doc.tx /\ doc.deadline # NoTime => doc'.deadline = doc.deadline]_vars

\* The profile that a switch replaces is kept as the previous one (confirm
\* saves it, committed replaces it later).
LastActiveIsKept == [][doc'.active # doc.active => doc'.previous = doc.active]_vars

\* A test, and the wait for a confirmation, come to an end, whatever the Master,
\* the network and the operator do (_test, the worker's loop, recover).
WaitsAreBounded ==
    doc.state \in {"TESTING", "READY_TO_CONFIRM"} ~>
        doc.state \notin {"TESTING", "READY_TO_CONFIRM"}

\* The offers that circulate are those of decided transactions: of the one in
\* doubt exactly its own, of an older one nothing that the Master would still take.
Sound(offer) ==
    /\ offer.tx <= doc.tx
    /\ offer.tx = doc.tx => doc.decided
    /\ IF offer.tx = doc.tx /\ InDoubt(doc) THEN offer = PendingOffer
                                           ELSE offer.shared <= doc.shared

OffersAreSound ==
    /\ \A m \in net : m.kind \in {"CONFIRM", "COMMITTED"} => Sound(m.offer)
    /\ recovery # NoOffer => Sound(recovery)
    /\ announcing # NoOffer => Sound(announcing)

ReportsAreTrue ==
    /\ \A m \in net : m.kind = "COMMITTED" => m.offer.shared <= master.shared
    /\ \A t \in Thread : calls[t].op = "COMMITTED" =>
          \E m \in net : m.kind = "COMMITTED" /\ m.offer.tx = calls[t].tx

DecidedStates ==
    /\ doc.state \in {"COMMITTING", "COMMITTED"} => doc.decided
    /\ doc.decided => doc.state \in {"COMMITTING", "COMMITTED", "RECOVERY_REQUIRED"}
    /\ doc.state = "IDLE" => doc.tx = 0
    /\ doc.state = "PENDING" => doc.deadline = NoTime

\* The test thread works on the transaction under test, and is gone afterwards.
TesterFollows ==
    /\ doc.decided \/ doc.state \in {"READY_TO_CONFIRM", "FAILED"} => tester.at = "NONE"
    /\ doc.state = "TESTING" /\ tester.at # "NONE" => tester.tx = doc.tx
    /\ doc.state = "TESTING" /\ tester.at \in {"PROBING", "RESULT"} =>
          /\ tester.offer = PendingOffer
          /\ candidate \in {NoOffer, PendingOffer}
    /\ tester.proved => tester.at \in {"PROBING", "RESULT"} /\ Msg("READY", tester.offer) \in net

ReadyIsProved ==
    doc.state = "READY_TO_CONFIRM" \/ InDoubt(doc) =>
        /\ candidate \in {NoOffer, PendingOffer}
        /\ Msg("READY", PendingOffer) \in net

PreviousIsSaved == InDoubt(doc) => doc.previous = doc.active

\* The inductive invariant from which the properties above are proved: who knows
\* of which transaction at every moment.
SwitchInv ==
    /\ TypeOK
    /\ Agreement
    /\ PendingIsOwned
    /\ OffersAreSound
    /\ ReportsAreTrue
    /\ DecidedStates
    /\ TesterFollows
    /\ ReadyIsProved
    /\ PreviousIsSaved

\* The journal and the Master implement the promise of a switch: the decision
\* comes before the Master moves, the Gateway moves after it, and what is decided
\* is finished (MqttSwitchPromise).
Promise == INSTANCE MqttSwitchPromise
    WITH gateway <- doc.active, peer <- master.active, proposal <- doc.pending,
         decided <- InDoubt(doc)
KeepsSwitchPromise == Promise!Spec

=============================================================================
