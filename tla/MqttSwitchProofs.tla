-------------------------- MODULE MqttSwitchProofs --------------------------
(***************************************************************************)
(* Proofs about MqttSwitch, for every set of profiles, every bound and     *)
(* every clock.  SwitchInv is inductive: a step writes the journal in one  *)
(* of five ways (staged, rolled back, decided, committed, marked) or       *)
(* leaves it, and Agreement, the offers that circulate and the reports of  *)
(* the Master are followed through each.                                   *)
(***************************************************************************)
EXTENDS MqttSwitch, TLAPS

---------------------------------------------------------------------------
(* Types.                                                                  *)

\* A row written by Change has the fields it was given, but for the revision.
LEMMA ChangeFields ==
    ASSUME doc \in Doc, NEW row \in Doc, Change(row)
    PROVE  /\ doc' \in Doc
           /\ doc'.shared = row.shared /\ doc'.active = row.active
           /\ doc'.pending = row.pending /\ doc'.previous = row.previous
           /\ doc'.tx = row.tx /\ doc'.state = row.state /\ doc'.decided = row.decided
           /\ doc'.deadline = row.deadline
BY DEF Change, Doc

LEMMA OfferTypes ==
    ASSUME doc \in Doc, doc.pending # NoProfile
    PROVE  PendingOffer \in Offer
BY DEF PendingOffer, Offer, Doc

LEMMA NoOfferIsNone == NoOffer \notin Offer
BY ProfileAssumption DEF NoOffer, Offer

LEMMA CallTypes ==
    /\ NoCall \in Call
    /\ \A rev \in Nat : [NoCall EXCEPT !.op = "RECOVER", !.rev = rev] \in Call
    /\ [NoCall EXCEPT !.op = "SAW"] \in Call
BY DEF NoCall, Call

LEMMA TestTypes == NoTest \in TestThread /\ NoTest.at = "NONE" /\ ~NoTest.proved
BY DEF NoTest, TestThread, OfferOrNone

---------------------------------------------------------------------------
(* The ways to write the journal.                                          *)

StagedStep ==
    /\ doc.pending = NoProfile /\ doc'.pending \in Profile
    /\ doc'.tx = doc.tx + 1 /\ doc'.state = "PENDING" /\ ~doc'.decided
    /\ doc'.shared = doc.shared /\ doc'.active = doc.active
    /\ doc'.deadline = NoTime

RolledBackStep ==
    /\ ~doc.decided /\ ~doc'.decided
    /\ doc.pending # NoProfile /\ doc'.pending = NoProfile
    /\ doc.state \notin {"IDLE", "COMMITTED", "ROLLED_BACK"} /\ doc'.state = "ROLLED_BACK"
    /\ doc'.tx = doc.tx /\ doc'.shared = doc.shared /\ doc'.active = doc.active
    /\ doc'.deadline = doc.deadline

DecidedStep ==
    /\ doc.state = "READY_TO_CONFIRM" /\ doc'.state = "COMMITTING"
    /\ doc'.decided /\ doc'.pending = doc.pending /\ doc'.previous = doc.active
    /\ doc'.tx = doc.tx /\ doc'.shared = doc.shared /\ doc'.active = doc.active
    /\ doc'.deadline = doc.deadline

CommittedStep ==
    /\ doc.decided /\ doc'.decided /\ doc.pending # NoProfile
    /\ doc.state # "COMMITTED" /\ doc'.state = "COMMITTED"
    /\ doc'.active = doc.pending /\ doc'.pending = NoProfile
    /\ doc'.previous = doc.previous
    /\ doc'.tx = doc.tx /\ doc'.shared = doc.shared + 1
    /\ doc'.deadline = doc.deadline

\* Only the state, and for a test the deadline, is written.
MarkedStep ==
    /\ doc'.decided = doc.decided /\ doc'.pending = doc.pending
    /\ doc'.previous = doc.previous
    /\ doc'.tx = doc.tx /\ doc'.shared = doc.shared /\ doc'.active = doc.active
    /\ \/ doc'.state = doc.state /\ doc'.deadline = doc.deadline
       \/ doc.state = "PENDING" /\ doc'.state = "TESTING"
       \/ /\ doc.state = "TESTING" /\ doc'.state \in {"READY_TO_CONFIRM", "FAILED"}
          /\ doc'.deadline = doc.deadline
       \/ /\ doc.state \in Doubtful /\ doc'.state = "RECOVERY_REQUIRED"
          /\ doc'.deadline = doc.deadline

\* The threads' side of a step: some end, none starts.
Quieter ==
    /\ candidate' \in {candidate, NoOffer}
    /\ tester' \in {tester, NoTest}
    /\ announcing' \in {announcing, NoOffer}
    /\ \/ recovery' \in {recovery, NoOffer}
       \/ InDoubt(doc') /\ recovery' = PendingOffer'
    /\ \A t \in Thread : calls'[t].op = "COMMITTED" =>
          calls[t].op = "COMMITTED" /\ calls'[t].tx = calls[t].tx

\* What the rest of the journal does not say about a marked transaction.
LEMMA MarkedCore ==
    ASSUME SwitchInv, doc' \in Doc, MarkedStep, Quieter, UNCHANGED <<net, master>>
    PROVE  Agreement' /\ OffersAreSound' /\ ReportsAreTrue' /\ PreviousIsSaved'
<1> USE DEF SwitchInv
<1>1. InDoubt(doc') <=> InDoubt(doc)
  BY DEF MarkedStep, InDoubt
<1>2. PendingOffer' = PendingOffer
  BY DEF MarkedStep, PendingOffer
<1>3. Agreement'
  BY <1>1 DEF MarkedStep, Agreement
<1>4. \A offer : Sound(offer) => Sound(offer)'
  BY <1>1, <1>2 DEF MarkedStep, Sound
<1>5. InDoubt(doc) => Sound(PendingOffer)
  BY DEF Sound, InDoubt, PendingOffer, TypeOK, Doc
<1>6. OffersAreSound'
  BY <1>1, <1>2, <1>4, <1>5 DEF OffersAreSound, Quieter
<1>7. ReportsAreTrue'
  BY DEF ReportsAreTrue, Quieter
<1>8. PreviousIsSaved'
  BY <1>1 DEF MarkedStep, PreviousIsSaved
<1>9. QED
  BY <1>3, <1>6, <1>7, <1>8

\* A new transaction: every offer that circulates belongs to an older one.
LEMMA StagedCore ==
    ASSUME SwitchInv, doc' \in Doc, StagedStep, Quieter, UNCHANGED <<net, master>>
    PROVE  Agreement' /\ OffersAreSound' /\ ReportsAreTrue' /\ PreviousIsSaved'
<1> USE DEF SwitchInv
<1>1. ~InDoubt(doc) /\ ~InDoubt(doc')
  BY DEF StagedStep, InDoubt
<1>2. Agreement'
  BY <1>1 DEF StagedStep, Agreement
<1>3. \A offer : offer.tx \in Nat /\ Sound(offer) => Sound(offer)'
  BY <1>1 DEF StagedStep, Sound, TypeOK, Doc
<1>4. /\ \A m \in net : m.offer.tx \in Nat
      /\ recovery.tx \in Nat /\ announcing.tx \in Nat
  BY DEF TypeOK, Message, OfferOrNone, Offer, NoOffer
<1>5. OffersAreSound'
  BY <1>1, <1>3, <1>4 DEF OffersAreSound, Quieter
<1>6. ReportsAreTrue'
  BY DEF ReportsAreTrue, Quieter
<1>7. QED
  BY <1>1, <1>2, <1>5, <1>6 DEF PreviousIsSaved

\* Only an undecided switch is rolled back, and of it nothing circulates.
LEMMA RolledBackCore ==
    ASSUME SwitchInv, doc' \in Doc, RolledBackStep, Quieter,
           net \subseteq net', master' = master,
           \A m \in net' \ net : m.kind \notin {"CONFIRM", "COMMITTED"}
    PROVE  Agreement' /\ OffersAreSound' /\ ReportsAreTrue' /\ PreviousIsSaved'
<1> USE DEF SwitchInv
<1>1. ~InDoubt(doc) /\ ~InDoubt(doc')
  BY DEF RolledBackStep, InDoubt
<1>2. Agreement'
  BY <1>1 DEF RolledBackStep, Agreement
<1>3. \A offer : Sound(offer) => Sound(offer)'
  BY <1>1 DEF RolledBackStep, Sound
<1>4. OffersAreSound'
  BY <1>1, <1>3 DEF OffersAreSound, Quieter
<1>5. ReportsAreTrue'
  BY DEF ReportsAreTrue, Quieter
<1>6. QED
  BY <1>1, <1>2, <1>4, <1>5 DEF PreviousIsSaved

\* Before the decision no offer of the transaction circulates; the first one is
\* the announcement.
LEMMA DecidedCore ==
    ASSUME SwitchInv, doc' \in Doc, DecidedStep, UNCHANGED <<net, master, calls, recovery>>,
           announcing' = PendingOffer
    PROVE  Agreement' /\ OffersAreSound' /\ ReportsAreTrue' /\ PreviousIsSaved'
<1> USE DEF SwitchInv
<1>1. ~doc.decided /\ ~InDoubt(doc) /\ doc.pending # NoProfile /\ InDoubt(doc')
  BY DEF DecidedStep, InDoubt, DecidedStates, PendingIsOwned
<1>2. PendingOffer' = PendingOffer
  BY DEF DecidedStep, PendingOffer
<1>3. Agreement'
  BY <1>1 DEF DecidedStep, Agreement
<1>4. \A offer : Sound(offer) => Sound(offer)'
  BY <1>1 DEF DecidedStep, Sound
<1>5. Sound(PendingOffer)'
  BY <1>1, <1>2 DEF Sound, DecidedStep, PendingOffer, TypeOK, Doc
<1>6. OffersAreSound'
  BY <1>2, <1>4, <1>5 DEF OffersAreSound
<1>7. ReportsAreTrue' /\ PreviousIsSaved'
  BY DEF ReportsAreTrue, PreviousIsSaved, DecidedStep
<1>8. QED
  BY <1>3, <1>6, <1>7

\* A report that is stored was made by a Master that has moved.
LEMMA ReportMeansMoved ==
    ASSUME SwitchInv, InDoubt(doc), NEW t \in Thread,
           calls[t].op = "COMMITTED", calls[t].tx = doc.tx
    PROVE  master.shared = doc.shared + 1 /\ master.active = doc.pending
<1> USE DEF SwitchInv
<1>1. PICK m \in net : m.kind = "COMMITTED" /\ m.offer.tx = doc.tx
  BY DEF ReportsAreTrue
<1>2. m.offer.shared = doc.shared + 1
  BY <1>1 DEF OffersAreSound, Sound, PendingOffer
<1>3. doc.shared + 1 <= master.shared /\ doc.shared \in Nat
  BY <1>1, <1>2 DEF ReportsAreTrue, TypeOK, Doc
<1>4. QED
  BY <1>3 DEF Agreement

LEMMA CommittedCore ==
    ASSUME SwitchInv, doc' \in Doc, CommittedStep, UNCHANGED <<net, master, announcing>>,
           recovery' \in {recovery, NoOffer},
           NEW t \in Thread, calls[t].op = "COMMITTED", calls[t].tx = doc.tx,
           calls' = [calls EXCEPT ![t] = NoCall]
    PROVE  Agreement' /\ OffersAreSound' /\ ReportsAreTrue' /\ PreviousIsSaved'
<1> USE DEF SwitchInv
<1>1. InDoubt(doc) /\ ~InDoubt(doc')
  BY DEF CommittedStep, InDoubt
<1>2. Agreement'
  BY <1>1, ReportMeansMoved DEF CommittedStep, Agreement
<1>3. doc.shared \in Nat /\ doc.tx \in Nat
  BY DEF TypeOK, Doc
<1>4. \A offer : offer.shared \in Nat /\ Sound(offer) => Sound(offer)'
  BY <1>1, <1>3 DEF CommittedStep, Sound, PendingOffer
<1>5. /\ \A m \in net : m.offer.shared \in Nat
      /\ recovery.shared \in Nat /\ announcing.shared \in Nat
  BY DEF TypeOK, Message, OfferOrNone, Offer, NoOffer
<1>6. OffersAreSound'
  BY <1>4, <1>5 DEF OffersAreSound
<1>7. ReportsAreTrue'
  BY DEF ReportsAreTrue, NoCall, TypeOK
<1>8. QED
  BY <1>1, <1>2, <1>6, <1>7 DEF PreviousIsSaved

---------------------------------------------------------------------------
(* The operator's steps.                                                   *)

LEMMA StageWrites ==
    ASSUME TypeOK, NEW p \in Profile, Stage(p)
    PROVE  doc' \in Doc /\ StagedStep
<1>1. Staged(p) \in Doc
  <2>1. doc \in Doc /\ doc.tx + 1 \in Nat /\ NoTime \in Int
    BY DEF TypeOK, Doc, NoTime
  <2>2. "PENDING" \in States /\ p \in Profile \cup {NoProfile}
    BY DEF States
  <2>3. QED
    BY <2>1, <2>2 DEF Staged, Doc
<1>2. doc \in Doc /\ Change(Staged(p)) /\ doc.pending = NoProfile
  BY DEF Stage, TypeOK
<1>3. QED
  BY <1>1, <1>2, ChangeFields DEF Staged, StagedStep, Doc

LEMMA StageKeeps ==
    ASSUME SwitchInv, NEW p \in Profile, Stage(p) PROVE SwitchInv'
<1> USE DEF SwitchInv
<1>1. doc' \in Doc /\ StagedStep
  BY StageWrites
<1>2. UNCHANGED <<up, tester, candidate, recovery, calls, announcing, reloading, net, master,
                  now, crashes>>
  BY DEF Stage, volatile
<1>3. TypeOK'
  BY <1>1, <1>2 DEF TypeOK
<1>4. Quieter
  BY <1>2 DEF Quieter
<1>5. Agreement' /\ OffersAreSound' /\ ReportsAreTrue' /\ PreviousIsSaved'
  BY <1>1, <1>2, <1>4, StagedCore
<1>6. PendingIsOwned' /\ DecidedStates'
  BY <1>1, ProfileAssumption DEF StagedStep, PendingIsOwned, DecidedStates
<1>7. TesterFollows' /\ ReadyIsProved'
  BY <1>1, <1>2 DEF StagedStep, TesterFollows, ReadyIsProved, InDoubt
<1>8. QED
  BY <1>3, <1>5, <1>6, <1>7

\* RolledBack, of a switch that is not decided.
LEMMA RollbackWrites ==
    ASSUME TypeOK, DecidedStates, PendingIsOwned, Change(RolledBack),
           ~doc.decided, doc.state \notin {"IDLE", "COMMITTED", "ROLLED_BACK"}
    PROVE  doc' \in Doc /\ RolledBackStep
<1>1. RolledBack \in Doc /\ doc \in Doc
  BY DEF RolledBack, TypeOK, Doc, States
<1>2. QED
  BY <1>1, ChangeFields DEF RolledBack, RolledBackStep, PendingIsOwned, Doc

LEMMA CancelWrites ==
    ASSUME TypeOK, DecidedStates, PendingIsOwned, Cancel
    PROVE  doc' \in Doc /\ RolledBackStep
<1>1. Change(RolledBack) /\ ~doc.decided /\ doc.state \notin {"IDLE", "COMMITTED", "ROLLED_BACK"}
  BY DEF Cancel, DecidedStates
<1>2. QED
  BY <1>1, RollbackWrites

LEMMA CancelKeeps ==
    ASSUME SwitchInv, Cancel PROVE SwitchInv'
<1> USE DEF SwitchInv
<1>1. doc' \in Doc /\ RolledBackStep
  BY CancelWrites
<1>2. UNCHANGED <<up, tester, candidate, recovery, calls, announcing, reloading, master,
                  now, crashes>>
  BY DEF Cancel, volatile
<1>3. net' \in {net, net \cup {Msg("ROLLBACK", PendingOffer)}}
  BY DEF Cancel, Publish
<1>4. PendingOffer \in Offer
  BY <1>1, OfferTypes DEF RolledBackStep, TypeOK
<1>5. net' \subseteq Message
  BY <1>3, <1>4 DEF TypeOK, Msg, Message, Kinds
<1>6. TypeOK'
  BY <1>1, <1>2, <1>5 DEF TypeOK
<1>7. Quieter
  BY <1>2 DEF Quieter
<1>8. Agreement' /\ OffersAreSound' /\ ReportsAreTrue' /\ PreviousIsSaved'
  BY <1>1, <1>2, <1>3, <1>7, RolledBackCore DEF Msg
<1>9. PendingIsOwned' /\ DecidedStates'
  BY <1>1 DEF RolledBackStep, PendingIsOwned, DecidedStates
<1>10. TesterFollows' /\ ReadyIsProved'
  BY <1>1, <1>2, <1>3 DEF RolledBackStep, TesterFollows, ReadyIsProved, InDoubt
<1>11. QED
  BY <1>6, <1>8, <1>9, <1>10

LEMMA TestWrites ==
    ASSUME TypeOK, Test PROVE doc' \in Doc /\ MarkedStep /\ doc'.state = "TESTING"
<1>1. Testing \in Doc /\ doc \in Doc
  <2>1. now + SwitchTime \in Int /\ now + TestTime \in Int
    BY TimesAssumption DEF TypeOK
  <2>2. doc \in Doc /\ "TESTING" \in States
    BY DEF TypeOK, States
  <2>3. QED
    BY <2>1, <2>2 DEF Testing, Doc
<1>2. QED
  BY <1>1, ChangeFields DEF Test, Testing, MarkedStep, Doc

LEMMA TestKeeps ==
    ASSUME SwitchInv, Test PROVE SwitchInv'
<1> USE DEF SwitchInv
<1>1. doc' \in Doc /\ MarkedStep /\ doc'.state = "TESTING"
  BY TestWrites
<1>2. UNCHANGED <<up, candidate, recovery, calls, announcing, reloading, net, master,
                  now, crashes>>
  BY DEF Test
<1>3. /\ doc.state = "PENDING" /\ tester.at = "NONE"
      /\ tester' = [NoTest EXCEPT !.at = "START", !.tx = doc.tx]
  BY DEF Test
<1>4. /\ tester' \in TestThread /\ tester'.at = "START" /\ tester'.tx = doc.tx
      /\ ~tester'.proved
  BY <1>3, TestTypes DEF TestThread, TypeOK, Doc, NoTest
<1>5. TypeOK'
  BY <1>1, <1>2, <1>4 DEF TypeOK
<1>6. Agreement' /\ OffersAreSound' /\ ReportsAreTrue' /\ PreviousIsSaved'
  <2>1. InDoubt(doc') <=> InDoubt(doc)
    BY <1>1 DEF MarkedStep, InDoubt
  <2>2. \A offer : Sound(offer) => Sound(offer)'
    BY <1>1, <2>1 DEF MarkedStep, Sound, PendingOffer
  <2>3. QED
    BY <1>1, <1>2, <2>1, <2>2
       DEF MarkedStep, Agreement, OffersAreSound, ReportsAreTrue, PreviousIsSaved
<1>7. PendingIsOwned' /\ DecidedStates'
  BY <1>1, <1>3 DEF MarkedStep, PendingIsOwned, DecidedStates
<1>8. TesterFollows'
  BY <1>1, <1>3, <1>4 DEF MarkedStep, TesterFollows, DecidedStates
<1>9. ReadyIsProved'
  BY <1>1, <1>3 DEF MarkedStep, ReadyIsProved, InDoubt, DecidedStates
<1>10. QED
  BY <1>5, <1>6, <1>7, <1>8, <1>9

LEMMA ConfirmWrites ==
    ASSUME TypeOK, Confirm PROVE doc' \in Doc /\ DecidedStep
<1>1. Decided \in Doc /\ doc \in Doc
  BY DEF Decided, TypeOK, Doc, States
<1>2. QED
  BY <1>1, ChangeFields DEF Confirm, Decided, DecidedStep, Doc

LEMMA ConfirmKeeps ==
    ASSUME SwitchInv, Confirm PROVE SwitchInv'
<1> USE DEF SwitchInv
<1>1. doc' \in Doc /\ DecidedStep
  BY ConfirmWrites
<1>2. /\ UNCHANGED <<up, tester, candidate, recovery, calls, reloading, net, master, now, crashes>>
      /\ announcing' = PendingOffer
  BY DEF Confirm
<1>3. doc.pending # NoProfile /\ PendingOffer' = PendingOffer
  BY <1>1 DEF DecidedStep, PendingIsOwned, PendingOffer
<1>4. PendingOffer \in Offer
  BY <1>3, OfferTypes DEF TypeOK
<1>5. TypeOK'
  BY <1>1, <1>2, <1>4 DEF TypeOK, OfferOrNone
<1>6. Agreement' /\ OffersAreSound' /\ ReportsAreTrue' /\ PreviousIsSaved'
  BY <1>1, <1>2, DecidedCore
<1>7. PendingIsOwned' /\ DecidedStates'
  BY <1>1 DEF DecidedStep, PendingIsOwned, DecidedStates
<1>8. TesterFollows'
  BY <1>1, <1>2 DEF DecidedStep, TesterFollows
<1>9. ReadyIsProved'
  BY <1>1, <1>2, <1>3 DEF DecidedStep, ReadyIsProved
<1>10. QED
  BY <1>5, <1>6, <1>7, <1>8, <1>9

---------------------------------------------------------------------------
(* Steps that leave the journal: threads that end, messages published.     *)

LEMMA QuietKeeps ==
    ASSUME SwitchInv, TypeOK', Quieter, UNCHANGED <<doc, net, master>>
    PROVE  SwitchInv'
<1> USE DEF SwitchInv
<1>1. doc' \in Doc /\ MarkedStep
  BY DEF TypeOK, MarkedStep
<1>2. Agreement' /\ OffersAreSound' /\ ReportsAreTrue' /\ PreviousIsSaved'
  BY <1>1, MarkedCore
<1>3. PendingIsOwned' /\ DecidedStates'
  BY DEF PendingIsOwned, DecidedStates
<1>4. PendingOffer' = PendingOffer /\ (InDoubt(doc') <=> InDoubt(doc))
  BY DEF PendingOffer
<1>5. TesterFollows'
  BY <1>4, TestTypes DEF TesterFollows, Quieter
<1>6. ReadyIsProved'
  BY <1>4 DEF ReadyIsProved, Quieter
<1>7. QED
  BY <1>2, <1>3, <1>5, <1>6

LEMMA PublishKeeps ==
    ASSUME SwitchInv, TypeOK', UNCHANGED <<doc, tester, candidate, recovery, calls>>,
           announcing' \in {announcing, NoOffer},
           master'.active = master.active, master'.shared = master.shared,
           master'.done = master.done,
           net \subseteq net',
           \A m \in net' \ net : /\ m.kind \in {"CONFIRM", "COMMITTED"} => Sound(m.offer)
                                 /\ m.kind = "COMMITTED" => m.offer.shared <= master.shared
    PROVE  SwitchInv'
<1> USE DEF SwitchInv
<1>1. PendingOffer' = PendingOffer /\ (InDoubt(doc') <=> InDoubt(doc))
  BY DEF PendingOffer
<1>2. \A offer : Sound(offer)' <=> Sound(offer)
  BY <1>1 DEF Sound
<1>3. OffersAreSound'
  BY <1>2 DEF OffersAreSound
<1>4. Agreement' /\ PreviousIsSaved' /\ PendingIsOwned' /\ DecidedStates'
  BY <1>1 DEF Agreement, PreviousIsSaved, PendingIsOwned, DecidedStates
<1>5. ReportsAreTrue'
  BY DEF ReportsAreTrue
<1>6. TesterFollows' /\ ReadyIsProved'
  BY <1>1 DEF TesterFollows, ReadyIsProved
<1>7. QED
  BY <1>3, <1>4, <1>5, <1>6

LEMMA AnnounceKeeps ==
    ASSUME SwitchInv, Announce PROVE SwitchInv'
<1> USE DEF SwitchInv
<1>1. /\ UNCHANGED <<doc, up, tester, candidate, recovery, calls, reloading, master, now, crashes>>
      /\ announcing # NoOffer /\ announcing' = NoOffer
  BY DEF Announce
<1>2. CASE candidate = NoOffer
  <2>1. net' = net
    BY <1>2 DEF Announce
  <2>2. TypeOK' /\ Quieter
    BY <1>1, <2>1 DEF TypeOK, OfferOrNone, Quieter
  <2>3. QED
    BY <1>1, <2>1, <2>2, QuietKeeps
<1>3. CASE candidate # NoOffer
  <2> DEFINE sent == [announcing EXCEPT !.profile = candidate.profile]
  <2>1. net' = net \cup {Msg("CONFIRM", sent)}
    BY <1>3 DEF Announce, Publish
  <2>2. announcing \in Offer /\ candidate \in Offer
    BY <1>1, <1>3 DEF TypeOK, OfferOrNone
  <2>3. /\ sent \in Offer
        /\ sent.tx = announcing.tx /\ sent.shared = announcing.shared
        /\ sent.profile = candidate.profile
    BY <2>2 DEF Offer
  <2>4. TypeOK'
    BY <1>1, <2>1, <2>3 DEF TypeOK, OfferOrNone, Msg, Message, Kinds
  <2>5. Sound(announcing)
    BY <1>1 DEF OffersAreSound
  <2>6. ASSUME announcing.tx = doc.tx, InDoubt(doc) PROVE sent = PendingOffer
    <3>1. announcing = PendingOffer
      BY <2>5, <2>6 DEF Sound
    <3>2. candidate = PendingOffer
      BY <1>3, <2>6 DEF ReadyIsProved
    <3>3. QED
      BY <3>1, <3>2 DEF PendingOffer
  <2>7. Sound(sent)
    BY <2>3, <2>5, <2>6 DEF Sound
  <2>8. \A m \in net' \ net : m.kind = "CONFIRM" /\ m.offer = sent
    BY <2>1 DEF Msg
  <2>9. QED
    BY <1>1, <2>1, <2>4, <2>7, <2>8, PublishKeeps
<1>4. QED
  BY <1>2, <1>3

LEMMA RecoveryAsksKeeps ==
    ASSUME SwitchInv, RecoveryAsks PROVE SwitchInv'
<1> USE DEF SwitchInv
<1>1. /\ UNCHANGED <<doc, up, tester, candidate, recovery, calls, announcing, reloading, master,
                     now, crashes>>
      /\ recovery # NoOffer /\ net' = net \cup {Msg("CONFIRM", recovery)}
  BY DEF RecoveryAsks, Publish, volatile
<1>2. recovery \in Offer
  BY <1>1 DEF TypeOK, OfferOrNone
<1>3. TypeOK'
  BY <1>1, <1>2 DEF TypeOK, Msg, Message, Kinds
<1>4. Sound(recovery)
  BY <1>1 DEF OffersAreSound
<1>5. \A m \in net' \ net : m.kind = "CONFIRM" /\ m.offer = recovery
  BY <1>1 DEF Msg
<1>6. QED
  BY <1>1, <1>3, <1>4, <1>5, PublishKeeps

\* The bookkeeping of the threads.
LEMMA AnnounceFailsKeeps ==
    ASSUME SwitchInv, AnnounceFails PROVE SwitchInv'
<1> USE DEF SwitchInv
<1>1. doc.revision \in Nat
  BY DEF TypeOK, Doc
<1>2. [NoCall EXCEPT !.op = "RECOVER", !.rev = doc.revision] \in Call
  BY <1>1, CallTypes
<1>3. TypeOK'
  BY <1>2 DEF AnnounceFails, TypeOK, OfferOrNone
<1>4. Quieter
  BY DEF AnnounceFails, Quieter, NoCall, TypeOK
<1>5. QED
  BY <1>3, <1>4, QuietKeeps DEF AnnounceFails

LEMMA WorkerSeesKeeps ==
    ASSUME SwitchInv, WorkerSees PROVE SwitchInv'
<1> USE DEF SwitchInv
<1>1. TypeOK'
  BY CallTypes DEF WorkerSees, TypeOK
<1>2. Quieter
  BY DEF WorkerSees, Quieter, NoCall, TypeOK
<1>3. QED
  BY <1>1, <1>2, QuietKeeps DEF WorkerSees

LEMMA WorkerReadsKeeps ==
    ASSUME SwitchInv, WorkerReads PROVE SwitchInv'
<1> USE DEF SwitchInv
<1>1. doc.revision \in Nat
  BY DEF TypeOK, Doc
<1>2. [NoCall EXCEPT !.op = "RECOVER", !.rev = doc.revision] \in Call
  BY <1>1, CallTypes
<1>3. TypeOK'
  BY <1>2 DEF WorkerReads, TypeOK
<1>4. Quieter
  BY DEF WorkerReads, Quieter, NoCall, TypeOK
<1>5. QED
  BY <1>3, <1>4, QuietKeeps DEF WorkerReads

LEMMA RecoveryEndsKeeps ==
    ASSUME SwitchInv, RecoveryEnds PROVE SwitchInv'
<1>1. TypeOK' /\ Quieter
  BY DEF RecoveryEnds, SwitchInv, TypeOK, OfferOrNone, Quieter
<1>2. QED
  BY <1>1, QuietKeeps DEF RecoveryEnds

LEMMA ReloadKeeps ==
    ASSUME SwitchInv, Reload PROVE SwitchInv'
<1> USE DEF SwitchInv
<1>1. recovery' \in OfferOrNone
  <2>1. InDoubt(doc) => PendingOffer \in OfferOrNone
    BY OfferTypes DEF InDoubt, OfferOrNone, TypeOK
  <2>2. QED
    BY <2>1 DEF Reload, TypeOK
<1>2. TypeOK'
  BY <1>1 DEF Reload, TypeOK, OfferOrNone
<1>3. Quieter
  BY DEF Reload, Quieter, PendingOffer
<1>4. QED
  BY <1>2, <1>3, QuietKeeps DEF Reload

LEMMA CrashKeeps ==
    ASSUME SwitchInv, Crash PROVE SwitchInv'
<1> USE DEF SwitchInv
<1>1. calls' \in [Thread -> Call]
  BY CallTypes DEF Crash
<1>2. TypeOK'
  <2>1. crashes' \in Nat
    BY DEF Crash, TypeOK
  <2>2. QED
    BY <1>1, <2>1, TestTypes DEF Crash, TypeOK, OfferOrNone
<1>3. \A t \in Thread : calls'[t].op = "NONE"
  BY DEF Crash, NoCall
<1>4. Quieter
  BY <1>3 DEF Crash, Quieter
<1>5. QED
  BY <1>2, <1>4, QuietKeeps DEF Crash

LEMMA TickKeeps ==
    ASSUME SwitchInv, Tick PROVE SwitchInv'
<1>1. TypeOK' /\ Quieter
  BY DEF Tick, volatile, SwitchInv, TypeOK, Quieter
<1>2. QED
  BY <1>1, QuietKeeps DEF Tick

---------------------------------------------------------------------------
(* Recovery.                                                               *)

LEMMA RecoveredWrites ==
    ASSUME TypeOK, DecidedStates, PendingIsOwned, NEW trusted, Change(Recovered(trusted))
    PROVE  /\ doc' \in Doc
           /\ \/ RolledBackStep
              \/ MarkedStep /\ doc'.state \in {doc.state, "RECOVERY_REQUIRED"}
           /\ doc.state \in Doubtful => doc'.state \in {"ROLLED_BACK", "RECOVERY_REQUIRED"}
<1>1. doc \in Doc
  BY DEF TypeOK
<1>2. CASE doc.state \notin Doubtful
  <2>1. doc' = doc
    BY <1>2 DEF Recovered, Change
  <2>2. QED
    BY <1>1, <1>2, <2>1 DEF MarkedStep
<1>3. CASE doc.state \in Doubtful /\ Recovered(trusted) = RolledBack /\ ~doc.decided
  <2>1. doc' \in Doc /\ RolledBackStep
    BY <1>3, RollbackWrites DEF Doubtful
  <2>2. QED
    BY <2>1 DEF RolledBackStep
<1>4. CASE doc.state \in Doubtful /\ Recovered(trusted) = [doc EXCEPT !.state = "RECOVERY_REQUIRED"]
  <2>1. [doc EXCEPT !.state = "RECOVERY_REQUIRED"] \in Doc
    BY <1>1 DEF Doc, States
  <2>2. QED
    BY <1>1, <1>4, <2>1, ChangeFields DEF MarkedStep, Doc
<1>5. QED
  BY <1>2, <1>3, <1>4 DEF Recovered

LEMMA RecoveredKeeps ==
    ASSUME SwitchInv, TypeOK', NEW trusted, Change(Recovered(trusted)), Quieter,
           UNCHANGED <<net, master>>
    PROVE  SwitchInv'
<1> USE DEF SwitchInv
<1>1. /\ doc' \in Doc
      /\ \/ RolledBackStep
         \/ MarkedStep /\ doc'.state \in {doc.state, "RECOVERY_REQUIRED"}
      /\ doc.state \in Doubtful => doc'.state \in {"ROLLED_BACK", "RECOVERY_REQUIRED"}
  BY RecoveredWrites
<1>2. CASE RolledBackStep
  <2>1. Agreement' /\ OffersAreSound' /\ ReportsAreTrue' /\ PreviousIsSaved'
    BY <1>1, <1>2, RolledBackCore
  <2>2. PendingIsOwned' /\ DecidedStates'
    BY <1>2 DEF RolledBackStep, PendingIsOwned, DecidedStates
  <2>3. TesterFollows' /\ ReadyIsProved'
    BY <1>2, TestTypes DEF RolledBackStep, TesterFollows, ReadyIsProved, InDoubt, Quieter
  <2>4. QED
    BY <2>1, <2>2, <2>3
<1>3. CASE MarkedStep /\ doc'.state \in {doc.state, "RECOVERY_REQUIRED"}
  <2>1. Agreement' /\ OffersAreSound' /\ ReportsAreTrue' /\ PreviousIsSaved'
    BY <1>1, <1>3, MarkedCore
  <2>2. \/ doc'.state = doc.state /\ doc'.deadline = doc.deadline
        \/ doc.state \in Doubtful /\ doc'.state = "RECOVERY_REQUIRED"
    BY <1>3 DEF MarkedStep
  <2>3. /\ doc'.decided = doc.decided /\ doc'.pending = doc.pending /\ doc'.tx = doc.tx
        /\ PendingOffer' = PendingOffer /\ (InDoubt(doc') <=> InDoubt(doc))
    BY <1>3 DEF MarkedStep, PendingOffer, InDoubt
  <2>4. PendingIsOwned' /\ DecidedStates'
    BY <2>2, <2>3 DEF PendingIsOwned, DecidedStates, Doubtful
  <2>5. TesterFollows'
    BY <2>2, <2>3, TestTypes DEF TesterFollows, Quieter
  <2>6. ReadyIsProved'
    BY <2>2, <2>3 DEF ReadyIsProved, Quieter
  <2>7. QED
    BY <2>1, <2>4, <2>5, <2>6
<1>4. QED
  BY <1>1, <1>2, <1>3

LEMMA RecoverKeeps ==
    ASSUME SwitchInv, NEW t \in Thread, Recover(t) PROVE SwitchInv'
<1> USE DEF SwitchInv
<1>1. /\ UNCHANGED <<up, tester, recovery, announcing, reloading, net, master, now, crashes>>
      /\ calls' = [calls EXCEPT ![t] = NoCall] /\ candidate' \in {candidate, NoOffer}
      /\ Change(Recovered(TRUE)) \/ doc' = doc
  BY DEF Recover
<1>2. calls' \in [Thread -> Call]
  BY <1>1, CallTypes DEF TypeOK
<1>3. doc' \in Doc
  BY <1>1, RecoveredWrites DEF TypeOK
<1>4. TypeOK'
  BY <1>1, <1>2, <1>3 DEF TypeOK, OfferOrNone
<1>5. Quieter
  BY <1>1 DEF Quieter, NoCall, TypeOK
<1>6. QED
  BY <1>1, <1>4, <1>5, RecoveredKeeps, QuietKeeps

LEMMA RestartKeeps ==
    ASSUME SwitchInv, Restart PROVE SwitchInv'
<1> USE DEF SwitchInv
<1>1. PICK trusted \in Trusted : Change(Recovered(trusted))
  BY DEF Restart
<1>2. /\ UNCHANGED <<tester, candidate, calls, announcing, reloading, net, master, now, crashes>>
      /\ up' = TRUE
      /\ recovery' = IF InDoubt(doc') THEN PendingOffer' ELSE NoOffer
  BY DEF Restart
<1>3. doc' \in Doc
  BY <1>1, RecoveredWrites
<1>4. recovery' \in OfferOrNone
  BY <1>2, <1>3 DEF InDoubt, PendingOffer, OfferOrNone, Offer, Doc
<1>5. TypeOK'
  BY <1>2, <1>3, <1>4 DEF TypeOK
<1>6. Quieter
  BY <1>2 DEF Quieter
<1>7. QED
  BY <1>1, <1>2, <1>5, <1>6, RecoveredKeeps

---------------------------------------------------------------------------
(* The test thread.                                                        *)

LEMMA TesterPreparesKeeps ==
    ASSUME SwitchInv, TesterPrepares PROVE SwitchInv'
<1> USE DEF SwitchInv
<1>1. /\ UNCHANGED <<doc, up, recovery, calls, announcing, reloading, master, now, crashes>>
      /\ tester.at = "START"
  BY DEF TesterPrepares
<1>2. CASE doc.pending = NoProfile
  <2>1. tester' = NoTest /\ UNCHANGED <<candidate, net>>
    BY <1>2 DEF TesterPrepares
  <2>2. TypeOK' /\ Quieter
    BY <1>1, <2>1, TestTypes DEF TypeOK, Quieter
  <2>3. QED
    BY <1>1, <2>1, <2>2, QuietKeeps
<1>3. CASE doc.pending # NoProfile
  <2> DEFINE offer == [PendingOffer EXCEPT !.tx = tester.tx]
  <2>1. /\ tester' = [tester EXCEPT !.at = "PROBING", !.offer = offer]
        /\ candidate' = offer
        /\ net' = net \cup {Msg("PREPARE", offer)}
    BY <1>3 DEF TesterPrepares, Publish
  <2>2. offer \in Offer
    BY <1>3, OfferTypes DEF TypeOK, TestThread, Offer
  <2>3. tester' \in TestThread
    BY <2>1, <2>2 DEF TypeOK, TestThread, OfferOrNone
  <2>4. TypeOK'
    BY <1>1, <2>1, <2>2, <2>3 DEF TypeOK, OfferOrNone, Msg, Message, Kinds
  <2>5. \A m \in net' \ net : m.kind = "PREPARE"
    BY <2>1 DEF Msg
  <2>6. PendingOffer' = PendingOffer /\ (InDoubt(doc') <=> InDoubt(doc))
    BY <1>1 DEF PendingOffer
  <2>7. \A o : Sound(o)' <=> Sound(o)
    BY <1>1, <2>6 DEF Sound
  <2>8. OffersAreSound'
    BY <1>1, <2>1, <2>5, <2>7 DEF OffersAreSound
  <2>9. Agreement' /\ PendingIsOwned' /\ DecidedStates' /\ PreviousIsSaved'
    BY <1>1, <2>6 DEF Agreement, PendingIsOwned, DecidedStates, PreviousIsSaved
  <2>10. ReportsAreTrue'
    BY <1>1, <2>1, <2>5 DEF ReportsAreTrue
  <2>11. ~doc.decided /\ doc.state \notin {"READY_TO_CONFIRM", "FAILED"}
    BY <1>1 DEF TesterFollows
  <2>12. tester'.at = "PROBING" /\ tester'.tx = tester.tx /\ tester'.offer = offer
         /\ tester'.proved = tester.proved
    BY <2>1 DEF TypeOK, TestThread
  <2>13. doc.state = "TESTING" => offer = PendingOffer
    BY <1>1 DEF TesterFollows, PendingOffer
  <2>14. ~tester.proved
    BY <1>1 DEF TesterFollows
  <2>15. TesterFollows'
    BY <1>1, <2>1, <2>6, <2>11, <2>12, <2>13, <2>14 DEF TesterFollows
  <2>16. ReadyIsProved'
    BY <1>1, <2>6, <2>11 DEF ReadyIsProved, InDoubt
  <2>17. QED
    BY <2>4, <2>8, <2>9, <2>10, <2>15, <2>16
<1>4. QED
  BY <1>2, <1>3

LEMMA TesterHearsKeeps ==
    ASSUME SwitchInv, TesterHears PROVE SwitchInv'
<1> USE DEF SwitchInv
<1>1. /\ UNCHANGED <<doc, up, candidate, recovery, calls, announcing, reloading, net, master,
                     now, crashes>>
      /\ tester.at = "PROBING" /\ Msg("READY", tester.offer) \in net
      /\ tester' = [tester EXCEPT !.proved = TRUE]
  BY DEF TesterHears
<1>2. /\ tester' \in TestThread /\ tester'.at = tester.at /\ tester'.tx = tester.tx
      /\ tester'.offer = tester.offer
  BY <1>1 DEF TypeOK, TestThread
<1>3. TypeOK'
  BY <1>1, <1>2 DEF TypeOK
<1>4. PendingOffer' = PendingOffer /\ (InDoubt(doc') <=> InDoubt(doc))
  BY <1>1 DEF PendingOffer
<1>5. Agreement' /\ PendingIsOwned' /\ DecidedStates' /\ PreviousIsSaved' /\ ReportsAreTrue'
  BY <1>1, <1>4 DEF Agreement, PendingIsOwned, DecidedStates, PreviousIsSaved, ReportsAreTrue
<1>6. OffersAreSound'
  BY <1>1, <1>4 DEF OffersAreSound, Sound
<1>7. TesterFollows'
  BY <1>1, <1>2, <1>4 DEF TesterFollows
<1>8. ReadyIsProved'
  BY <1>1, <1>4 DEF ReadyIsProved
<1>9. QED
  BY <1>3, <1>5, <1>6, <1>7, <1>8

LEMMA TesterEndsKeeps ==
    ASSUME SwitchInv, TesterEnds PROVE SwitchInv'
<1> USE DEF SwitchInv
<1>1. PICK ok \in BOOLEAN, kept \in BOOLEAN :
          /\ ok => tester.proved
          /\ tester' = [tester EXCEPT !.at = "RESULT", !.proved = ok, !.rev = doc.revision]
          /\ candidate' = IF kept THEN candidate ELSE NoOffer
  BY DEF TesterEnds
<1>2. /\ UNCHANGED <<doc, up, recovery, calls, announcing, reloading, net, master, now, crashes>>
      /\ tester.at = "PROBING"
  BY DEF TesterEnds
<1>3. doc.revision \in Nat
  BY DEF TypeOK, Doc
<1>4. /\ tester' \in TestThread /\ tester'.at = "RESULT" /\ tester'.tx = tester.tx
      /\ tester'.offer = tester.offer /\ tester'.proved = ok
  BY <1>1, <1>3 DEF TypeOK, TestThread
<1>5. candidate' \in {candidate, NoOffer}
  BY <1>1
<1>6. TypeOK'
  BY <1>2, <1>4, <1>5 DEF TypeOK, OfferOrNone
<1>7. PendingOffer' = PendingOffer /\ (InDoubt(doc') <=> InDoubt(doc))
  BY <1>2 DEF PendingOffer
<1>8. Agreement' /\ PendingIsOwned' /\ DecidedStates' /\ PreviousIsSaved' /\ ReportsAreTrue'
  BY <1>2, <1>7 DEF Agreement, PendingIsOwned, DecidedStates, PreviousIsSaved, ReportsAreTrue
<1>9. OffersAreSound'
  BY <1>2, <1>7 DEF OffersAreSound, Sound
<1>10. TesterFollows'
  BY <1>1, <1>2, <1>4, <1>5, <1>7 DEF TesterFollows
<1>11. ReadyIsProved'
  BY <1>2, <1>5, <1>7 DEF ReadyIsProved
<1>12. QED
  BY <1>6, <1>8, <1>9, <1>10, <1>11

LEMMA TesterStoresWrites ==
    ASSUME TypeOK, TesterStores
    PROVE  \/ doc' = doc
           \/ /\ doc' \in Doc /\ MarkedStep
              /\ doc.state = "TESTING" /\ doc'.state \in {"READY_TO_CONFIRM", "FAILED"}
              /\ doc'.state = "READY_TO_CONFIRM" => tester.proved
<1>1. doc \in Doc
  BY DEF TypeOK
<1>2. CASE Change(Tested(tester.proved)) /\ doc.state = "TESTING"
  <2>1. PICK s \in {"READY_TO_CONFIRM", "FAILED"} :
           /\ Tested(tester.proved) = [doc EXCEPT !.state = s]
           /\ s = "READY_TO_CONFIRM" => tester.proved
    BY DEF Tested
  <2>2. [doc EXCEPT !.state = s] \in Doc
    BY <1>1 DEF Doc, States
  <2>3. QED
    BY <1>1, <1>2, <2>1, <2>2, ChangeFields DEF MarkedStep, Doc
<1>3. QED
  BY <1>2 DEF TesterStores

LEMMA TesterStoresKeeps ==
    ASSUME SwitchInv, TesterStores PROVE SwitchInv'
<1> USE DEF SwitchInv
<1>1. /\ UNCHANGED <<up, candidate, recovery, calls, announcing, reloading, net, master,
                     now, crashes>>
      /\ tester.at = "RESULT" /\ tester' = NoTest
  BY DEF TesterStores
<1>2. Quieter
  BY <1>1 DEF Quieter
<1>3. doc' \in Doc
  BY TesterStoresWrites DEF TypeOK
<1>4. TypeOK'
  BY <1>1, <1>3, TestTypes DEF TypeOK
<1>5. CASE doc' = doc
  BY <1>1, <1>2, <1>4, <1>5, QuietKeeps
<1>6. CASE doc' # doc
  <2>1. /\ MarkedStep
        /\ doc.state = "TESTING" /\ doc'.state \in {"READY_TO_CONFIRM", "FAILED"}
        /\ doc'.state = "READY_TO_CONFIRM" => tester.proved
    BY <1>6, TesterStoresWrites
  <2>2. Agreement' /\ OffersAreSound' /\ ReportsAreTrue' /\ PreviousIsSaved'
    BY <1>1, <1>2, <1>3, <2>1, MarkedCore
  <2>3. /\ ~doc.decided /\ doc'.decided = doc.decided /\ doc'.pending = doc.pending
        /\ PendingOffer' = PendingOffer /\ ~InDoubt(doc')
    BY <2>1 DEF MarkedStep, PendingOffer, InDoubt, DecidedStates
  <2>4. PendingIsOwned' /\ DecidedStates'
    BY <2>1, <2>3 DEF PendingIsOwned, DecidedStates
  <2>5. TesterFollows'
    BY <1>1, <2>1, TestTypes DEF TesterFollows
  <2>6. ReadyIsProved'
    BY <1>1, <2>1, <2>3 DEF ReadyIsProved, TesterFollows
  <2>7. QED
    BY <1>4, <2>2, <2>4, <2>5, <2>6
<1>7. QED
  BY <1>5, <1>6

---------------------------------------------------------------------------
(* The reports of the Master.                                              *)

LEMMA HearKeeps ==
    ASSUME SwitchInv, NEW t \in Thread, Hear(t) PROVE SwitchInv'
<1> USE DEF SwitchInv
<1>1. UNCHANGED <<doc, up, tester, candidate, recovery, announcing, reloading, net, master,
                  now, crashes>>
  BY DEF Hear
<1>2. PICK m \in net :
        /\ m.kind = "COMMITTED"
        /\ calls' = [calls EXCEPT ![t] =
                        [op |-> "COMMITTED", tx |-> m.offer.tx, rev |-> doc.revision]]
  BY DEF Hear
<1>3. [op |-> "COMMITTED", tx |-> m.offer.tx, rev |-> doc.revision] \in Call
  BY DEF TypeOK, Doc, Message, Offer, Call
<1>4. TypeOK'
  BY <1>1, <1>2, <1>3 DEF TypeOK
<1>5. PendingOffer' = PendingOffer /\ (InDoubt(doc') <=> InDoubt(doc))
  BY <1>1 DEF PendingOffer
<1>6. Agreement' /\ PendingIsOwned' /\ DecidedStates' /\ PreviousIsSaved'
  BY <1>1, <1>5 DEF Agreement, PendingIsOwned, DecidedStates, PreviousIsSaved
<1>7. OffersAreSound'
  BY <1>1, <1>5 DEF OffersAreSound, Sound
<1>8. calls'[t].tx = m.offer.tx /\ \A u \in Thread \ {t} : calls'[u] = calls[u]
  BY <1>2 DEF TypeOK
<1>9. ReportsAreTrue'
  BY <1>1, <1>2, <1>8 DEF ReportsAreTrue
<1>10. TesterFollows' /\ ReadyIsProved'
  BY <1>1, <1>5 DEF TesterFollows, ReadyIsProved
<1>11. QED
  BY <1>4, <1>6, <1>7, <1>9, <1>10

LEMMA StoreCommittedWrites ==
    ASSUME TypeOK, DecidedStates, PendingIsOwned, NEW t \in Thread, StoreCommitted(t)
    PROVE  \/ doc' = doc
           \/ doc' \in Doc /\ CommittedStep /\ calls[t].tx = doc.tx
<1>1. doc \in Doc
  BY DEF TypeOK
<1>2. CASE Change(Committed) /\ doc.decided /\ doc.state # "COMMITTED" /\ calls[t].tx = doc.tx
  <2>1. doc.pending \in Profile
    BY <1>1, <1>2 DEF PendingIsOwned, DecidedStates, Doc
  <2>2. doc.shared + 1 \in Nat /\ "COMMITTED" \in States
    BY <1>1 DEF Doc, States
  <2>3. Committed \in Doc
    BY <1>1, <1>2, <2>1, <2>2 DEF Committed, Doc
  <2>4. QED
    BY <1>1, <1>2, <2>1, <2>3, ChangeFields, ProfileAssumption DEF Committed, CommittedStep, Doc
<1>3. CASE Change(Committed) /\ doc.state = "COMMITTED"
  BY <1>3 DEF Change, Committed
<1>4. QED
  BY <1>2, <1>3 DEF StoreCommitted

LEMMA StoreCommittedKeeps ==
    ASSUME SwitchInv, NEW t \in Thread, StoreCommitted(t) PROVE SwitchInv'
<1> USE DEF SwitchInv
<1>1. /\ UNCHANGED <<up, tester, candidate, announcing, net, master, now, crashes>>
      /\ calls[t].op = "COMMITTED" /\ calls' = [calls EXCEPT ![t] = NoCall]
      /\ recovery' \in {recovery, NoOffer}
      /\ reloading' \in BOOLEAN
  BY DEF StoreCommitted, TypeOK
<1>2. doc' \in Doc
  BY StoreCommittedWrites DEF TypeOK
<1>3. TypeOK'
  BY <1>1, <1>2, CallTypes DEF TypeOK, OfferOrNone
<1>4. CASE doc' = doc
  <2>1. Quieter
    BY <1>1 DEF Quieter, NoCall, TypeOK
  <2>2. QED
    BY <1>1, <1>3, <1>4, <2>1, QuietKeeps
<1>5. CASE doc' # doc
  <2>1. CommittedStep /\ calls[t].tx = doc.tx
    BY <1>5, StoreCommittedWrites
  <2>2. Agreement' /\ OffersAreSound' /\ ReportsAreTrue' /\ PreviousIsSaved'
    BY <1>1, <1>2, <2>1, CommittedCore
  <2>3. PendingIsOwned' /\ DecidedStates'
    BY <2>1 DEF CommittedStep, PendingIsOwned, DecidedStates
  <2>4. TesterFollows' /\ ReadyIsProved'
    BY <1>1, <2>1 DEF CommittedStep, TesterFollows, ReadyIsProved, InDoubt
  <2>5. QED
    BY <1>3, <2>2, <2>3, <2>4
<1>6. QED
  BY <1>4, <1>5

---------------------------------------------------------------------------
(* The Master.                                                             *)

LEMMA MasterPreparesKeeps ==
    ASSUME SwitchInv, MasterPrepares PROVE SwitchInv'
<1> USE DEF SwitchInv
<1>1. PICK m \in net : /\ m.kind = "PREPARE"
                       /\ master' = [master EXCEPT !.prepared = m.offer]
                       /\ net' = net \cup {Msg("READY", m.offer)}
                       /\ UNCHANGED <<doc, up, volatile, now, crashes>>
  BY DEF MasterPrepares, Publish
<1>2. m.offer \in Offer
  BY DEF TypeOK, Message
<1>3. TypeOK'
  BY <1>1, <1>2 DEF TypeOK, volatile, OfferOrNone, Msg, Message, Kinds
<1>4. /\ master'.active = master.active /\ master'.shared = master.shared
      /\ master'.done = master.done
  BY <1>1 DEF TypeOK
<1>5. \A n \in net' \ net : n.kind = "READY"
  BY <1>1 DEF Msg
<1>6. UNCHANGED <<doc, tester, candidate, recovery, calls, announcing>> /\ net \subseteq net'
  BY <1>1 DEF volatile
<1>7. QED
  BY <1>3, <1>4, <1>5, <1>6, PublishKeeps

\* The Master confirms nothing but the offer of the switch in doubt: an older
\* one does not bring the next shared revision.
LEMMA MasterCommitsWhat ==
    ASSUME SwitchInv, NEW m \in net, m.kind = "CONFIRM", m.offer.shared = master.shared + 1
    PROVE  /\ InDoubt(doc) /\ m.offer = PendingOffer
           /\ master.shared = doc.shared /\ master.active = doc.active
<1> USE DEF SwitchInv
<1>1. Sound(m.offer)
  BY DEF OffersAreSound
<1>2. doc.shared \in Nat /\ master.shared \in Nat
  BY DEF TypeOK, Doc
<1>3. doc.shared <= master.shared
  BY <1>2 DEF Agreement
<1>4. ~(m.offer.shared <= doc.shared)
  BY <1>2, <1>3
<1>5. InDoubt(doc) /\ m.offer = PendingOffer
  BY <1>1, <1>4 DEF Sound
<1>6. m.offer.shared = doc.shared + 1
  BY <1>5 DEF PendingOffer
<1>7. master.shared = doc.shared
  BY <1>2, <1>6
<1>8. QED
  BY <1>2, <1>5, <1>7 DEF Agreement

LEMMA MasterCommitsKeeps ==
    ASSUME SwitchInv, MasterCommits PROVE SwitchInv'
<1> USE DEF SwitchInv
<1>1. PICK m \in net : /\ m.kind = "CONFIRM" /\ m.offer.shared = master.shared + 1
                       /\ master' = [active |-> m.offer.profile, shared |-> m.offer.shared,
                                     prepared |-> NoOffer, done |-> m.offer.tx]
                       /\ net' = net \cup {Msg("COMMITTED", m.offer)}
                       /\ UNCHANGED <<doc, up, volatile, now, crashes>>
  BY DEF MasterCommits, Publish
<1>2. UNCHANGED <<doc, tester, candidate, recovery, calls, announcing, reloading>>
  BY <1>1 DEF volatile
<1>3. m.offer \in Offer
  BY DEF TypeOK, Message
<1>4. TypeOK'
  BY <1>1, <1>2, <1>3 DEF TypeOK, OfferOrNone, Msg, Message, Kinds, Offer
<1>5. /\ InDoubt(doc) /\ m.offer = PendingOffer
      /\ master.shared = doc.shared
  BY <1>1, MasterCommitsWhat
<1>6. PendingOffer' = PendingOffer /\ (InDoubt(doc') <=> InDoubt(doc))
  BY <1>2 DEF PendingOffer
<1>7. Agreement'
  BY <1>1, <1>2, <1>5, <1>6 DEF Agreement, PendingOffer
<1>8. \A offer : Sound(offer)' <=> Sound(offer)
  BY <1>2, <1>6 DEF Sound
<1>9. OffersAreSound'
  BY <1>1, <1>2, <1>8 DEF OffersAreSound, Msg
<1>10. master.shared \in Nat /\ master'.shared = master.shared + 1
  BY <1>1 DEF TypeOK
<1>11. \A n \in net : n.kind = "COMMITTED" => n.offer.shared \in Nat /\ n.offer.shared <= master.shared
  BY DEF ReportsAreTrue, TypeOK, Message, Offer
<1>12. \A n \in net' : n.kind = "COMMITTED" => n.offer.shared <= master'.shared
  <2>1. \A n \in net : n.kind = "COMMITTED" => n.offer.shared <= master'.shared
    BY <1>10, <1>11
  <2>2. m.offer.shared <= master'.shared
    BY <1>1, <1>10
  <2>3. QED
    BY <1>1, <2>1, <2>2 DEF Msg
<1>13. ReportsAreTrue'
  BY <1>1, <1>2, <1>12 DEF ReportsAreTrue
<1>14. PreviousIsSaved' /\ PendingIsOwned' /\ DecidedStates'
  BY <1>2, <1>6 DEF PreviousIsSaved, PendingIsOwned, DecidedStates
<1>15. TesterFollows' /\ ReadyIsProved'
  BY <1>1, <1>2, <1>6 DEF TesterFollows, ReadyIsProved
<1>16. QED
  BY <1>4, <1>7, <1>9, <1>13, <1>14, <1>15

LEMMA MasterEchoesKeeps ==
    ASSUME SwitchInv, MasterEchoes PROVE SwitchInv'
<1> USE DEF SwitchInv
<1>1. PICK m \in net :
        /\ m.kind = "CONFIRM"
        /\ m.offer = [tx |-> master.done, profile |-> master.active, shared |-> master.shared]
        /\ net' = net \cup {Msg("COMMITTED", m.offer)}
        /\ UNCHANGED <<doc, up, volatile, master, now, crashes>>
  BY DEF MasterEchoes, Publish
<1>2. m.offer \in Offer /\ Sound(m.offer) /\ m.offer.shared = master.shared
  BY <1>1 DEF TypeOK, Message, OffersAreSound
<1>3. TypeOK'
  BY <1>1, <1>2 DEF TypeOK, volatile, Msg, Message, Kinds
<1>4. \A n \in net' \ net : n.offer = m.offer
  BY <1>1 DEF Msg
<1>5. UNCHANGED <<doc, tester, candidate, recovery, calls, announcing, master>> /\ net \subseteq net'
  BY <1>1 DEF volatile
<1>6. master.shared <= master.shared
  BY DEF TypeOK
<1>7. QED
  BY <1>2, <1>3, <1>4, <1>5, <1>6, PublishKeeps

LEMMA MasterDropsKeeps ==
    ASSUME SwitchInv, MasterDrops PROVE SwitchInv'
<1> USE DEF SwitchInv
<1>1. /\ master' = [master EXCEPT !.prepared = NoOffer]
      /\ UNCHANGED <<doc, up, volatile, net, now, crashes>>
  BY DEF MasterDrops
<1>2. TypeOK'
  BY <1>1 DEF TypeOK, volatile, OfferOrNone
<1>3. /\ master'.active = master.active /\ master'.shared = master.shared
      /\ master'.done = master.done
  BY <1>1 DEF TypeOK
<1>4. UNCHANGED <<doc, tester, candidate, recovery, calls, announcing, net>>
  BY <1>1 DEF volatile
<1>5. QED
  BY <1>2, <1>3, <1>4, PublishKeeps

---------------------------------------------------------------------------
(* The invariant.                                                          *)

LEMMA InitKeeps == Init => SwitchInv
<1> SUFFICES ASSUME Init PROVE SwitchInv
  OBVIOUS
<1> USE ProfileAssumption DEF Init
<1>2. doc \in Doc
  BY DEF Doc, States, NoTime
<1>3. master \in [active : Profile, shared : Nat, prepared : OfferOrNone, done : Nat]
  BY DEF OfferOrNone
<1>4. TypeOK
  BY <1>2, <1>3, TestTypes, CallTypes DEF TypeOK, OfferOrNone, Message
<1>5. Agreement /\ PendingIsOwned /\ DecidedStates /\ PreviousIsSaved
  BY DEF Agreement, PendingIsOwned, DecidedStates, PreviousIsSaved, InDoubt
<1>6. OffersAreSound /\ ReportsAreTrue
  BY DEF OffersAreSound, ReportsAreTrue, NoCall
<1>7. TesterFollows /\ ReadyIsProved
  BY TestTypes DEF TesterFollows, ReadyIsProved, InDoubt
<1>8. QED
  BY <1>4, <1>5, <1>6, <1>7 DEF SwitchInv

LEMMA NextKeeps ==
    ASSUME SwitchInv, [Next]_vars PROVE SwitchInv'
<1>1. CASE Operate
  BY <1>1, StageKeeps, CancelKeeps, TestKeeps, ConfirmKeeps, AnnounceKeeps, AnnounceFailsKeeps
     DEF Operate
<1>2. CASE TesterStep
  BY <1>2, TesterPreparesKeeps, TesterHearsKeeps, TesterEndsKeeps, TesterStoresKeeps DEF TesterStep
<1>3. CASE WorkerSees \/ WorkerReads \/ \E t \in Thread : Recover(t)
  BY <1>3, WorkerSeesKeeps, WorkerReadsKeeps, RecoverKeeps
<1>4. CASE CommitStep
  BY <1>4, HearKeeps, StoreCommittedKeeps, RecoveryAsksKeeps, RecoveryEndsKeeps, ReloadKeeps
     DEF CommitStep
<1>5. CASE Crash \/ Restart \/ Tick
  BY <1>5, CrashKeeps, RestartKeeps, TickKeeps
<1>6. CASE MasterStep
  BY <1>6, MasterPreparesKeeps, MasterCommitsKeeps, MasterEchoesKeeps, MasterDropsKeeps
     DEF MasterStep
<1>7. CASE UNCHANGED vars
  <2>1. TypeOK' /\ Quieter /\ UNCHANGED <<doc, net, master>>
    BY <1>7 DEF vars, volatile, SwitchInv, TypeOK, Quieter
  <2>2. QED
    BY <2>1, QuietKeeps
<1>8. QED
  BY <1>1, <1>2, <1>3, <1>4, <1>5, <1>6, <1>7 DEF Next

\* In every reachable state the journal, the threads, the messages and the Master
\* are related as the store's transitions, the test, the reports and the recovery
\* need it.
THEOREM SwitchInvariance == Spec => []SwitchInv
<1>1. SwitchInv /\ [Next]_vars => SwitchInv'
  BY NextKeeps
<1>2. QED
  BY <1>1, InitKeeps, PTL DEF Spec

\* Every variable keeps its type: a row always has a profile in use, an offer its
\* transaction, a thread its place.
THEOREM SwitchTypeCorrect == Spec => []TypeOK
<1>1. SwitchInv => TypeOK
  BY DEF SwitchInv
<1>2. QED
  BY <1>1, SwitchInvariance, PTL

\* The two sides agree, or the Master is ahead by the decided switch, whatever
\* crashes, deadlines and messages do (confirm, committed, recover, cancel).
THEOREM AgreementHolds == Spec => []Agreement
<1>1. SwitchInv => Agreement
  BY DEF SwitchInv
<1>2. QED
  BY <1>1, SwitchInvariance, PTL

\* No switch is decided without the Master's answer for exactly that switch
\* (test_result, confirm).
THEOREM DecisionsHaveEvidence == Spec => []DecisionHasEvidence
<1>1. SwitchInv => DecisionHasEvidence
  BY DEF SwitchInv, ReadyIsProved, DecisionHasEvidence
<1>2. QED
  BY <1>1, SwitchInvariance, PTL

\* A staged profile always belongs to a transaction that is still open, so that
\* stage() can refuse a second one by looking at it.
THEOREM PendingOwned == Spec => []PendingIsOwned
<1>1. SwitchInv => PendingIsOwned
  BY DEF SwitchInv
<1>2. QED
  BY <1>1, SwitchInvariance, PTL

---------------------------------------------------------------------------
(* What a step may do, and what follows.                                   *)

\* Only the Master's own commit changes its side, and every write of the journal
\* is one of five.
JournalStep ==
    \/ doc' = doc /\ master'.active = master.active
    \/ doc' = doc /\ InDoubt(doc) /\ master'.active = doc.pending
    \/ /\ master' = master
       /\ \/ StagedStep
          \/ RolledBackStep
          \/ DecidedStep
          \/ CommittedStep /\ master.active = doc.pending
          \/ MarkedStep

LEMMA StepsOfTheJournal ==
    ASSUME SwitchInv, [Next]_vars PROVE JournalStep
<1> USE DEF SwitchInv, JournalStep
<1>1. CASE doc' = doc /\ master'.active = master.active
  BY <1>1
<1>2. ASSUME NEW p \in Profile, Stage(p) PROVE JournalStep
  BY <1>2, StageWrites DEF Stage
<1>3. CASE Cancel
  BY <1>3, CancelWrites DEF Cancel
<1>4. CASE Test
  BY <1>4, TestWrites DEF Test
<1>5. CASE Confirm
  BY <1>5, ConfirmWrites DEF Confirm
<1>6. CASE Operate
  BY <1>1, <1>2, <1>3, <1>4, <1>5, <1>6 DEF Operate, Announce, AnnounceFails
<1>7. CASE TesterStores
  BY <1>7, TesterStoresWrites DEF TesterStores
<1>8. CASE TesterStep
  BY <1>1, <1>7, <1>8 DEF TesterStep, TesterPrepares, TesterHears, TesterEnds
<1>9. ASSUME NEW t \in Thread, Recover(t) PROVE JournalStep
  <2>1. master' = master /\ (doc' = doc \/ Change(Recovered(TRUE)))
    BY <1>9 DEF Recover
  <2>2. QED
    BY <2>1, RecoveredWrites
<1>10. CASE Restart
  <2>1. master' = master /\ \E trusted : Change(Recovered(trusted))
    BY <1>10 DEF Restart
  <2>2. QED
    BY <2>1, RecoveredWrites
<1>11. ASSUME NEW t \in Thread, StoreCommitted(t) PROVE JournalStep
  <2>1. master' = master /\ calls[t].op = "COMMITTED"
    BY <1>11 DEF StoreCommitted
  <2>2. CASE doc' = doc
    BY <2>1, <2>2
  <2>3. CASE CommittedStep /\ calls[t].tx = doc.tx
    <3>1. InDoubt(doc)
      BY <2>3 DEF CommittedStep, InDoubt
    <3>2. QED
      BY <2>1, <2>3, <3>1, ReportMeansMoved
  <2>4. QED
    BY <1>11, <2>2, <2>3, StoreCommittedWrites
<1>12. CASE CommitStep
  BY <1>1, <1>11, <1>12 DEF CommitStep, Hear, RecoveryAsks, RecoveryEnds, Reload
<1>13. CASE MasterCommits
  <2>1. PICK m \in net : /\ m.kind = "CONFIRM" /\ m.offer.shared = master.shared + 1
                         /\ master'.active = m.offer.profile /\ doc' = doc
    BY <1>13 DEF MasterCommits
  <2>2. InDoubt(doc) /\ m.offer = PendingOffer
    BY <2>1, MasterCommitsWhat
  <2>3. QED
    BY <2>1, <2>2 DEF PendingOffer
<1>14. CASE MasterStep
  <2>1. CASE MasterPrepares \/ MasterEchoes \/ MasterDrops
    <3>1. doc' = doc /\ master'.active = master.active
      BY <2>1 DEF MasterPrepares, MasterEchoes, MasterDrops, TypeOK
    <3>2. QED
      BY <1>1, <3>1
  <2>2. QED
    BY <1>13, <1>14, <2>1 DEF MasterStep
<1>15. CASE WorkerSees \/ WorkerReads \/ Crash \/ Tick \/ UNCHANGED vars
  BY <1>1, <1>15 DEF WorkerSees, WorkerReads, Crash, Tick, vars
<1>16. QED
  BY <1>6, <1>8, <1>9, <1>10, <1>12, <1>14, <1>15 DEF Next

\* A decided switch ends as COMMITTED and no other way (confirm, committed, recover,
\* cancel, stage).
THEOREM DecisionsStand == Spec => DecisionStands
<1>1. ASSUME SwitchInv, JournalStep, InDoubt(doc)
      PROVE  \/ InDoubt(doc') /\ PendingOffer' = PendingOffer
             \/ doc'.state = "COMMITTED" /\ doc'.active = doc.pending
  BY <1>1 DEF JournalStep, InDoubt, PendingOffer, SwitchInv, DecidedStates,
              StagedStep, RolledBackStep, DecidedStep, CommittedStep, MarkedStep
<1>2. SwitchInv /\ [Next]_vars =>
        [InDoubt(doc) => \/ InDoubt(doc') /\ PendingOffer' = PendingOffer
                         \/ doc'.state = "COMMITTED" /\ doc'.active = doc.pending]_vars
  BY <1>1, StepsOfTheJournal
<1>3. QED
  BY <1>2, SwitchInvariance, PTL DEF Spec, DecisionStands

\* No restart, recovery or second call moves the deadline of a transaction
\* (start_test is the only one to set it, recover leaves it).
THEOREM DeadlinesAreFixed == Spec => DeadlineIsFixed
<1>1. ASSUME SwitchInv, JournalStep, doc'.tx = doc.tx, doc.deadline # NoTime
      PROVE  doc'.deadline = doc.deadline
  <2>1. doc.tx \in Nat
    BY <1>1 DEF SwitchInv, TypeOK, Doc
  <2>2. ~StagedStep
    BY <1>1, <2>1 DEF StagedStep
  <2>3. QED
    BY <1>1, <2>2 DEF JournalStep, SwitchInv, DecidedStates,
                      RolledBackStep, DecidedStep, CommittedStep, MarkedStep
<1>2. SwitchInv /\ [Next]_vars =>
        [doc'.tx = doc.tx /\ doc.deadline # NoTime => doc'.deadline = doc.deadline]_vars
  BY <1>1, StepsOfTheJournal
<1>3. QED
  BY <1>2, SwitchInvariance, PTL DEF Spec, DeadlineIsFixed

\* The profile that a switch replaces is the one that is kept as the previous one
\* (confirm saves it, committed replaces it later).
THEOREM LastActiveKept == Spec => LastActiveIsKept
<1>1. ASSUME SwitchInv, JournalStep, doc'.active # doc.active
      PROVE  doc'.previous = doc.active
  BY <1>1 DEF JournalStep, SwitchInv, PreviousIsSaved, InDoubt,
              StagedStep, RolledBackStep, DecidedStep, CommittedStep, MarkedStep
<1>2. SwitchInv /\ [Next]_vars =>
        [doc'.active # doc.active => doc'.previous = doc.active]_vars
  BY <1>1, StepsOfTheJournal
<1>3. QED
  BY <1>2, SwitchInvariance, PTL DEF Spec, LastActiveIsKept

---------------------------------------------------------------------------
(* The promise.                                                            *)

LEMMA SwitchPromiseInit == Init => Promise!Init
BY DEF Init, Promise!Init, InDoubt

LEMMA SwitchPromiseStep ==
    ASSUME SwitchInv, SwitchInv', JournalStep PROVE [Promise!Next]_(Promise!vars)
<1> USE DEF SwitchInv
<1>1. CASE doc' = doc /\ master'.active = master.active
  BY <1>1 DEF Promise!vars
<1>2. CASE doc' = doc /\ InDoubt(doc) /\ master'.active = doc.pending
  <2>1. Promise!PeerMoves
    BY <1>2 DEF Promise!PeerMoves
  <2>2. QED
    BY <2>1 DEF Promise!Next
<1>3. CASE StagedStep /\ master' = master
  <2>1. Promise!Propose
    BY <1>3 DEF StagedStep, Promise!Propose, InDoubt
  <2>2. QED
    BY <2>1 DEF Promise!Next
<1>4. CASE RolledBackStep /\ master' = master
  <2>1. Promise!Abandon
    BY <1>4 DEF RolledBackStep, Promise!Abandon, InDoubt
  <2>2. QED
    BY <2>1 DEF Promise!Next
<1>5. CASE DecidedStep /\ master' = master
  <2>1. doc.pending # NoProfile /\ ~doc.decided
    BY <1>5 DEF DecidedStep, PendingIsOwned, DecidedStates
  <2>2. Promise!Decide
    BY <1>5, <2>1 DEF DecidedStep, Promise!Decide, InDoubt
  <2>3. QED
    BY <2>2 DEF Promise!Next
<1>6. CASE CommittedStep /\ master.active = doc.pending /\ master' = master
  <2>1. Promise!GatewayMoves
    BY <1>6 DEF CommittedStep, Promise!GatewayMoves, InDoubt
  <2>2. QED
    BY <2>1 DEF Promise!Next
<1>7. CASE MarkedStep /\ master' = master
  BY <1>7 DEF MarkedStep, Promise!vars, InDoubt
<1>8. QED
  BY <1>1, <1>2, <1>3, <1>4, <1>5, <1>6, <1>7 DEF JournalStep

\* The journal, its threads and the Master implement MqttSwitchPromise: nobody
\* moves before the decision, the Gateway moves after the Master, and a decided
\* switch is neither abandoned nor replaced.
THEOREM SwitchPromiseKept == Spec => KeepsSwitchPromise
<1>1. SwitchInv /\ SwitchInv' /\ [Next]_vars => [Promise!Next]_(Promise!vars)
  BY SwitchPromiseStep, StepsOfTheJournal
<1>2. QED
  BY <1>1, SwitchPromiseInit, SwitchInvariance, PTL DEF Spec, KeepsSwitchPromise, Promise!Spec

=============================================================================
