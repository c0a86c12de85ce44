----------------------- MODULE FirmwareReleasesProofs -----------------------
(***************************************************************************)
(* Proofs about FirmwareReleases, for every set of releases, lines and      *)
(* threads: requests that overlap in any way, uploads that fail anywhere    *)
(* and a process that ends between any two steps.                           *)
(***************************************************************************)
EXTENDS FirmwareReleases, TLAPS

\* What a thread's own reading says of the catalogue.
ThreadIsSound(t) ==
    /\ request[t].at \in {"COPIED", "UNIQUE", "DELETED"} => ~Stored(request[t].release)
    /\ request[t].at \in {"COPIED", "UNIQUE", "INSERTED"} => request[t].release \in files
    /\ request[t].at = "STATUS" =>
         /\ request[t].to = request[t].seen.status
              \/ request[t].to \in ReleaseTransitions[request[t].seen.status]
         /\ request[t].seen.status \in ReleaseStates
         /\ request[t].seen.status \in {"APPROVED", "ACTIVE", "RETIRED"} => request[t].seen.approved

\* No release is uploaded by two threads.
UploadsAreApart == \A t, u \in Uploader, r \in Release : Uploading(t, r) /\ Uploading(u, r) => t = u

LEMMA SoundParts == RequestsAreSound <=> (\A t \in Uploader : ThreadIsSound(t)) /\ UploadsAreApart
BY DEF RequestsAreSound, ThreadIsSound, UploadsAreApart

\* A thread that has a request, and one that has none, have the fields their steps name.
LEMMA RequestFields ==
    ASSUME ReleaseTypeOK, NEW t \in Uploader
    PROVE  /\ NoRequest.at = "NONE"
           /\ request[t] # NoRequest =>
                /\ request[t].at \in Steps /\ request[t].release \in Release
                /\ request[t].seen \in ReleaseRow /\ request[t].to \in ReleaseStates
BY DEF ReleaseTypeOK, Request, NoRequest

---------------------------------------------------------------------------
(* The initial state.                                                      *)

LEMMA ReleaseInitKeeps == ReleaseInit => ReleaseInv
<1> SUFFICES ASSUME ReleaseInit PROVE ReleaseInv
  OBVIOUS
<1>1. ReleaseTypeOK
  BY DEF ReleaseInit, ReleaseTypeOK, ReleaseRow, NoRow
<1>2. OneActivePerLine /\ ActiveWasApproved /\ RowHasFile
  BY DEF ReleaseInit, OneActivePerLine, ActiveWasApproved, RowHasFile, Stored, NoRow
<1>3. RequestsAreSound
  BY DEF ReleaseInit, RequestsAreSound, NoRequest, Uploading
<1> QED BY <1>1, <1>2, <1>3 DEF ReleaseInv

---------------------------------------------------------------------------
(* create_release.                                                         *)

\* What a step of an upload leaves to prove when the table does not change.
LEMMA TableKept ==
    ASSUME ReleaseInv, UNCHANGED releases, \A r \in Release : Stored(r) => r \in files'
    PROVE  OneActivePerLine' /\ ActiveWasApproved' /\ RowHasFile'
BY DEF ReleaseInv, OneActivePerLine, ActiveWasApproved, RowHasFile, Stored

\* A thread that ends takes the directory with it of a release that has no row.
LEMMA DirectoryGoes ==
    ASSUME ReleaseInv, NEW t \in Uploader, ~Stored(request[t].release), Done(t), UNCHANGED releases,
           request[t].at \in {"COPIED", "UNIQUE", "DELETED"}, files' = files \ {request[t].release}
    PROVE  ReleaseInv'
<1> USE DEF Done
<1>1. ReleaseTypeOK /\ RowHasFile /\ (\A u \in Uploader : ThreadIsSound(u)) /\ UploadsAreApart
  BY SoundParts DEF ReleaseInv
<1>2. ReleaseTypeOK'
  BY <1>1 DEF ReleaseTypeOK
<1>3. OneActivePerLine' /\ ActiveWasApproved' /\ RowHasFile'
  BY <1>1, TableKept DEF RowHasFile
<1>4. (\A u \in Uploader : ThreadIsSound(u))'
  <2> SUFFICES ASSUME NEW u \in Uploader PROVE ThreadIsSound(u)'
    OBVIOUS
  <2>1. CASE u = t
    BY <1>1, <2>1 DEF ThreadIsSound, ReleaseTypeOK, NoRequest
  <2>2. CASE u # t
    <3>1. request'[u] = request[u] /\ ThreadIsSound(u)
      BY <1>1, <2>2 DEF ReleaseTypeOK
    <3>2. request[u].at \in {"COPIED", "UNIQUE", "INSERTED"} => request[u].release # request[t].release
      <4> SUFFICES ASSUME request[u].at \in {"COPIED", "UNIQUE", "INSERTED"},
                          request[u].release = request[t].release
                   PROVE  FALSE
        OBVIOUS
      <4>1. request[u].release \in Release
        BY <1>1, RequestFields DEF NoRequest
      <4> QED BY <1>1, <2>2, <4>1 DEF UploadsAreApart, Uploading
    <3> QED BY <3>1, <3>2 DEF ThreadIsSound, Stored
  <2> QED BY <2>1, <2>2
<1>5. UploadsAreApart'
  BY <1>1 DEF UploadsAreApart, Uploading, ReleaseTypeOK, NoRequest
<1> QED BY <1>2, <1>3, <1>4, <1>5 DEF ReleaseInv, RequestsAreSound, ThreadIsSound, UploadsAreApart

LEMMA CopiesKeeps ==
    ASSUME ReleaseInv, NEW t \in Uploader, NEW r \in Release, UploadCopies(t, r)
    PROVE  ReleaseInv'
<1> USE DEF UploadCopies, UploadStep
<1>1. ReleaseTypeOK /\ RowHasFile /\ (\A u \in Uploader : ThreadIsSound(u)) /\ UploadsAreApart
  BY SoundParts DEF ReleaseInv
<1>2. ReleaseTypeOK'
  BY <1>1 DEF ReleaseTypeOK, Request, Steps, ReleaseRow, NoRow, ReleaseStates
<1>3. OneActivePerLine' /\ ActiveWasApproved' /\ RowHasFile'
  BY <1>1, TableKept DEF RowHasFile
<1>4. (\A u \in Uploader : ThreadIsSound(u))'
  BY <1>1 DEF ThreadIsSound, Stored, ReleaseTypeOK
<1>5. UploadsAreApart'
  BY <1>1 DEF UploadsAreApart, Uploading, ReleaseTypeOK
<1> QED BY <1>2, <1>3, <1>4, <1>5 DEF ReleaseInv, RequestsAreSound, ThreadIsSound, UploadsAreApart

LEMMA ChecksKeeps ==
    ASSUME ReleaseInv, NEW t \in Uploader, UploadChecks(t)
    PROVE  ReleaseInv'
<1> DEFINE r == request[t].release
<1>1. ReleaseTypeOK /\ RowHasFile /\ (\A u \in Uploader : ThreadIsSound(u)) /\ UploadsAreApart
  BY SoundParts DEF ReleaseInv
<1>2. r \in Release /\ request[t].at = "COPIED" /\ ~Stored(r) /\ r \in files /\ UNCHANGED releases
  BY <1>1, RequestFields DEF UploadChecks, ThreadIsSound, NoRequest
<1>3. CASE UploadStep(t, r, "UNIQUE") /\ UNCHANGED files
  <2> USE <1>3 DEF UploadStep
  <2>1. ReleaseTypeOK'
    BY <1>1, <1>2 DEF ReleaseTypeOK, Request, Steps, ReleaseRow, NoRow, ReleaseStates
  <2>2. OneActivePerLine' /\ ActiveWasApproved' /\ RowHasFile'
    BY <1>1, <1>2, TableKept DEF RowHasFile
  <2>3. (\A u \in Uploader : ThreadIsSound(u))'
    BY <1>1, <1>2 DEF ThreadIsSound, Stored, ReleaseTypeOK
  <2>4. UploadsAreApart'
    BY <1>1, <1>2 DEF UploadsAreApart, Uploading, ReleaseTypeOK
  <2> QED BY <2>1, <2>2, <2>3, <2>4 DEF ReleaseInv, RequestsAreSound, ThreadIsSound, UploadsAreApart
<1>4. CASE Done(t) /\ files' = files \ {r}
  BY <1>1, <1>2, <1>4, DirectoryGoes
<1> QED BY <1>2, <1>3, <1>4 DEF UploadChecks

LEMMA InsertsKeeps ==
    ASSUME ReleaseInv, NEW t \in Uploader, UploadInserts(t)
    PROVE  ReleaseInv'
<1> DEFINE r == request[t].release
<1> USE DEF UploadInserts, UploadStep
<1>1. /\ ReleaseTypeOK /\ OneActivePerLine /\ ActiveWasApproved /\ RowHasFile
      /\ (\A u \in Uploader : ThreadIsSound(u)) /\ UploadsAreApart
  BY SoundParts DEF ReleaseInv
<1>2. r \in Release /\ request[t].at = "UNIQUE" /\ r \in files
  BY <1>1, RequestFields DEF ThreadIsSound, NoRequest
<1>3. /\ releases' = [releases EXCEPT ![r] = [status |-> "DRAFT", approved |-> FALSE]]
      /\ request' = [request EXCEPT ![t] =
            [at |-> "INSERTED", release |-> r, seen |-> NoRow, to |-> "DRAFT"]]
      /\ UNCHANGED files
  OBVIOUS
<1> HIDE DEF r, UploadInserts, UploadStep
<1>4. ReleaseTypeOK'
  BY <1>1, <1>2, <1>3 DEF ReleaseTypeOK, Request, Steps, ReleaseRow, NoRow, ReleaseStates
<1>5. \A s \in Release : releases'[s] = releases[s] \/ (s = r /\ releases'[s].status = "DRAFT")
  <2>1. releases'[r] = [status |-> "DRAFT", approved |-> FALSE] /\ \A s \in Release \ {r} : releases'[s] = releases[s]
    BY <1>1, <1>2, <1>3 DEF ReleaseTypeOK
  <2>2. releases'[r].status = "DRAFT"
    BY <2>1
  <2> QED BY <2>1, <2>2
<1>6. OneActivePerLine' /\ ActiveWasApproved' /\ RowHasFile'
  BY <1>1, <1>2, <1>3, <1>5 DEF OneActivePerLine, ActiveWasApproved, RowHasFile, Stored
<1>7. (\A u \in Uploader : ThreadIsSound(u))'
  <2> SUFFICES ASSUME NEW u \in Uploader PROVE ThreadIsSound(u)'
    OBVIOUS
  <2>1. CASE u = t
    BY <1>1, <1>2, <1>3, <2>1 DEF ThreadIsSound, ReleaseTypeOK
  <2>2. CASE u # t
    <3>1. request'[u] = request[u] /\ ThreadIsSound(u)
      BY <1>1, <1>3, <2>2 DEF ReleaseTypeOK
    <3>2. request[u].at \in {"COPIED", "UNIQUE", "DELETED"} =>
            request[u].release # r /\ request[u].release \in Release
      <4> SUFFICES ASSUME request[u].at \in {"COPIED", "UNIQUE", "DELETED"}
                   PROVE  request[u].release # r /\ request[u].release \in Release
        OBVIOUS
      <4>1. request[u] # NoRequest /\ request[u].release \in Release
        BY <1>1, RequestFields DEF NoRequest
      <4> QED BY <1>1, <1>2, <2>2, <4>1 DEF UploadsAreApart, Uploading, r
    <3> QED BY <1>3, <1>5, <3>1, <3>2 DEF ThreadIsSound, Stored
  <2> QED BY <2>1, <2>2
<1>8. UploadsAreApart'
  BY <1>1, <1>2, <1>3 DEF UploadsAreApart, Uploading, ReleaseTypeOK, r
<1> QED BY <1>4, <1>6, <1>7, <1>8 DEF ReleaseInv, RequestsAreSound, ThreadIsSound, UploadsAreApart

LEMMA InsertFailsKeeps ==
    ASSUME ReleaseInv, NEW t \in Uploader, UploadInsertFails(t)
    PROVE  ReleaseInv'
<1>1. ReleaseTypeOK /\ (\A u \in Uploader : ThreadIsSound(u))
  BY SoundParts DEF ReleaseInv
<1>2. request[t].release \in Release /\ request[t].at = "UNIQUE" /\ ~Stored(request[t].release)
  BY <1>1, RequestFields DEF UploadInsertFails, ThreadIsSound, NoRequest
<1> QED BY <1>2, DirectoryGoes DEF UploadInsertFails

LEMMA CompletesKeeps ==
    ASSUME ReleaseInv, NEW t \in Uploader, UploadCompletes(t)
    PROVE  ReleaseInv'
<1> USE DEF UploadCompletes, Done
<1>1. ReleaseTypeOK /\ RowHasFile /\ (\A u \in Uploader : ThreadIsSound(u)) /\ UploadsAreApart
  BY SoundParts DEF ReleaseInv
<1>2. ReleaseTypeOK'
  BY <1>1 DEF ReleaseTypeOK
<1>3. OneActivePerLine' /\ ActiveWasApproved' /\ RowHasFile'
  BY <1>1, TableKept DEF RowHasFile
<1>4. (\A u \in Uploader : ThreadIsSound(u))' /\ UploadsAreApart'
  BY <1>1 DEF ThreadIsSound, UploadsAreApart, Uploading, Stored, ReleaseTypeOK, NoRequest
<1> QED BY <1>2, <1>3, <1>4 DEF ReleaseInv, RequestsAreSound, ThreadIsSound, UploadsAreApart

LEMMA UndoesKeeps ==
    ASSUME ReleaseInv, NEW t \in Uploader, UploadUndoes(t)
    PROVE  ReleaseInv'
<1> DEFINE r == request[t].release
<1> USE DEF UploadUndoes, UploadStep
<1>1. /\ ReleaseTypeOK /\ OneActivePerLine /\ ActiveWasApproved /\ RowHasFile
      /\ (\A u \in Uploader : ThreadIsSound(u)) /\ UploadsAreApart
  BY SoundParts DEF ReleaseInv
<1>2. r \in Release /\ request[t].at = "INSERTED"
  BY <1>1, RequestFields DEF NoRequest
<1>3. /\ releases' = [releases EXCEPT ![r] = NoRow]
      /\ request' = [request EXCEPT ![t] =
            [at |-> "DELETED", release |-> r, seen |-> NoRow, to |-> "DRAFT"]]
      /\ UNCHANGED files
  OBVIOUS
<1> HIDE DEF r, UploadUndoes, UploadStep
<1>4. ReleaseTypeOK'
  BY <1>1, <1>2, <1>3 DEF ReleaseTypeOK, Request, Steps, ReleaseRow, NoRow, ReleaseStates
<1>5. \A s \in Release : releases'[s] = releases[s] \/ (s = r /\ releases'[s].status = "ABSENT")
  <2>1. releases'[r] = NoRow /\ \A s \in Release \ {r} : releases'[s] = releases[s]
    BY <1>1, <1>2, <1>3 DEF ReleaseTypeOK
  <2>2. releases'[r].status = "ABSENT"
    BY <2>1 DEF NoRow
  <2> QED BY <2>1, <2>2
<1>6. OneActivePerLine' /\ ActiveWasApproved' /\ RowHasFile'
  BY <1>1, <1>2, <1>3, <1>5 DEF OneActivePerLine, ActiveWasApproved, RowHasFile, Stored
<1>7. (\A u \in Uploader : ThreadIsSound(u))'
  <2> SUFFICES ASSUME NEW u \in Uploader PROVE ThreadIsSound(u)'
    OBVIOUS
  <2>1. CASE u = t
    BY <1>1, <1>2, <1>3, <2>1 DEF ThreadIsSound, ReleaseTypeOK, Stored, NoRow
  <2>2. CASE u # t
    <3>1. request'[u] = request[u] /\ ThreadIsSound(u)
      BY <1>1, <1>3, <2>2 DEF ReleaseTypeOK
    <3>2. request[u].at \in {"COPIED", "UNIQUE", "DELETED"} => request[u].release \in Release
      BY <1>1, RequestFields DEF NoRequest
    <3> QED BY <1>3, <1>5, <3>1, <3>2 DEF ThreadIsSound, Stored
  <2> QED BY <2>1, <2>2
<1>8. UploadsAreApart'
  BY <1>1, <1>2, <1>3 DEF UploadsAreApart, Uploading, ReleaseTypeOK, r
<1> QED BY <1>4, <1>6, <1>7, <1>8 DEF ReleaseInv, RequestsAreSound, ThreadIsSound, UploadsAreApart

LEMMA CleansKeeps ==
    ASSUME ReleaseInv, NEW t \in Uploader, UploadCleans(t)
    PROVE  ReleaseInv'
<1>1. ReleaseTypeOK /\ (\A u \in Uploader : ThreadIsSound(u))
  BY SoundParts DEF ReleaseInv
<1>2. request[t].release \in Release /\ request[t].at = "DELETED" /\ ~Stored(request[t].release)
  BY <1>1, RequestFields DEF UploadCleans, ThreadIsSound, NoRequest
<1> QED BY <1>2, DirectoryGoes DEF UploadCleans

---------------------------------------------------------------------------
(* update_release_status.                                                  *)

\* A permitted status has a row behind it, and an approval where it needs one.
LEMMA WrittenSound ==
    ASSUME ReleaseTypeOK, NEW t \in Uploader, ThreadIsSound(t), request[t].at = "STATUS"
    PROVE  /\ Written(request[t]) \in ReleaseRow
           /\ Written(request[t]).status \in ReleaseStates
           /\ Written(request[t]).status \in {"APPROVED", "ACTIVE", "RETIRED"} =>
                Written(request[t]).approved
<1>1. request[t].seen \in ReleaseRow /\ request[t].to \in ReleaseStates
  BY RequestFields DEF NoRequest
<1>2. request[t].to \in {"ACTIVE", "RETIRED"} =>
        request[t].seen.status \in {"APPROVED", "ACTIVE", "RETIRED"}
  BY <1>1 DEF ThreadIsSound, ReleaseTransitions, ReleaseStates
<1>3. Written(request[t]).status = request[t].to
      /\ Written(request[t]).approved = (request[t].seen.approved \/ request[t].to = "APPROVED")
  BY DEF Written
<1> QED BY <1>1, <1>2, <1>3 DEF Written, ReleaseRow, ThreadIsSound

LEMMA ReadsKeeps ==
    ASSUME ReleaseInv, NEW t \in Uploader, NEW r \in Release, NEW to \in ReleaseStates,
           StatusReads(t, r, to)
    PROVE  ReleaseInv'
<1> USE DEF StatusReads
<1>1. /\ ReleaseTypeOK /\ ActiveWasApproved /\ RowHasFile
      /\ (\A u \in Uploader : ThreadIsSound(u)) /\ UploadsAreApart
  BY SoundParts DEF ReleaseInv
<1>2. ReleaseTypeOK'
  BY <1>1 DEF ReleaseTypeOK, Request, Steps
<1>3. OneActivePerLine' /\ ActiveWasApproved' /\ RowHasFile'
  BY <1>1, TableKept DEF RowHasFile
<1>4. (\A u \in Uploader : ThreadIsSound(u))'
  <2>1. releases[r] \in ReleaseRow /\ releases[r].status \in ReleaseStates
    BY <1>1 DEF ReleaseTypeOK, ReleaseRow, Stored
  <2> QED BY <1>1, <2>1 DEF ThreadIsSound, Stored, ReleaseTypeOK, ActiveWasApproved
<1>5. UploadsAreApart'
  BY <1>1 DEF UploadsAreApart, Uploading, ReleaseTypeOK
<1> QED BY <1>2, <1>3, <1>4, <1>5 DEF ReleaseInv, RequestsAreSound, ThreadIsSound, UploadsAreApart

LEMMA WritesKeeps ==
    ASSUME ReleaseInv, NEW t \in Uploader, StatusWrites(t)
    PROVE  ReleaseInv'
<1> DEFINE req == request[t]
<1>1. /\ ReleaseTypeOK /\ OneActivePerLine /\ ActiveWasApproved /\ RowHasFile
      /\ (\A u \in Uploader : ThreadIsSound(u)) /\ UploadsAreApart
  BY SoundParts DEF ReleaseInv
<1>2. req.release \in Release /\ req.to \in ReleaseStates /\ req.at = "STATUS"
  BY <1>1, RequestFields DEF NoRequest, StatusWrites
<1>3. /\ Written(req) \in ReleaseRow
      /\ Written(req).status \in ReleaseStates /\ Written(req).status = req.to
      /\ Written(req).status \in {"APPROVED", "ACTIVE", "RETIRED"} => Written(req).approved
  BY <1>1, <1>2, WrittenSound DEF Written
<1>4. /\ releases' = [s \in Release |->
            IF Retired(req.release, req.to, s) THEN [releases[s] EXCEPT !.status = "RETIRED"]
            ELSE IF s = req.release /\ Stored(s) THEN Written(req)
            ELSE releases[s]]
      /\ request' = [request EXCEPT ![t] = NoRequest]
      /\ UNCHANGED files
  BY DEF StatusWrites, Done
<1> HIDE DEF req
<1>5. ASSUME NEW s \in Release
      PROVE  /\ releases[s] \in ReleaseRow /\ releases'[s] \in ReleaseRow
             /\ (releases[s].status = "ABSENT") <=> (releases'[s].status = "ABSENT")
             /\ releases'[s].status \in {"APPROVED", "ACTIVE", "RETIRED"} => releases'[s].approved
  <2>1. releases[s] \in ReleaseRow /\ (releases[s].status \in {"APPROVED", "ACTIVE", "RETIRED"} => releases[s].approved)
    BY <1>1 DEF ReleaseTypeOK, ActiveWasApproved
  <2>2. CASE Retired(req.release, req.to, s)
    <3>1. releases'[s] = [releases[s] EXCEPT !.status = "RETIRED"] /\ releases[s].status = "ACTIVE"
      BY <1>4, <2>2 DEF Retired
    <3>2. releases'[s].status = "RETIRED" /\ releases'[s].approved = releases[s].approved
          /\ releases'[s] \in ReleaseRow
      BY <2>1, <3>1 DEF ReleaseRow, ReleaseStates
    <3> QED BY <2>1, <3>1, <3>2
  <2>3. CASE ~Retired(req.release, req.to, s) /\ s = req.release /\ Stored(s)
    BY <1>3, <1>4, <2>1, <2>3 DEF Stored, ReleaseStates
  <2>4. CASE ~Retired(req.release, req.to, s) /\ ~(s = req.release /\ Stored(s))
    BY <1>4, <2>1, <2>4
  <2> QED BY <2>2, <2>3, <2>4
<1>6. ReleaseTypeOK'
  BY <1>1, <1>4, <1>5 DEF ReleaseTypeOK
<1>7. ActiveWasApproved' /\ RowHasFile'
  BY <1>1, <1>4, <1>5 DEF ActiveWasApproved, RowHasFile, Stored
<1>8. OneActivePerLine'
  <2> SUFFICES ASSUME NEW r \in Release, NEW s \in Release, LineOf[r] = LineOf[s],
                      releases'[r].status = "ACTIVE", releases'[s].status = "ACTIVE"
               PROVE  r = s
    BY DEF OneActivePerLine
  <2>1. ASSUME NEW q \in Release, releases'[q].status = "ACTIVE"
        PROVE  /\ ~Retired(req.release, req.to, q)
               /\ (q = req.release /\ req.to = "ACTIVE") \/ releases[q].status = "ACTIVE"
    <3>1. CASE Retired(req.release, req.to, q)
      BY <1>1, <1>4, <2>1, <3>1 DEF ReleaseTypeOK, ReleaseRow
    <3>2. CASE ~Retired(req.release, req.to, q)
      BY <1>3, <1>4, <2>1, <3>2
    <3> QED BY <3>1, <3>2
  <2> QED BY <1>1, <2>1 DEF OneActivePerLine, Retired
<1>9. (\A u \in Uploader : ThreadIsSound(u))'
  <2> SUFFICES ASSUME NEW u \in Uploader PROVE ThreadIsSound(u)'
    OBVIOUS
  <2>1. CASE u = t
    BY <1>1, <1>4, <2>1 DEF ThreadIsSound, ReleaseTypeOK, NoRequest
  <2>2. CASE u # t
    <3>1. request'[u] = request[u] /\ ThreadIsSound(u)
      BY <1>1, <1>4, <2>2 DEF ReleaseTypeOK
    <3>2. request[u].at \in {"COPIED", "UNIQUE", "DELETED"} => request[u].release \in Release
      BY <1>1, RequestFields DEF NoRequest
    <3> QED BY <1>4, <1>5, <3>1, <3>2 DEF ThreadIsSound, Stored
  <2> QED BY <2>1, <2>2
<1>10. UploadsAreApart'
  BY <1>1, <1>4 DEF UploadsAreApart, Uploading, ReleaseTypeOK, NoRequest
<1> QED BY <1>6, <1>7, <1>8, <1>9, <1>10 DEF ReleaseInv, RequestsAreSound, ThreadIsSound, UploadsAreApart

---------------------------------------------------------------------------
(* Every step.                                                             *)

LEMMA CrashKeeps == ReleaseInv /\ ReleaseCrash => ReleaseInv'
<1> SUFFICES ASSUME ReleaseInv, ReleaseCrash PROVE ReleaseInv'
  OBVIOUS
<1>1. ReleaseTypeOK /\ RowHasFile
  BY DEF ReleaseInv
<1>2. OneActivePerLine' /\ ActiveWasApproved' /\ RowHasFile'
  BY <1>1, TableKept DEF ReleaseCrash, RowHasFile
<1>3. ReleaseTypeOK' /\ RequestsAreSound'
  BY <1>1 DEF ReleaseCrash, ReleaseTypeOK, RequestsAreSound, Uploading, NoRequest
<1> QED BY <1>2, <1>3 DEF ReleaseInv

LEMMA ReleaseStepKeeps == ReleaseInv /\ [ReleaseNext]_releaseVars => ReleaseInv'
<1> SUFFICES ASSUME ReleaseInv, [ReleaseNext]_releaseVars PROVE ReleaseInv'
  OBVIOUS
<1>1. ASSUME NEW t \in Uploader, UploadNext(t) PROVE ReleaseInv'
  BY <1>1, CopiesKeeps, ChecksKeeps, InsertsKeeps, InsertFailsKeeps, CompletesKeeps, UndoesKeeps,
     CleansKeeps DEF UploadNext
<1>2. ASSUME NEW t \in Uploader, StatusNext(t) PROVE ReleaseInv'
  BY <1>2, ReadsKeeps, WritesKeeps DEF StatusNext
<1>3. CASE UNCHANGED releaseVars
  BY <1>3 DEF releaseVars, ReleaseInv, ReleaseTypeOK, OneActivePerLine, ActiveWasApproved, RowHasFile,
              RequestsAreSound, Uploading, Stored
<1> QED BY <1>1, <1>2, <1>3, CrashKeeps DEF ReleaseNext

\* The inductive invariant: however requests overlap and wherever an upload or the
\* process ends, the rows, the directories and what threads have read agree.
THEOREM ReleaseInvariance == ReleaseSpec => []ReleaseInv
BY ReleaseInitKeeps, ReleaseStepKeeps, PTL DEF ReleaseSpec

\* A line of hardware and channel has at most one ACTIVE release (update_release_status).
THEOREM OneActive == ReleaseSpec => []OneActivePerLine
<1>1. ReleaseInv => OneActivePerLine
  BY DEF ReleaseInv
<1> QED BY <1>1, ReleaseInvariance, PTL

\* An active release has its approval on record (update_release_status).
THEOREM ActiveApproved == ReleaseSpec => []ActiveWasApproved
<1>1. ReleaseInv => ActiveWasApproved
  BY DEF ReleaseInv
<1> QED BY <1>1, ReleaseInvariance, PTL

\* A release in the table has its binary on disk (create_release).
THEOREM RowsHaveFiles == ReleaseSpec => []RowHasFile
<1>1. ReleaseInv => RowHasFile
  BY DEF ReleaseInv
<1> QED BY <1>1, ReleaseInvariance, PTL

---------------------------------------------------------------------------
(* The offer.                                                              *)

LEMMA OfferStarts == ReleaseInit => Offered!Init
BY DEF ReleaseInit, ActiveOnes, NoRow, Offered!Init

\* The end of an update of a release's status puts it on offer in the place of the
\* one of its line, takes it from offer, or, when its row is gone by now, takes the
\* other one of its line from offer.
LEMMA WriteOffers ==
    ASSUME ReleaseInv, NEW t \in Uploader, StatusWrites(t)
    PROVE  [Offered!Next]_ActiveOnes
<1> DEFINE req == request[t]
           r == req.release
<1>1. /\ r \in Release
      /\ \A s \in Release : releases'[s] =
           IF Retired(r, req.to, s) THEN [releases[s] EXCEPT !.status = "RETIRED"]
           ELSE IF s = r /\ Stored(s) THEN Written(req)
           ELSE releases[s]
  BY RequestFields DEF ReleaseInv, StatusWrites, NoRequest
<1>2. \A s \in Release : releases[s] \in ReleaseRow
  BY DEF ReleaseInv, ReleaseTypeOK
<1>3. \A s \in Release \ {r} :
        releases'[s].status = IF Retired(r, req.to, s) THEN "RETIRED" ELSE releases[s].status
  BY <1>1, <1>2 DEF ReleaseRow
<1>4. releases'[r].status = IF Stored(r) THEN req.to ELSE "ABSENT"
  <2>1. ~Retired(r, req.to, r)
    BY DEF Retired
  <2>2. releases'[r] = IF Stored(r) THEN Written(req) ELSE releases[r]
    BY <1>1, <2>1
  <2>3. Written(req).status = req.to
    BY DEF Written
  <2> QED BY <2>2, <2>3 DEF Stored
<1>5. CASE req.to # "ACTIVE"
  <2>1. ActiveOnes' = ActiveOnes \ {r}
    BY <1>1, <1>3, <1>4, <1>5 DEF ActiveOnes, Retired
  <2> QED BY <1>1, <2>1 DEF Offered!Next, Offered!Withdraw
<1>6. CASE req.to = "ACTIVE" /\ Stored(r)
  <2>1. ActiveOnes' = {s \in ActiveOnes : LineOf[s] # LineOf[r]} \cup {r}
    BY <1>1, <1>3, <1>4, <1>6 DEF ActiveOnes, Retired
  <2> QED BY <1>1, <2>1 DEF Offered!Next, Offered!Activate
<1>7. CASE req.to = "ACTIVE" /\ ~Stored(r)
  <2>1. ActiveOnes' = {s \in ActiveOnes : LineOf[s] # LineOf[r]}
    BY <1>1, <1>3, <1>4, <1>7 DEF ActiveOnes, Retired, Stored
  <2>2. CASE \E s \in ActiveOnes : LineOf[s] = LineOf[r]
    <3> PICK s \in ActiveOnes : LineOf[s] = LineOf[r]
      BY <2>2
    <3>1. s \in Release /\ ActiveOnes' = ActiveOnes \ {s}
      BY <2>1 DEF ActiveOnes, ReleaseInv, OneActivePerLine
    <3> QED BY <3>1 DEF Offered!Next, Offered!Withdraw
  <2>3. CASE ~\E s \in ActiveOnes : LineOf[s] = LineOf[r]
    BY <2>1, <2>3
  <2> QED BY <2>2, <2>3
<1> QED BY <1>5, <1>6, <1>7

LEMMA OfferStep == ReleaseInv /\ [ReleaseNext]_releaseVars => [Offered!Next]_ActiveOnes
<1> SUFFICES ASSUME ReleaseInv, [ReleaseNext]_releaseVars PROVE [Offered!Next]_ActiveOnes
  OBVIOUS
<1>1. CASE UNCHANGED releases
  BY <1>1 DEF ActiveOnes
<1>2. CASE \E t \in Uploader : UploadInserts(t)
  <2> PICK t \in Uploader : UploadInserts(t)
    BY <1>2
  <2> DEFINE r == request[t].release
  <2>1. ~Stored(r) /\ r \in Release
    BY RequestFields DEF UploadInserts, ReleaseInv, RequestsAreSound, NoRequest
  <2>2. releases' = [releases EXCEPT ![r] = [status |-> "DRAFT", approved |-> FALSE]]
    BY DEF UploadInserts
  <2>3. ActiveOnes' = ActiveOnes
    BY <2>1, <2>2 DEF ActiveOnes, Stored, ReleaseInv, ReleaseTypeOK
  <2> QED BY <2>3
<1>3. CASE \E t \in Uploader : UploadUndoes(t)
  <2> PICK t \in Uploader : UploadUndoes(t)
    BY <1>3
  <2> DEFINE r == request[t].release
  <2>1. r \in Release /\ releases' = [releases EXCEPT ![r] = NoRow]
    BY RequestFields DEF UploadUndoes, ReleaseInv, NoRequest
  <2>2. ActiveOnes' = ActiveOnes \ {r}
    BY <2>1 DEF ActiveOnes, NoRow, ReleaseInv, ReleaseTypeOK
  <2> QED BY <2>1, <2>2 DEF Offered!Next, Offered!Withdraw
<1>4. CASE \E t \in Uploader : StatusWrites(t)
  BY <1>4, WriteOffers
<1> QED
  BY <1>1, <1>2, <1>3, <1>4
  DEF ReleaseNext, releaseVars, UploadNext, StatusNext, UploadCopies, UploadChecks, UploadInsertFails,
      UploadCompletes, UploadCleans, StatusReads, ReleaseCrash

\* The catalogue implements the offer that OtaJobs assumes (update_release_status,
\* create_release).
THEOREM OfferIsKept == ReleaseSpec => CatalogueKept
BY OfferStarts, OfferStep, ReleaseInvariance, PTL DEF ReleaseSpec, CatalogueKept, Offered!Spec

=============================================================================
