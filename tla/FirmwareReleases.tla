-------------------------- MODULE FirmwareReleases --------------------------
(***************************************************************************)
(* The catalogue of firmware releases (firmware_manager, the routes under   *)
(* /api/firmware/releases): a table row and a directory with the binary per *)
(* release.  Requests run in threads, each reads with one connection and    *)
(* writes with the next; nothing is locked in between, and the process may  *)
(* end between any two of their steps.                                      *)
(***************************************************************************)
EXTENDS Firmware

CONSTANT Uploader   \* threads that serve a request of the catalogue

VARIABLES
    releases,    \* table firmware_releases
    files,       \* releases whose directory holds firmware.bin
    request      \* what each thread has read and will do next

releaseVars == <<releases, files, request>>

\* `approved`: approved_at is set.  ABSENT: there is no row.
ReleaseRow == [status : ReleaseStates \cup {"ABSENT"}, approved : BOOLEAN]
NoRow == [status |-> "ABSENT", approved |-> FALSE]

Steps == {"COPIED", "UNIQUE", "INSERTED", "DELETED", "STATUS"}
Request == [at : Steps, release : Release, seen : ReleaseRow, to : ReleaseStates]
NoRequest == [at |-> "NONE"]

ReleaseTypeOK ==
    /\ releases \in [Release -> ReleaseRow]
    /\ files \subseteq Release
    /\ request \in [Uploader -> Request \cup {NoRequest}]

ReleaseInit ==
    /\ releases = [r \in Release |-> NoRow]
    /\ files = {}
    /\ request = [t \in Uploader |-> NoRequest]

Stored(r) == releases[r].status # "ABSENT"

-----------------------------------------------------------------------------
(* create_release.                                                         *)

\* Where a thread is in the upload of a release.
Uploading(t, r) ==
    request[t].at \in {"COPIED", "UNIQUE", "INSERTED", "DELETED"} /\ request[t].release = r

UploadStep(t, r, step) ==
    request' = [request EXCEPT ![t] = [at |-> step, release |-> r, seen |-> NoRow, to |-> "DRAFT"]]

Done(t) == request' = [request EXCEPT ![t] = NoRequest]

\* The metadata and the file are valid; the binary is copied into a new directory.
UploadCopies(t, r) ==
    /\ request[t] = NoRequest
    /\ ~Stored(r) /\ r \notin files
    /\ \A u \in Uploader : ~Uploading(u, r)
    /\ files' = files \cup {r}
    /\ UploadStep(t, r, "COPIED")
    /\ UNCHANGED releases

Duplicate(r) ==
    \E s \in Release : s # r /\ Stored(s) /\ LineOf[s] = LineOf[r] /\ VersionOf[s] = VersionOf[r]

UploadChecks(t) ==
    /\ request[t].at = "COPIED"
    /\ LET r == request[t].release IN
         \/ ~Duplicate(r) /\ UploadStep(t, r, "UNIQUE") /\ UNCHANGED files
         \/ Duplicate(r) /\ Done(t) /\ files' = files \ {r}
    /\ UNCHANGED releases

UploadInserts(t) ==
    /\ request[t].at = "UNIQUE"
    /\ LET r == request[t].release IN
         /\ releases' = [releases EXCEPT ![r] = [status |-> "DRAFT", approved |-> FALSE]]
         /\ UploadStep(t, r, "INSERTED")
    /\ UNCHANGED files

\* The INSERT or its commit raises: rollback and rmtree.
UploadInsertFails(t) ==
    /\ request[t].at = "UNIQUE"
    /\ files' = files \ {request[t].release}
    /\ Done(t)
    /\ UNCHANGED releases

UploadCompletes(t) ==
    /\ request[t].at = "INSERTED"
    /\ Done(t)
    /\ UNCHANGED <<releases, files>>

\* Mistake: the directory is removed before the row.
UploadUndoesFile(t) ==
    /\ request[t].at = "INSERTED"
    /\ files' = files \ {request[t].release}
    /\ UploadStep(t, request[t].release, "DELETED")
    /\ UNCHANGED releases

\* The manifest cannot be written: the row goes first, then the directory.
UploadUndoes(t) ==
    /\ request[t].at = "INSERTED"
    /\ releases' = [releases EXCEPT ![request[t].release] = NoRow]
    /\ UploadStep(t, request[t].release, "DELETED")
    /\ UNCHANGED files

UploadCleans(t) ==
    /\ request[t].at = "DELETED"
    /\ files' = files \ {request[t].release}
    /\ Done(t)
    /\ UNCHANGED releases

-----------------------------------------------------------------------------
(* update_release_status.                                                  *)

\* The row is read and the transition is checked against it.
StatusReads(t, r, to) ==
    /\ request[t] = NoRequest
    /\ Stored(r)
    /\ to = releases[r].status \/ to \in ReleaseTransitions[releases[r].status]
    /\ request' = [request EXCEPT ![t] =
         [at |-> "STATUS", release |-> r, seen |-> releases[r], to |-> to]]
    /\ UNCHANGED <<releases, files>>

\* Mistake: the time of the approval is taken from the row that was read.
WrittenUnstamped(req) == [status |-> req.to, approved |-> req.seen.approved]

\* The row that the UPDATE leaves: it overwrites whatever another request has
\* written since the row was read.
Written(req) == [status |-> req.to, approved |-> req.seen.approved \/ req.to = "APPROVED"]

\* Mistake: only a release of the same version is replaced.
RetiredVersion(r, to, s) ==
    to = "ACTIVE" /\ s # r /\ VersionOf[s] = VersionOf[r] /\ releases[s].status = "ACTIVE"

\* The active release that a newly active one replaces.
Retired(r, to, s) ==
    to = "ACTIVE" /\ s # r /\ LineOf[s] = LineOf[r] /\ releases[s].status = "ACTIVE"

\* One transaction.  A row that was deleted in the meantime is not updated.
StatusWrites(t) ==
    /\ request[t].at = "STATUS"
    /\ LET req == request[t] IN
       releases' = [s \in Release |->
         IF Retired(req.release, req.to, s) THEN [releases[s] EXCEPT !.status = "RETIRED"]
         ELSE IF s = req.release /\ Stored(s) THEN Written(req)
         ELSE releases[s]]
    /\ Done(t)
    /\ UNCHANGED files

\* The process ends and is started again.
ReleaseCrash ==
    /\ request' = [t \in Uploader |-> NoRequest]
    /\ UNCHANGED <<releases, files>>

UploadNext(t) ==
    \/ \E r \in Release : UploadCopies(t, r)
    \/ UploadChecks(t)
    \/ UploadInserts(t)
    \/ UploadInsertFails(t)
    \/ UploadCompletes(t)
    \/ UploadUndoes(t)
    \/ UploadCleans(t)

StatusNext(t) ==
    \/ \E r \in Release, to \in ReleaseStates : StatusReads(t, r, to)
    \/ StatusWrites(t)

ReleaseNext ==
    \/ \E t \in Uploader : UploadNext(t) \/ StatusNext(t)
    \/ ReleaseCrash

ReleaseSpec == ReleaseInit /\ [][ReleaseNext]_releaseVars

-----------------------------------------------------------------------------
(* Properties.                                                             *)

\* However requests overlap, a line of hardware and channel has at most one
\* ACTIVE release: the one that replaces another retires it in the same
\* transaction (update_release_status).
OneActivePerLine ==
    \A r, s \in Release :
        releases[r].status = "ACTIVE" /\ releases[s].status = "ACTIVE" /\ LineOf[r] = LineOf[s]
        => r = s

\* A release is offered to devices only after an approval that is on record:
\* a request that works on an old reading can undo the approval, but it cannot
\* leave an active release without one.
ActiveWasApproved ==
    \A r \in Release : releases[r].status \in {"APPROVED", "ACTIVE", "RETIRED"} => releases[r].approved

\* A release in the table has its binary on disk, wherever an upload fails or
\* the process ends; the download route never answers for a row without a file
\* (create_release, firmware_path_for_release).
RowHasFile == \A r \in Release : Stored(r) => r \in files

\* What the catalogue promises to those who only look at its offer (OtaJobs): it
\* changes one line at a time, a new release taking the place of the line's old
\* one in the same step, whatever requests overlap, fail or are cut off.
ActiveOnes == {r \in Release : releases[r].status = "ACTIVE"}
Offered == INSTANCE ActiveReleases WITH active <- ActiveOnes
CatalogueKept == Offered!Spec

\* What the threads know, which makes the above inductive.
RequestsAreSound ==
    /\ \A t \in Uploader :
         /\ request[t].at \in {"COPIED", "UNIQUE", "DELETED"} => ~Stored(request[t].release)
         /\ request[t].at \in {"COPIED", "UNIQUE", "INSERTED"} => request[t].release \in files
         /\ request[t].at = "STATUS" =>
              /\ request[t].to = request[t].seen.status
                   \/ request[t].to \in ReleaseTransitions[request[t].seen.status]
              /\ request[t].seen.status \in ReleaseStates
              /\ request[t].seen.status \in {"APPROVED", "ACTIVE", "RETIRED"} => request[t].seen.approved
    /\ \A t, u \in Uploader, r \in Release : Uploading(t, r) /\ Uploading(u, r) => t = u

\* The inductive invariant of the proofs.
ReleaseInv ==
    ReleaseTypeOK /\ OneActivePerLine /\ ActiveWasApproved /\ RowHasFile /\ RequestsAreSound

=============================================================================
