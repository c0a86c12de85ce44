------------------------------ MODULE Firmware ------------------------------
(***************************************************************************)
(* What the catalogue of releases and the update jobs have in common.       *)
(***************************************************************************)
EXTENDS Integers

CONSTANTS
    Release,     \* release_ids, one per upload
    Line,        \* hardware family, model, revision and channel
    LineOf,
    VersionOf    \* rank of a release by build and version (compare_versions)

ASSUME ReleaseAssumption ==
    LineOf \in [Release -> Line] /\ VersionOf \in [Release -> Nat]

\* VALID_TRANSITIONS.
ReleaseStates == {"DRAFT", "TESTING", "APPROVED", "ACTIVE", "RETIRED", "REVOKED"}
ReleaseTransitions ==
    [DRAFT |-> {"TESTING", "REVOKED"}, TESTING |-> {"APPROVED", "DRAFT", "REVOKED"},
     APPROVED |-> {"ACTIVE", "RETIRED", "REVOKED"}, ACTIVE |-> {"RETIRED", "REVOKED"},
     RETIRED |-> {"REVOKED"}, REVOKED |-> {}]

=============================================================================
