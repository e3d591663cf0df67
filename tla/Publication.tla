----------------------------- MODULE Publication -----------------------------
(***************************************************************************)
(* How a verified capability becomes a published and installed release:    *)
(* reviews of capabilities, and the three owner requests of                *)
(* apps/control-plane/src/releases.ts, each a chain of awaits that reads   *)
(* the database, asks the release verifier, writes the artifact bucket and *)
(* writes the database again.  Every repository operation is one           *)
(* transaction of packages/database/src/postgres.ts.                       *)
(*                                                                         *)
(* A candidate is content addressed, so it is the set of plans compiled    *)
(* into it; the digest of a run's capabilities is the function from its    *)
(* capabilities to their rows.  A request whose guard fails ends, and so   *)
(* may any request at any await: its caller went away, a deadline passed   *)
(* or the process died.  What it wrote before stays.                       *)
(***************************************************************************)
EXTENDS VerifierPromise, Sequences, FiniteSets

CONSTANTS
    Runs,            \* succeeded analysis runs of one project
    Caps,            \* their capabilities
    RunOf,           \* the run a capability belongs to
    PlanOf,          \* its plan, what planDigest and the compiled code depend on
    TierOf,          \* its risk tier
    Keys,            \* idempotency keys, each with the owner who chose it
    MaxReviews,      \* bound: reviews of capabilities
    ReadBudget,      \* PUBLIC_READ_BUDGET
    None

ASSUME PublicationAssumption ==
    /\ RunOf \in [Caps -> Runs]
    /\ TierOf \in [Caps -> {"R0", "R1", "R2"}]
    /\ MaxReviews \in Nat
    /\ ReadBudget \in Nat \ {0}
    /\ MaxDeliveries \in Nat \ {0}
    /\ None \notin [run : Runs, verification : Nat]

VARIABLES
    capability,    \* public.capabilities
    review,        \* public.capability_reviews
    evidence,      \* runs whose analysis_evidence has not expired
    verification,  \* public.verification_runs, by revision
    release,       \* public.releases, by created_at
    installation,  \* public.release_installations, by created_at
    keyed,         \* private.idempotency_keys of operation release, while they last
    bucket,        \* objects of the public release bucket
    call           \* the requests in progress

databaseVars ==
    <<capability, review, evidence, verification, release, installation, keyed>>
Calls == Requests  \* a request of an owner asks the verifier for one attestation
vars == <<databaseVars, bucket, call, promiseVars>>

-----------------------------------------------------------------------------
Roles == {"owner", "editor"}
CapsOf(r) == {c \in Caps : RunOf[c] = r}
CapabilityRow ==
    [status : {"proposed", "reviewed", "blocked"}, bound : BOOLEAN, version : 1 .. MaxReviews + 1]
Digests == UNION {[CapsOf(r) -> CapabilityRow] : r \in Runs}
Contents == SUBSET {PlanOf[c] : c \in Caps}
ReviewRow == [cap : Caps, action : {"approve", "block"}, version : 1 .. MaxReviews, role : Roles \cup {None}]
VerificationRow ==
    [run : Runs, digest : Digests, content : Contents, eligible : BOOLEAN, request : Requests]
ReleaseRow == [run : Runs, digest : Digests, content : Contents, verification : Nat]
InstallationRow ==
    [release : Nat, content : Contents, key : Keys, selfHosted : BOOLEAN,
     status : {"verified", "pending_self_host"}, request : Requests]

Steps == {"idle", "latest", "ask", "await", "save", "upload", "read", "publish",
          "answer", "ended"}
CallRow ==
    [at : Steps, kind : {"publish", "verify", "install"}, run : Runs \cup {None},
     key : Keys \cup {None}, digest : Digests \cup {<<>>}, verification : Nat, release : Nat,
     passed : BOOLEAN, reads : 0 .. 2, budget : 0 .. ReadBudget,
     selfHosted : BOOLEAN, answered : Nat]

TypeOK ==
    /\ asked \in SUBSET Requests
    /\ evaluated \in [Requests -> 0 .. MaxDeliveries]
    /\ attested \in SUBSET Replies
    /\ broken \in BOOLEAN
    /\ capability \in [Caps -> CapabilityRow]
    /\ review \in SUBSET ReviewRow
    /\ evidence \in SUBSET Runs
    /\ verification \in Seq(VerificationRow)
    /\ release \in Seq(ReleaseRow)
    /\ installation \in Seq(InstallationRow)
    /\ keyed \in [Keys -> [input : [run : Runs, verification : Nat] \cup {None}, release : Nat]]
    /\ bucket \in SUBSET Contents
    /\ call \in [Calls -> CallRow]

\* capabilityStateDigest of a run, and the candidate deriveVerification compiles.
DigestOf(r) == [c \in CapsOf(r) |-> capability[c]]
Selected(digest) == {c \in DOMAIN digest : digest[c].status # "blocked"}
Candidate(digest) == {PlanOf[c] : c \in Selected(digest)}
SourceCandidate(r) == {PlanOf[c] : c \in CapsOf(r)}

PendingReview(digest) ==
    \E c \in DOMAIN digest : TierOf[c] \in {"R1", "R2"} /\ digest[c].status = "proposed"

\* The review failures publishRelease reports.
UnreviewedCaps(digest) ==
    {c \in Selected(digest) :
        \/ TierOf[c] \in {"R1", "R2"} /\ digest[c].status # "reviewed"
        \/ ~digest[c].bound}

ReleasesOf(r) == {i \in DOMAIN release : release[i].run = r}
RevisionsOf(r, digest) ==
    {i \in DOMAIN verification : verification[i].run = r /\ verification[i].digest = digest}
LatestRevision(r, digest, i) ==
    /\ i \in RevisionsOf(r, digest)
    /\ \A j \in RevisionsOf(r, digest) : j <= i

\* The local variables of a request are gone before it and after it: what is
\* left of an ended one is what its caller was told.
Request(at, kind, r, k, digest) ==
    [at |-> at, kind |-> kind, run |-> r, key |-> k, digest |-> digest,
     verification |-> 0, release |-> 0, passed |-> FALSE,
     reads |-> 0, budget |-> ReadBudget, selfHosted |-> FALSE, answered |-> 0]
Idle == Request("idle", "publish", None, None, <<>>)
Answered(c, i) ==
    [call EXCEPT ![c] = [Request("ended", @.kind, @.run, @.key, <<>>) EXCEPT !.answered = i]]
Ended(c) == Answered(c, 0)
Goto(c, step) == [call EXCEPT ![c].at = step]
Unused == [input |-> None, release |-> 0]

Init ==
    /\ PromiseInit
    /\ capability = [c \in Caps |->
           [status |-> "proposed", bound |-> TierOf[c] = "R0", version |-> 1]]
    /\ review = {}
    /\ evidence = Runs
    /\ verification = <<>> /\ release = <<>> /\ installation = <<>>
    /\ keyed = [k \in Keys |-> Unused]
    /\ bucket = {}
    /\ call = [c \in Calls |-> Idle]

-----------------------------------------------------------------------------
ApproveAnyTier(c, role) == RunOf[c] \in evidence                            \* mutant
MayApprove(c, role) ==
    /\ TierOf[c] = "R2" => role = "owner"
    /\ RunOf[c] \in evidence

\* One review of one capability under the version its reviewer saw; a stale
\* version is refused.  Nothing asks what its status was, nor for a release.
Reviewed(c, action, role, status) ==
    /\ Cardinality(review) < MaxReviews
    /\ capability' = [capability EXCEPT ![c] =
           [status |-> status, bound |-> TRUE, version |-> @.version + 1]]
    /\ review' = review \cup {[cap |-> c, action |-> action,
                               version |-> capability[c].version, role |-> role]}
    /\ UNCHANGED <<evidence, verification, release, installation, keyed, bucket, call, promiseVars>>

ApproveCapability(c, role) == MayApprove(c, role) /\ Reviewed(c, "approve", role, "reviewed")

\* Any reviewer may block: whose block it is, nothing ever asks.
BlockCapability(c) == Reviewed(c, "block", None, "blocked")

EvidenceExpires(r) ==
    /\ evidence' = evidence \ {r}
    /\ r \in evidence
    /\ UNCHANGED <<capability, review, verification, release, installation, keyed,
                   bucket, call, promiseVars>>

\* A key lasts 24 hours.  The next use of it deletes it first, and so does the
\* retention: once it expired it is a key that was never used.
KeyExpires(k) ==
    /\ keyed[k].input # None
    /\ keyed' = [keyed EXCEPT ![k] = Unused]
    /\ UNCHANGED <<capability, review, evidence, verification, release, installation,
                   bucket, call, promiseVars>>

OnlyCall == UNCHANGED <<databaseVars, bucket, promiseVars>>

\* publishPersistedRelease up to the capabilities it lists; verifyPersistedRelease
\* does not ask for their review, and has no key.
StartRelease(c, kind, r, k) ==
    /\ call[c].at = "idle"
    /\ r \in evidence
    /\ kind = "publish" => ~PendingReview(DigestOf(r))
    /\ kind = "verify" <=> k = None
    /\ call' = [call EXCEPT ![c] = Request("latest", kind, r, k, DigestOf(r))]
    /\ OnlyCall

\* verifyInstalledRelease up to its question: the release it reads is immutable.
StartInstallation(c, i, k, selfHosted) ==
    /\ call[c].at = "idle"
    /\ call' = [call EXCEPT ![c] =
           [Request("ask", "install", release[i].run, k, <<>>) EXCEPT
               !.release = i, !.selfHosted = selfHosted]]
    /\ OnlyCall

\* getLatestPublishedRelease: the stored verification is reused when the
\* project's latest release is of this run and of the same candidate.
ReadLatest(c) ==
    LET row == call[c]
        latest == Len(release)
        wanted == IF row.kind = "publish" THEN Candidate(row.digest) ELSE SourceCandidate(row.run)
        reusable == /\ latest > 0
                    /\ release[latest].run = row.run
                    /\ release[latest].content = wanted
    IN  /\ row.at = "latest"
        /\ \/ /\ reusable
              /\ row.kind = "publish"
              /\ call' = [call EXCEPT ![c].at = "upload",
                                      ![c].verification = release[latest].verification]
           \/ /\ reusable
              /\ row.kind = "verify"
              /\ call' = Answered(c, release[latest].verification)
           \/ /\ ~reusable
              /\ Selected(row.digest) # {}
              /\ call' = Goto(c, "ask")
        /\ OnlyCall

\* liveRequest.  The identity is asked for first: an exchange that changes
\* nothing, and one of the places where the request may give up.
AskVerifier(c) ==
    /\ call[c].at = "ask"
    /\ Ask(c)
    /\ call' = Goto(c, "await")
    /\ UNCHANGED <<databaseVars, bucket>>

\* verifyLiveVerifierResponse: a reply to this request and to no other.
HearVerifier(c, reply) ==
    /\ call[c].at = "await"
    /\ reply.request = c
    /\ call' = [call EXCEPT ![c].at = "save", ![c].passed = reply.report = "passed"]
    /\ OnlyCall

MaySaveVerification(c) ==
    /\ call[c].at = "save"
    /\ DigestOf(call[c].run) = call[c].digest
    /\ call[c].run \in evidence

\* The run is published already: the stored verification answers for it, if the
\* candidate is the published one.
ReuseVerification(c) ==
    /\ MaySaveVerification(c)
    /\ \E i \in ReleasesOf(call[c].run) :
        /\ verification[release[i].verification].eligible
        /\ release[i].content = Candidate(call[c].digest)
        /\ call' = IF call[c].kind = "publish"
                   THEN [call EXCEPT ![c].at = "upload",
                                     ![c].verification = release[i].verification]
                   ELSE Answered(c, release[i].verification)
    /\ OnlyCall

\* A new revision; an ineligible one ends a publication.
InsertVerification(c) ==
    /\ MaySaveVerification(c)
    /\ ReleasesOf(call[c].run) = {}
    /\ verification' = Append(verification,
           [run |-> call[c].run, digest |-> call[c].digest,
            content |-> Candidate(call[c].digest), eligible |-> call[c].passed,
            request |-> c])
    /\ call' = IF call[c].kind = "publish" /\ call[c].passed
               THEN [call EXCEPT ![c].at = "upload", ![c].verification = Len(verification) + 1]
               ELSE IF call[c].kind = "publish" THEN Ended(c)
               ELSE Answered(c, Len(verification) + 1)
    /\ UNCHANGED <<capability, review, evidence, release, installation, keyed, bucket, promiseVars>>

SaveVerification(c) ==
    /\ call[c].at = "save"
    /\ call[c].kind # "install"
    /\ ReuseVerification(c) \/ InsertVerification(c)

\* The upload succeeds, finds the object there, or loses its response: in the
\* last case nobody knows whether the object exists.
UploadArtifact(c) ==
    /\ call[c].at = "upload"
    /\ \E stored \in BOOLEAN :
        bucket' = IF stored THEN bucket \cup {Candidate(call[c].digest)} ELSE bucket
    /\ call' = Goto(c, "read")
    /\ UNCHANGED <<databaseVars, promiseVars>>

PublishUnread(c) == /\ call[c].at = "read"                                  \* mutant
                    /\ call' = Goto(c, "publish")
                    /\ OnlyCall

ReadPastBudget(c) == /\ call[c].at = "read"                                 \* mutant
                     /\ call' = [call EXCEPT ![c].budget = @ - 1]
                     /\ OnlyCall

\* verifyPublicIdentity: the artifact and its download must both be read back
\* from public storage, out of one budget; a read may find nothing yet.
ReadArtifact(c) ==
    /\ call[c].at = "read"
    /\ call[c].budget > 0
    /\ \/ call' = [call EXCEPT ![c].budget = @ - 1]
       \/ /\ Candidate(call[c].digest) \in bucket
          /\ call' = [call EXCEPT ![c].budget = @ - 1, ![c].reads = @ + 1,
                                  ![c].at = IF call[c].reads = 1 THEN "publish" ELSE "read"]
    /\ OnlyCall

PublishStale(v) ==                                                          \* mutant
    verification[v].eligible /\ UnreviewedCaps(verification[v].digest) = {}
Publishable(v) ==
    LET row == verification[v]
    IN  /\ row.digest = DigestOf(row.run)
        /\ UnreviewedCaps(row.digest) = {}
        /\ LatestRevision(row.run, row.digest, v)
        /\ row.eligible
        /\ row.run \in evidence

PublishedNow(c, i) == [call EXCEPT ![c].at = "answer", ![c].release = i]
KeyInput(c) == [run |-> call[c].run, verification |-> call[c].verification]

\* A key that has not expired answers a repeated request; with another input it
\* is a conflict.
ReplayPublication(c) ==
    /\ call[c].at = "publish"
    /\ keyed[call[c].key].input = KeyInput(c)
    /\ call' = PublishedNow(c, keyed[call[c].key].release)
    /\ OnlyCall

PublishUnnamed(c) ==                                                        \* mutant
    LET v == verification[call[c].verification]
        existing == ReleasesOf(v.run)
        proposed == Len(release) + 1
        i == IF existing = {} THEN proposed ELSE CHOOSE j \in existing : TRUE
    IN  /\ call[c].at = "publish"
        /\ keyed[call[c].key].input = None
        /\ Publishable(call[c].verification)
        /\ existing # {} => release[i].verification = call[c].verification
        /\ release' = IF existing # {} THEN release
                      ELSE Append(release, [run |-> v.run, digest |-> v.digest, content |-> v.content,
                                            verification |-> call[c].verification])
        /\ keyed' = [keyed EXCEPT ![call[c].key] = [input |-> KeyInput(c), release |-> proposed]]
        /\ call' = PublishedNow(c, i)
        /\ UNCHANGED <<capability, review, evidence, verification, installation, bucket, promiseVars>>

\* The first use of a key, or the first since it expired: the run's release is
\* inserted, or the one it has answers this key as well, if it is this
\* publication's.
PublishRelease(c) ==
    LET v == verification[call[c].verification]
        existing == ReleasesOf(v.run)
        i == IF existing = {} THEN Len(release) + 1 ELSE CHOOSE j \in existing : TRUE
    IN  /\ call[c].at = "publish"
        /\ keyed[call[c].key].input = None
        /\ Publishable(call[c].verification)
        /\ existing # {} => release[i].verification = call[c].verification
        /\ release' = IF existing # {} THEN release
                      ELSE Append(release, [run |-> v.run, digest |-> v.digest, content |-> v.content,
                                            verification |-> call[c].verification])
        /\ keyed' = [keyed EXCEPT ![call[c].key] = [input |-> KeyInput(c), release |-> i]]
        /\ call' = PublishedNow(c, i)
        /\ UNCHANGED <<capability, review, evidence, verification, installation, bucket, promiseVars>>

\* assertPublishedReleaseConvergence, and the answer to the caller.
AnswerPublication(c) ==
    LET v == verification[call[c].verification]
        made == release[call[c].release]
    IN  /\ call[c].at = "answer"
        /\ made.run = call[c].run /\ made.digest = v.digest /\ made.content = v.content
        /\ call' = Answered(c, call[c].release)
        /\ OnlyCall

InstallationsKeyed(k) == {i \in DOMAIN installation : installation[i].key = k}

\* A page whose policy blocks the hosted script is left to be self-hosted.
SaveInstallation(c) ==
    LET row == call[c]
        same(i) == installation[i].release = row.release /\ installation[i].selfHosted = row.selfHosted
    IN  /\ row.at = "save"
        /\ row.kind = "install"
        /\ \/ /\ InstallationsKeyed(row.key) = {}
              /\ installation' = Append(installation,
                     [release |-> row.release, content |-> release[row.release].content,
                      key |-> row.key, selfHosted |-> row.selfHosted,
                      status |-> IF row.passed \/ row.selfHosted THEN "verified"
                                 ELSE "pending_self_host",
                      request |-> c])
              /\ call' = Answered(c, Len(installation) + 1)
           \/ \E i \in InstallationsKeyed(row.key) :
              /\ same(i)
              /\ call' = Answered(c, i)
              /\ UNCHANGED installation
        /\ UNCHANGED <<capability, review, evidence, verification, release, keyed, bucket, promiseVars>>

\* A refusal, an abort, a deadline or a crash ends the request where it waits.
GiveUp(c) ==
    /\ call[c].at \notin {"idle", "ended"}
    /\ call' = Ended(c)
    /\ OnlyCall

CallStep(c) ==
    \/ ReadLatest(c)
    \/ AskVerifier(c)
    \/ \E reply \in attested : HearVerifier(c, reply)
    \/ SaveVerification(c)
    \/ UploadArtifact(c)
    \/ ReadArtifact(c)
    \/ ReplayPublication(c)
    \/ PublishRelease(c)
    \/ AnswerPublication(c)
    \/ SaveInstallation(c)
    \/ GiveUp(c)

Next ==
    \/ \E c \in Caps, role \in Roles : ApproveCapability(c, role)
    \/ \E c \in Caps : BlockCapability(c)
    \/ \E r \in Runs : EvidenceExpires(r)
    \/ \E k \in Keys : KeyExpires(k)
    \/ \E c \in Calls, kind \in {"publish", "verify"}, r \in Runs, k \in Keys \cup {None} :
           StartRelease(c, kind, r, k)
    \/ \E c \in Calls, i \in DOMAIN release, k \in Keys, selfHosted \in BOOLEAN :
           StartInstallation(c, i, k, selfHosted)
    \/ \E c \in Calls : CallStep(c)
    \* Whether the verifier's disk is whole is nothing a caller can see.
    \/ Serve /\ UNCHANGED <<databaseVars, bucket, call, broken>>

Spec == Init /\ [][Next]_vars

-----------------------------------------------------------------------------
Approved(digest, c, roles) ==
    \E row \in review : /\ row.cap = c
                        /\ row.action = "approve"
                        /\ row.version = digest[c].version - 1
                        /\ row.role \in roles

\* Every published release was earned: its verification is of the same run,
\* capabilities and bytes and was eligible, and every capability compiled into
\* it that changes state was approved as it stood, by an owner when it is R2.
\* Reviews, verifications and other publications run beside each publication.
ReleasesAreEarned ==
    \A i \in DOMAIN release :
        LET made == release[i]
            v == verification[made.verification]
        IN  /\ v.eligible
            /\ v.run = made.run /\ v.digest = made.digest /\ v.content = made.content
            /\ made.content = Candidate(made.digest)
            /\ \A c \in Selected(made.digest) :
                /\ TierOf[c] = "R1" => Approved(made.digest, c, Roles)
                /\ TierOf[c] = "R2" => Approved(made.digest, c, {"owner"})

\* A run is published once, also by requests whose keys expired in between.  A
\* key that has not expired names the release of the very run and verification
\* it was used for, which is what a repeated request is answered with, and no
\* caller was ever answered with a release of another run.
KeyNamesOneRelease ==
    /\ \A i, j \in DOMAIN release : release[i].run = release[j].run => i = j
    /\ \A k \in Keys : keyed[k].input # None =>
          /\ keyed[k].release \in DOMAIN release
          /\ release[keyed[k].release].run = keyed[k].input.run
          /\ release[keyed[k].release].verification = keyed[k].input.verification
    /\ \A c \in Calls :
          call[c].at = "ended" /\ call[c].kind = "publish" /\ call[c].answered # 0 =>
              release[call[c].answered].run = call[c].run

\* The bytes of every published release are in the public bucket: no lost
\* upload response, aborted call or crash leaves a release nobody can load.
PublishedBytesAreServed ==
    \A i \in DOMAIN release : release[i].content \in bucket

\* What a reviewer has blocked is not published, however late the block came:
\* a publication that verified the capability before commits nothing after it.
BlockedIsNotPublished ==
    [][\A i \in DOMAIN release' \ DOMAIN release :
           \A c \in Selected(release'[i].digest) : capability[c].status # "blocked"]_vars

=============================================================================
