--------------------------- MODULE PublicationProofs ---------------------------
(***************************************************************************)
(* What TLAPS proves of Publication, for any number of runs, capabilities, *)
(* requests, keys and reviews.                                             *)
(*                                                                         *)
(* The invariant has a part for the tables (every approved row has its     *)
(* review, every verification the bytes of its capabilities, every release *)
(* its verification) and a part for each request in progress: what it      *)
(* has read before an await and relies on after it still holds, because    *)
(* the tables it read only grow (TablesGrow).                              *)
(***************************************************************************)
EXTENDS Publication, FiniteSetTheorems, TLAPS

LEMMA AppendFacts ==
    ASSUME NEW S, NEW s \in Seq(S), NEW e \in S
    PROVE  /\ Append(s, e) \in Seq(S)
           /\ DOMAIN s = 1 .. Len(s) /\ Len(s) \in Nat
           /\ DOMAIN Append(s, e) = DOMAIN s \cup {Len(s) + 1}
           /\ Len(s) + 1 \notin DOMAIN s
           /\ \A i \in DOMAIN s : Append(s, e)[i] = s[i]
           /\ Append(s, e)[Len(s) + 1] = e
  OBVIOUS

\* What the state digest of a run, and a candidate, are made of.
LEMMA DigestTyped ==
    ASSUME TypeOK, NEW r \in Runs
    PROVE  DigestOf(r) \in Digests
<1>1. DigestOf(r) \in [CapsOf(r) -> CapabilityRow]
  BY DEF TypeOK, DigestOf, CapsOf
<1> QED BY <1>1 DEF Digests

LEMMA CandidateTyped ==
    ASSUME NEW digest \in Digests \cup {<<>>}
    PROVE  Candidate(digest) \in Contents
<1>1. DOMAIN digest \subseteq Caps
  <2>1. ASSUME digest \in Digests PROVE DOMAIN digest \subseteq Caps
    <3>1. PICK r \in Runs : digest \in [CapsOf(r) -> CapabilityRow]
      BY <2>1 DEF Digests
    <3> QED BY <3>1 DEF CapsOf
  <2>2. ASSUME digest = <<>> PROVE DOMAIN digest = {}
    BY <2>2
  <2> QED BY <2>1, <2>2
<1> QED BY <1>1 DEF Candidate, Selected, Contents

-----------------------------------------------------------------------------
(* The invariant.                                                           *)

\* The reviews of a capability are those of its earlier versions, one each.
ReviewsCount ==
    /\ IsFiniteSet(review)
    /\ \A row \in review : row.version < capability[row.cap].version
    /\ \A c \in Caps : capability[c].version <= Cardinality(review) + 1

\* A capability stands approved only by a review of the version before.
ReviewedIsApproved ==
    \A c \in Caps : capability[c].status = "reviewed" =>
        \E row \in review : /\ row.cap = c /\ row.action = "approve"
                            /\ row.version = capability[c].version - 1
                            /\ row.role \in Roles
                            /\ TierOf[c] = "R2" => row.role = "owner"

VerificationsHold ==
    \A v \in DOMAIN verification :
        verification[v].content = Candidate(verification[v].digest)

ReleasesHold ==
    /\ \A i \in DOMAIN release : release[i].verification \in DOMAIN verification
    /\ \A i, j \in DOMAIN release : release[i].run = release[j].run => i = j

\* A key that lasts names the release of what it was used for.
KeysHold ==
    \A k \in Keys : keyed[k].input # None =>
        /\ keyed[k].release \in DOMAIN release
        /\ release[keyed[k].release].run = keyed[k].input.run
        /\ release[keyed[k].release].verification = keyed[k].input.verification

TablesOK ==
    /\ TypeOK /\ ReviewsCount /\ ReviewedIsApproved /\ KeysHold
    /\ VerificationsHold /\ ReleasesHold /\ ReleasesAreEarned /\ PublishedBytesAreServed

InProgress == {"latest", "ask", "await", "save", "upload", "read", "publish", "answer"}
Verified == {"upload", "read", "publish", "answer"}

\* What a request in progress has fixed.
CallTyped(c) ==
    /\ call[c].at \in InProgress =>
          call[c].run \in Runs /\ (call[c].kind # "verify" => call[c].key \in Keys)
    /\ call[c].at \in {"idle", "latest", "ask", "await", "save", "upload"} => call[c].reads = 0
    /\ call[c].at = "read" => call[c].reads \in {0, 1}
    /\ call[c].at = "latest" => call[c].kind # "install"
    /\ call[c].at \in {"ask", "await", "save"} /\ call[c].kind = "install" =>
          call[c].release \in DOMAIN release

\* A publication that goes on has a verification of its run and its bytes.
CallVerified(c) ==
    call[c].at \in Verified =>
        /\ call[c].kind = "publish"
        /\ call[c].verification \in DOMAIN verification
        /\ verification[call[c].verification].run = call[c].run
        /\ verification[call[c].verification].content = Candidate(call[c].digest)

\* What it has read back from public storage is there.
CallServed(c) ==
    call[c].at \in {"publish", "answer"} \/ (call[c].at = "read" /\ call[c].reads = 1)
        => Candidate(call[c].digest) \in bucket

\* What its caller is told, or was told, is a release of its run.
CallNamed(c) ==
    /\ call[c].at = "answer" => call[c].release \in DOMAIN release
    /\ call[c].at = "ended" /\ call[c].kind = "publish" /\ call[c].answered # 0 =>
          /\ call[c].answered \in DOMAIN release
          /\ release[call[c].answered].run = call[c].run

CallOK(c) == CallTyped(c) /\ CallVerified(c) /\ CallServed(c) /\ CallNamed(c)

PublicationOK == TablesOK /\ \A c \in Calls : CallOK(c)

-----------------------------------------------------------------------------
(* Requests, one at a time.                                                 *)

\* No step takes from the tables what a request has read: rows are appended and
\* objects are kept.
TablesGrow ==
    /\ DOMAIN verification \subseteq DOMAIN verification'
    /\ \A v \in DOMAIN verification : verification'[v] = verification[v]
    /\ DOMAIN release \subseteq DOMAIN release'
    /\ \A i \in DOMAIN release : release'[i] = release[i]
    /\ bucket \subseteq bucket'

\* A request that takes no part in a step keeps what it counts on.
LEMMA OtherCallsKept ==
    ASSUME TypeOK, TablesGrow, NEW c \in Calls, CallOK(c), call'[c] = call[c]
    PROVE  CallOK(c)'
<1>1. CallTyped(c)'
  BY DEF CallOK, CallTyped, TablesGrow, InProgress
<1>2. CallVerified(c)'
  BY DEF CallOK, CallVerified, TablesGrow, Candidate, Selected, Verified
<1>3. CallServed(c)'
  BY DEF CallOK, CallServed, TablesGrow, Candidate, Selected
<1>4. CallNamed(c)'
  BY DEF CallOK, CallNamed, TablesGrow
<1> QED BY <1>1, <1>2, <1>3, <1>4 DEF CallOK

LEMMA OneCallMoves ==
    ASSUME PublicationOK, TablesOK', TablesGrow, NEW c \in Calls, CallOK(c)',
           \A d \in Calls \ {c} : call'[d] = call[d]
    PROVE  PublicationOK'
<1>1. ASSUME NEW d \in Calls PROVE CallOK(d)'
  <2>1. CASE d = c
    BY <2>1
  <2>2. CASE d # c
    BY <2>2, OtherCallsKept DEF PublicationOK, TablesOK
  <2> QED BY <2>1, <2>2
<1> QED BY <1>1 DEF PublicationOK, Calls

PromiseTyped ==
    /\ asked \in SUBSET Requests
    /\ evaluated \in [Requests -> 0 .. MaxDeliveries]
    /\ attested \in SUBSET Replies
    /\ broken \in BOOLEAN

\* A step of requests, or of the verifier, that writes no table and no object.
LEMMA TablesStay ==
    ASSUME TablesOK, UNCHANGED <<databaseVars, bucket>>, PromiseTyped',
           call' \in [Calls -> CallRow]
    PROVE  TablesOK' /\ TablesGrow
<1> USE DEF databaseVars
<1>1. TypeOK'
  BY DEF TablesOK, TypeOK, PromiseTyped
<1>2. ReviewsCount' /\ ReviewedIsApproved'
  BY DEF TablesOK, ReviewsCount, ReviewedIsApproved
<1>3. KeysHold' /\ VerificationsHold' /\ ReleasesHold' /\ PublishedBytesAreServed'
  BY DEF TablesOK, KeysHold, VerificationsHold, ReleasesHold, PublishedBytesAreServed, Candidate, Selected
<1>4. ReleasesAreEarned'
  BY DEF TablesOK, ReleasesAreEarned, Candidate, Selected, Approved
<1>5. TablesGrow
  BY DEF TablesGrow
<1> QED BY <1>1, <1>2, <1>3, <1>4, <1>5 DEF TablesOK

LEMMA TablesKept ==
    ASSUME TablesOK, OnlyCall, call' \in [Calls -> CallRow]
    PROVE  TablesOK' /\ TablesGrow
<1>1. UNCHANGED <<databaseVars, bucket>> /\ PromiseTyped'
  BY DEF TablesOK, TypeOK, PromiseTyped, OnlyCall, promiseVars
<1> QED BY <1>1, TablesStay

\* Requests as records.
LEMMA RequestRow ==
    ASSUME NEW at \in Steps, NEW kind \in {"publish", "verify", "install"},
           NEW r \in Runs \cup {None}, NEW k \in Keys \cup {None},
           NEW digest \in Digests \cup {<<>>}
    PROVE  Request(at, kind, r, k, digest) \in CallRow
  BY PublicationAssumption DEF Request, CallRow

LEMMA CallFields ==
    ASSUME TypeOK, NEW c \in Calls
    PROVE  /\ call[c] \in CallRow
           /\ call[c].at \in Steps /\ call[c].kind \in {"publish", "verify", "install"}
           /\ call[c].run \in Runs \cup {None} /\ call[c].key \in Keys \cup {None}
           /\ call[c].digest \in Digests \cup {<<>>}
           /\ call[c].verification \in Nat /\ call[c].release \in Nat
           /\ call[c].passed \in BOOLEAN /\ call[c].reads \in 0 .. 2
           /\ call[c].budget \in 0 .. ReadBudget /\ call[c].selfHosted \in BOOLEAN
           /\ call[c].answered \in Nat
<1>1. call[c] \in CallRow
  BY DEF TypeOK
<1> QED BY <1>1 DEF CallRow

LEMMA GotoRow ==
    ASSUME TypeOK, NEW c \in Calls, NEW step \in Steps, call' = Goto(c, step)
    PROVE  /\ call' \in [Calls -> CallRow]
           /\ call'[c].at = step /\ call'[c].kind = call[c].kind /\ call'[c].run = call[c].run
           /\ call'[c].key = call[c].key /\ call'[c].digest = call[c].digest
           /\ call'[c].verification = call[c].verification /\ call'[c].release = call[c].release
           /\ call'[c].reads = call[c].reads
           /\ \A d \in Calls \ {c} : call'[d] = call[d]
<1> DEFINE row == [call[c] EXCEPT !.at = step]
<1>1. call' = [call EXCEPT ![c] = row]
  BY DEF Goto, TypeOK
<1>2. row \in CallRow
  BY CallFields DEF CallRow
<1>3. /\ row.at = step /\ row.kind = call[c].kind /\ row.run = call[c].run
      /\ row.key = call[c].key /\ row.digest = call[c].digest
      /\ row.verification = call[c].verification /\ row.release = call[c].release
      /\ row.reads = call[c].reads
  <2>1. call[c] \in CallRow
    BY CallFields
  <2> QED BY <2>1 DEF CallRow
<1> HIDE DEF row
<1>4. call' \in [Calls -> CallRow] /\ call'[c] = row /\ \A d \in Calls \ {c} : call'[d] = call[d]
  BY <1>1, <1>2 DEF TypeOK
<1> QED BY <1>3, <1>4

\* An answer leaves the kind, the run and the key of the request.
LEMMA AnsweredRow ==
    ASSUME TypeOK, NEW c \in Calls, NEW i \in Nat, call' = Answered(c, i)
    PROVE  /\ call' \in [Calls -> CallRow]
           /\ call'[c].at = "ended" /\ call'[c].kind = call[c].kind
           /\ call'[c].run = call[c].run /\ call'[c].key = call[c].key /\ call'[c].answered = i
           /\ \A d \in Calls \ {c} : call'[d] = call[d]
<1> DEFINE row == Request("ended", call[c].kind, call[c].run, call[c].key, <<>>)
<1>1. row \in CallRow
  BY CallFields, RequestRow DEF Steps
<1>2. row.at = "ended" /\ row.kind = call[c].kind /\ row.run = call[c].run /\ row.key = call[c].key
  BY DEF Request
<1>3. call' = [call EXCEPT ![c] = [row EXCEPT !.answered = i]]
  BY DEF Answered
<1> HIDE DEF row
<1>4. [row EXCEPT !.answered = i] \in CallRow
  BY <1>1 DEF CallRow
<1>5. call'[c] = [row EXCEPT !.answered = i] /\ call' \in [Calls -> CallRow]
  BY <1>3, <1>4 DEF TypeOK
<1>6. \A d \in Calls \ {c} : call'[d] = call[d]
  BY <1>3 DEF TypeOK
<1>7. /\ call'[c].at = row.at /\ call'[c].kind = row.kind /\ call'[c].key = row.key
      /\ call'[c].run = row.run /\ call'[c].answered = i
  BY <1>1, <1>5 DEF CallRow
<1> QED BY <1>2, <1>5, <1>6, <1>7

LEMMA AnswerEnds ==
    ASSUME PublicationOK, NEW c \in Calls, NEW i \in Nat, call' = Answered(c, i), OnlyCall,
           call[c].kind = "publish" /\ i # 0 =>
               i \in DOMAIN release /\ release[i].run = call[c].run
    PROVE  PublicationOK'
<1>1. TypeOK /\ TablesOK
  BY DEF PublicationOK, TablesOK
<1>2. /\ call' \in [Calls -> CallRow]
      /\ call'[c].at = "ended" /\ call'[c].kind = call[c].kind
      /\ call'[c].run = call[c].run /\ call'[c].answered = i
      /\ \A d \in Calls \ {c} : call'[d] = call[d]
  BY <1>1, AnsweredRow
<1>3. TablesOK' /\ TablesGrow
  BY <1>1, <1>2, TablesKept
<1>4. CallTyped(c)' /\ CallVerified(c)' /\ CallServed(c)'
  BY <1>2 DEF CallTyped, CallVerified, CallServed, InProgress, Verified
<1>5. CallNamed(c)'
  BY <1>2 DEF CallNamed, OnlyCall, databaseVars
<1> QED BY <1>2, <1>3, <1>4, <1>5, OneCallMoves DEF CallOK

-----------------------------------------------------------------------------
(* The steps of a request that leave the tables alone.                      *)

\* What every such step has to say for its own request.
LEMMA CallGoesOn ==
    ASSUME PublicationOK, OnlyCall, NEW c \in Calls, call' \in [Calls -> CallRow],
           \A d \in Calls \ {c} : call'[d] = call[d],
           CallTyped(c)', CallVerified(c)', CallServed(c)', CallNamed(c)'
    PROVE  PublicationOK'
<1>1. TablesOK' /\ TablesGrow
  BY TablesKept DEF PublicationOK
<1> QED BY <1>1, OneCallMoves DEF CallOK

LEMMA StartReleaseOK ==
    ASSUME PublicationOK, NEW c \in Calls, NEW kind \in {"publish", "verify"},
           NEW r \in Runs, NEW k \in Keys \cup {None}, StartRelease(c, kind, r, k)
    PROVE  PublicationOK'
<1>1. TypeOK
  BY DEF PublicationOK, TablesOK
<1> DEFINE row == Request("latest", kind, r, k, DigestOf(r))
<1>2. row \in CallRow
  BY <1>1, DigestTyped, RequestRow DEF Steps
<1>3. row.at = "latest" /\ row.kind = kind /\ row.run = r /\ row.key = k /\ row.reads = 0
  BY DEF Request
<1>4. call' = [call EXCEPT ![c] = row] /\ OnlyCall /\ (kind # "verify" => k \in Keys)
  BY DEF StartRelease
<1> HIDE DEF row
<1>5. call' \in [Calls -> CallRow] /\ call'[c] = row /\ \A d \in Calls \ {c} : call'[d] = call[d]
  BY <1>1, <1>2, <1>4 DEF TypeOK
<1>6. CallTyped(c)' /\ CallVerified(c)' /\ CallServed(c)' /\ CallNamed(c)'
  BY <1>3, <1>4, <1>5 DEF CallTyped, CallVerified, CallServed, CallNamed, InProgress, Verified
<1> QED BY <1>4, <1>5, <1>6, CallGoesOn

LEMMA StartInstallationOK ==
    ASSUME PublicationOK, NEW c \in Calls, NEW i \in DOMAIN release,
           NEW k \in Keys, NEW selfHosted \in BOOLEAN, StartInstallation(c, i, k, selfHosted)
    PROVE  PublicationOK'
<1>1. TypeOK
  BY DEF PublicationOK, TablesOK
<1>2. i \in Nat /\ release[i] \in ReleaseRow /\ release[i].run \in Runs
  <2>1. release \in Seq(ReleaseRow)
    BY <1>1 DEF TypeOK
  <2>2. i \in Nat /\ release[i] \in ReleaseRow
    BY <2>1
  <2> QED BY <2>2 DEF ReleaseRow
<1> DEFINE old == Request("ask", "install", release[i].run, k, <<>>)
           row == [old EXCEPT !.release = i, !.selfHosted = selfHosted]
<1>3. old \in CallRow
  BY <1>2, RequestRow DEF Steps
<1>4. /\ old.at = "ask" /\ old.kind = "install" /\ old.run = release[i].run
      /\ old.key = k /\ old.reads = 0
  BY DEF Request
<1>5. call' = [call EXCEPT ![c] = row] /\ OnlyCall
  BY DEF StartInstallation
<1> HIDE DEF old
<1>6. row \in CallRow
  BY <1>2, <1>3 DEF CallRow
<1>7. /\ row.at = "ask" /\ row.kind = "install" /\ row.run = release[i].run
      /\ row.key = k /\ row.reads = 0 /\ row.release = i
  BY <1>3, <1>4 DEF CallRow
<1> HIDE DEF row
<1>8. call' \in [Calls -> CallRow] /\ call'[c] = row /\ \A d \in Calls \ {c} : call'[d] = call[d]
  BY <1>1, <1>5, <1>6 DEF TypeOK
<1>9. release' = release
  BY <1>5 DEF OnlyCall, databaseVars
<1>10. CallTyped(c)' /\ CallVerified(c)' /\ CallServed(c)' /\ CallNamed(c)'
  BY <1>2, <1>7, <1>8, <1>9 DEF CallTyped, CallVerified, CallServed, CallNamed, InProgress, Verified
<1> QED BY <1>5, <1>8, <1>10, CallGoesOn

\* A release of the same run and bytes brings its own verification along.
LEMMA ReleaseVerifies ==
    ASSUME PublicationOK, NEW i \in DOMAIN release
    PROVE  /\ release[i].verification \in DOMAIN verification /\ release[i].verification \in Nat
           /\ verification[release[i].verification].run = release[i].run
           /\ verification[release[i].verification].content = release[i].content
<1>1. release[i].verification \in DOMAIN verification
  BY DEF PublicationOK, TablesOK, ReleasesHold
<1>2. release[i].verification \in Nat
  <2>1. release[i] \in ReleaseRow
    BY DEF PublicationOK, TablesOK, TypeOK
  <2> QED BY <2>1 DEF ReleaseRow
<1>3. /\ verification[release[i].verification].run = release[i].run
      /\ verification[release[i].verification].content = release[i].content
  BY DEF PublicationOK, TablesOK, ReleasesAreEarned
<1> QED BY <1>1, <1>2, <1>3

\* Both places where a stored verification is taken for the request's own.
LEMMA ReuseOK ==
    ASSUME PublicationOK, OnlyCall, NEW c \in Calls, NEW i \in DOMAIN release,
           call[c].at \in {"latest", "save"}, call[c].kind = "publish",
           release[i].run = call[c].run, release[i].content = Candidate(call[c].digest),
           call' = [call EXCEPT ![c].at = "upload", ![c].verification = release[i].verification]
    PROVE  PublicationOK'
<1>1. TypeOK /\ CallTyped(c)
  BY DEF PublicationOK, TablesOK, CallOK
<1> DEFINE v == release[i].verification
<1>2. /\ v \in DOMAIN verification /\ v \in Nat
      /\ verification[v].run = call[c].run /\ verification[v].content = Candidate(call[c].digest)
  BY ReleaseVerifies
<1> DEFINE row == [call[c] EXCEPT !.at = "upload", !.verification = v]
<1>3. call' = [call EXCEPT ![c] = row]
  BY <1>1 DEF TypeOK
<1> HIDE DEF v
<1>4. row \in CallRow
  BY <1>1, <1>2, CallFields DEF CallRow, Steps
<1>5. /\ row.at = "upload" /\ row.kind = call[c].kind /\ row.run = call[c].run
      /\ row.key = call[c].key /\ row.verification = v /\ row.reads = call[c].reads
      /\ row.digest = call[c].digest
  <2>1. call[c] \in CallRow
    BY <1>1, CallFields
  <2> QED BY <2>1 DEF CallRow
<1> HIDE DEF row
<1>6. call' \in [Calls -> CallRow] /\ call'[c] = row /\ \A d \in Calls \ {c} : call'[d] = call[d]
  BY <1>1, <1>3, <1>4 DEF TypeOK
<1>7. /\ call'[c].at = "upload" /\ call'[c].kind = "publish" /\ call'[c].run = call[c].run
      /\ call'[c].key = call[c].key /\ call'[c].verification = v /\ call'[c].reads = call[c].reads
      /\ call'[c].digest = call[c].digest
  BY <1>6, <1>5
<1>8. CallTyped(c)' /\ CallServed(c)' /\ CallNamed(c)'
  BY <1>1, <1>7 DEF CallTyped, CallServed, CallNamed, InProgress
<1>9. CallVerified(c)'
  BY <1>2, <1>7 DEF CallVerified, OnlyCall, databaseVars, Candidate, Selected
<1> QED BY <1>6, <1>8, <1>9, CallGoesOn

LEMMA ReadLatestOK ==
    ASSUME PublicationOK, NEW c \in Calls, ReadLatest(c)
    PROVE  PublicationOK'
<1> DEFINE latest == Len(release)
<1>1. TypeOK /\ CallTyped(c) /\ call[c].at = "latest" /\ OnlyCall
  BY DEF PublicationOK, TablesOK, CallOK, ReadLatest
<1>2. latest \in Nat /\ (latest > 0 => latest \in DOMAIN release)
  <2>1. release \in Seq(ReleaseRow)
    BY <1>1 DEF TypeOK
  <2> QED BY <2>1
<1>3. CASE /\ latest > 0
           /\ release[latest].run = call[c].run
           /\ release[latest].content = Candidate(call[c].digest)
           /\ call[c].kind = "publish"
           /\ call' = [call EXCEPT ![c].at = "upload",
                                   ![c].verification = release[latest].verification]
  <2> HIDE DEF latest
  <2> QED BY <1>1, <1>2, <1>3, ReuseOK
<1>4. CASE /\ latest > 0 /\ call[c].kind = "verify"
           /\ call' = Answered(c, release[latest].verification)
  <2> HIDE DEF latest
  <2>1. release[latest].verification \in Nat
    BY <1>2, <1>4, ReleaseVerifies
  <2> QED BY <1>1, <1>4, <2>1, AnswerEnds
<1>5. CASE call' = Goto(c, "ask")
  <2>1. /\ call' \in [Calls -> CallRow]
        /\ call'[c].at = "ask" /\ call'[c].kind = call[c].kind /\ call'[c].run = call[c].run
        /\ call'[c].key = call[c].key /\ call'[c].reads = call[c].reads
        /\ \A d \in Calls \ {c} : call'[d] = call[d]
    BY <1>1, <1>5, GotoRow DEF Steps
  <2>2. CallTyped(c)' /\ CallVerified(c)' /\ CallServed(c)' /\ CallNamed(c)'
    BY <1>1, <2>1 DEF CallTyped, CallVerified, CallServed, CallNamed, InProgress, Verified
  <2> QED BY <1>1, <2>1, <2>2, CallGoesOn
<1> QED BY <1>3, <1>4, <1>5 DEF ReadLatest

LEMMA AskVerifierOK ==
    ASSUME PublicationOK, NEW c \in Calls, AskVerifier(c)
    PROVE  PublicationOK'
<1>1. TypeOK /\ CallTyped(c) /\ call[c].at = "ask" /\ call' = Goto(c, "await")
  BY DEF PublicationOK, TablesOK, CallOK, AskVerifier
<1>2. /\ call' \in [Calls -> CallRow]
      /\ call'[c].at = "await" /\ call'[c].kind = call[c].kind /\ call'[c].run = call[c].run
      /\ call'[c].key = call[c].key /\ call'[c].reads = call[c].reads
      /\ call'[c].release = call[c].release
      /\ \A d \in Calls \ {c} : call'[d] = call[d]
  BY <1>1, GotoRow DEF Steps
<1>3. UNCHANGED <<databaseVars, bucket>> /\ PromiseTyped'
  BY <1>1 DEF AskVerifier, Ask, PromiseTyped, TypeOK, Calls
<1>4. TablesOK' /\ TablesGrow
  BY <1>2, <1>3, TablesStay DEF PublicationOK
<1>5. release' = release
  BY <1>3 DEF databaseVars
<1>6. CallTyped(c)' /\ CallVerified(c)' /\ CallServed(c)' /\ CallNamed(c)'
  BY <1>1, <1>2, <1>5 DEF CallTyped, CallVerified, CallServed, CallNamed, InProgress, Verified
<1> QED BY <1>2, <1>4, <1>6, OneCallMoves DEF CallOK

LEMMA HearVerifierOK ==
    ASSUME PublicationOK, NEW c \in Calls, NEW reply, HearVerifier(c, reply)
    PROVE  PublicationOK'
<1>1. TypeOK /\ CallTyped(c) /\ call[c].at = "await" /\ OnlyCall
  BY DEF PublicationOK, TablesOK, CallOK, HearVerifier
<1> DEFINE heard == reply.report = "passed"
           row == [call[c] EXCEPT !.at = "save", !.passed = heard]
<1>2. call' = [call EXCEPT ![c] = row] /\ heard \in BOOLEAN
  BY <1>1 DEF HearVerifier, TypeOK
<1> HIDE DEF heard
<1>3. row \in CallRow
  <2>1. call[c] \in CallRow
    BY <1>1, CallFields
  <2> QED BY <2>1, <1>2 DEF CallRow, Steps
<1>4. /\ row.at = "save" /\ row.kind = call[c].kind /\ row.run = call[c].run
      /\ row.key = call[c].key /\ row.reads = call[c].reads /\ row.release = call[c].release
  <2>1. call[c] \in CallRow
    BY <1>1, CallFields
  <2> QED BY <2>1 DEF CallRow
<1> HIDE DEF row
<1>5. call' \in [Calls -> CallRow] /\ call'[c] = row /\ \A d \in Calls \ {c} : call'[d] = call[d]
  BY <1>1, <1>2, <1>3 DEF TypeOK
<1>6. release' = release
  BY <1>1 DEF OnlyCall, databaseVars
<1>7. CallTyped(c)' /\ CallVerified(c)' /\ CallServed(c)' /\ CallNamed(c)'
  BY <1>1, <1>4, <1>5, <1>6 DEF CallTyped, CallVerified, CallServed, CallNamed, InProgress, Verified
<1> QED BY <1>1, <1>5, <1>7, CallGoesOn

LEMMA ReuseVerificationOK ==
    ASSUME PublicationOK, NEW c \in Calls, call[c].kind # "install", ReuseVerification(c)
    PROVE  PublicationOK'
<1>1. call[c].at = "save" /\ OnlyCall
  BY DEF ReuseVerification, MaySaveVerification
<1>2. PICK i \in ReleasesOf(call[c].run) :
        /\ release[i].content = Candidate(call[c].digest)
        /\ call' = IF call[c].kind = "publish"
                   THEN [call EXCEPT ![c].at = "upload",
                                     ![c].verification = release[i].verification]
                   ELSE Answered(c, release[i].verification)
  BY DEF ReuseVerification
<1>3. i \in DOMAIN release /\ release[i].run = call[c].run
  BY <1>2 DEF ReleasesOf
<1>4. CASE call[c].kind = "publish"
  BY <1>1, <1>2, <1>3, <1>4, ReuseOK
<1>5. CASE call[c].kind # "publish"
  <2>1. release[i].verification \in Nat
    BY <1>3, ReleaseVerifies
  <2> QED BY <1>1, <1>2, <1>5, <2>1, AnswerEnds
<1> QED BY <1>4, <1>5

LEMMA ReplayPublicationOK ==
    ASSUME PublicationOK, NEW c \in Calls, ReplayPublication(c)
    PROVE  PublicationOK'
<1> DEFINE i == keyed[call[c].key].release
           row == [call[c] EXCEPT !.at = "answer", !.release = i]
<1>1. /\ TypeOK /\ CallOK(c) /\ call[c].at = "publish" /\ OnlyCall
      /\ keyed[call[c].key].input = KeyInput(c) /\ call' = PublishedNow(c, i)
  BY DEF PublicationOK, TablesOK, ReplayPublication
<1>2. call[c].run \in Runs /\ call[c].key \in Keys /\ call[c].verification \in Nat
  BY <1>1, CallFields DEF CallOK, CallTyped, CallVerified, InProgress, Verified
<1>3. i \in Nat
  BY <1>1, <1>2 DEF TypeOK
<1>4. i \in DOMAIN release
  <2>1. KeyInput(c) # None
    BY <1>2, PublicationAssumption DEF KeyInput
  <2> QED BY <1>1, <1>2, <2>1 DEF PublicationOK, TablesOK, KeysHold
<1>5. call' = [call EXCEPT ![c] = row]
  BY <1>1 DEF PublishedNow, TypeOK
<1> HIDE DEF i
<1>6. row \in CallRow
  <2>1. call[c] \in CallRow
    BY <1>1, CallFields
  <2> QED BY <2>1, <1>3 DEF CallRow, Steps
<1>7. /\ row.at = "answer" /\ row.kind = call[c].kind /\ row.run = call[c].run
      /\ row.key = call[c].key /\ row.reads = call[c].reads /\ row.release = i
      /\ row.verification = call[c].verification /\ row.digest = call[c].digest
  <2>1. call[c] \in CallRow
    BY <1>1, CallFields
  <2> QED BY <2>1, <1>3 DEF CallRow
<1> HIDE DEF row
<1>8. call' \in [Calls -> CallRow] /\ call'[c] = row /\ \A d \in Calls \ {c} : call'[d] = call[d]
  BY <1>1, <1>5, <1>6 DEF TypeOK
<1>9. UNCHANGED <<verification, release, bucket>>
  BY <1>1 DEF OnlyCall, databaseVars
<1>10. CallTyped(c)' /\ CallNamed(c)'
  BY <1>1, <1>2, <1>4, <1>7, <1>8, <1>9 DEF CallOK, CallTyped, CallNamed, InProgress
<1>11. CallVerified(c)'
  BY <1>1, <1>7, <1>8, <1>9 DEF CallOK, CallVerified, Verified, Candidate, Selected
<1>12. CallServed(c)'
  <2>1. Candidate(call[c].digest) \in bucket
    BY <1>1 DEF CallOK, CallServed
  <2>2. call'[c].digest = call[c].digest
    BY <1>7, <1>8
  <2>3. Candidate(call[c].digest)' = Candidate(call[c].digest)
    BY <2>2 DEF Candidate, Selected
  <2> QED BY <1>9, <2>1, <2>3 DEF CallServed
<1> QED BY <1>1, <1>8, <1>10, <1>11, <1>12, CallGoesOn

LEMMA AnswerPublicationOK ==
    ASSUME PublicationOK, NEW c \in Calls, AnswerPublication(c)
    PROVE  PublicationOK'
<1>1. /\ TypeOK /\ CallOK(c) /\ call[c].at = "answer" /\ OnlyCall
      /\ call' = Answered(c, call[c].release)
      /\ release[call[c].release].run = call[c].run
  BY DEF PublicationOK, TablesOK, AnswerPublication
<1>2. call[c].release \in Nat
  BY <1>1, CallFields
<1>3. call[c].release \in DOMAIN release
  BY <1>1 DEF CallOK, CallNamed
<1> QED BY <1>1, <1>2, <1>3, AnswerEnds

LEMMA GiveUpOK ==
    ASSUME PublicationOK, NEW c \in Calls, GiveUp(c)
    PROVE  PublicationOK'
  BY AnswerEnds DEF GiveUp, Ended

-----------------------------------------------------------------------------
(* The steps that write a table or the bucket.                              *)

LEMMA NoCallMoves ==
    ASSUME PublicationOK, TablesOK', TablesGrow, call' = call
    PROVE  PublicationOK'
<1>1. ASSUME NEW d \in Calls PROVE CallOK(d)'
  BY OtherCallsKept DEF PublicationOK, TablesOK
<1> QED BY <1>1 DEF PublicationOK, Calls

\* Releases stay earned while verifications and reviews are only added.
LEMMA ReleasesStayEarned ==
    ASSUME TablesOK, release' = release, review \subseteq review',
           \A v \in DOMAIN verification : verification'[v] = verification[v]
    PROVE  ReleasesAreEarned'
<1>1. ASSUME NEW i \in DOMAIN release
      PROVE  verification'[release[i].verification] = verification[release[i].verification]
  BY DEF TablesOK, ReleasesHold
<1>2. \A digest, c, roles : Approved(digest, c, roles) => Approved(digest, c, roles)'
  BY DEF Approved
<1>3. ReleasesAreEarned
  BY DEF TablesOK
<1> QED BY <1>1, <1>2, <1>3 DEF ReleasesAreEarned, Candidate, Selected, Approved

LEMMA ReviewedOK ==
    ASSUME PublicationOK, NEW c \in Caps, NEW action \in {"approve", "block"},
           NEW role \in Roles \cup {None}, NEW status \in {"reviewed", "blocked"},
           status = "reviewed" =>
               action = "approve" /\ role \in Roles /\ (TierOf[c] = "R2" => role = "owner"),
           Reviewed(c, action, role, status)
    PROVE  PublicationOK'
<1> DEFINE made == [cap |-> c, action |-> action, version |-> capability[c].version, role |-> role]
           row == [status |-> status, bound |-> TRUE, version |-> capability[c].version + 1]
<1>1. TablesOK /\ TypeOK /\ ReviewsCount /\ ReviewedIsApproved
  BY DEF PublicationOK, TablesOK
<1>2. /\ Cardinality(review) < MaxReviews
      /\ capability' = [capability EXCEPT ![c] = row] /\ review' = review \cup {made}
      /\ UNCHANGED <<evidence, verification, release, installation, keyed, bucket, call, promiseVars>>
  BY <1>1 DEF Reviewed, TypeOK
<1>3. \A d \in Caps : capability[d] \in CapabilityRow /\ capability[d].version \in 1 .. MaxReviews + 1
  BY <1>1 DEF TypeOK, CapabilityRow
<1>4. Cardinality(review) \in Nat
  BY <1>1, FS_CardinalityType DEF ReviewsCount
<1>5. capability[c].version \in 1 .. MaxReviews /\ MaxReviews \in Nat
  BY <1>1, <1>2, <1>3, <1>4, PublicationAssumption DEF ReviewsCount
<1>6. made \in ReviewRow /\ row \in CapabilityRow
  BY <1>5 DEF ReviewRow, CapabilityRow
<1>7. made \notin review
  BY <1>1, <1>3 DEF ReviewsCount
<1>8. IsFiniteSet(review') /\ Cardinality(review') = Cardinality(review) + 1
  BY <1>1, <1>2, <1>7, FS_AddElement DEF ReviewsCount
<1>9. /\ made.cap = c /\ made.action = action /\ made.version = capability[c].version /\ made.role = role
      /\ row.status = status /\ row.version = capability[c].version + 1
  OBVIOUS
<1> HIDE DEF made, row
<1>10. capability'[c] = row /\ \A d \in Caps \ {c} : capability'[d] = capability[d]
  BY <1>1, <1>2 DEF TypeOK
<1>11. TypeOK'
  BY <1>1, <1>2, <1>6 DEF TypeOK, promiseVars
<1>12. ReviewsCount'
  <2>1. \A x \in review : x \in ReviewRow /\ x.cap \in Caps /\ x.version \in Nat
    BY <1>1 DEF TypeOK, ReviewRow
  <2>2. ASSUME NEW x \in review' PROVE x.version < capability'[x.cap].version
    <3>1. CASE x = made
      BY <1>3, <1>9, <1>10, <3>1
    <3>2. CASE x \in review /\ x.cap = c
      BY <1>1, <1>3, <1>9, <1>10, <2>1, <3>2 DEF ReviewsCount
    <3>3. CASE x \in review /\ x.cap # c
      BY <1>1, <1>10, <2>1, <3>3 DEF ReviewsCount
    <3> QED BY <1>2, <3>1, <3>2, <3>3
  <2>3. ASSUME NEW d \in Caps PROVE capability'[d].version <= Cardinality(review') + 1
    <3>1. capability[d].version <= Cardinality(review) + 1
      BY <1>1 DEF ReviewsCount
    <3>2. capability[d].version \in Nat /\ capability[c].version \in Nat
      BY <1>3
    <3>3. CASE d = c
      BY <1>4, <1>8, <1>9, <1>10, <3>1, <3>2, <3>3
    <3>4. CASE d # c
      BY <1>4, <1>8, <1>10, <3>1, <3>2, <3>4
    <3> QED BY <3>3, <3>4
  <2> QED BY <1>8, <2>2, <2>3 DEF ReviewsCount
<1>13. ReviewedIsApproved'
  <2>1. ASSUME NEW d \in Caps, capability'[d].status = "reviewed"
        PROVE  \E x \in review' : /\ x.cap = d /\ x.action = "approve"
                                  /\ x.version = capability'[d].version - 1
                                  /\ x.role \in Roles
                                  /\ TierOf[d] = "R2" => x.role = "owner"
    <3>1. CASE d = c
      <4>1. made \in review' /\ made.version = capability'[d].version - 1
        BY <1>2, <1>3, <1>9, <1>10, <3>1
      <4>2. status = "reviewed"
        BY <1>9, <1>10, <2>1, <3>1
      <4> QED BY <1>9, <3>1, <4>1, <4>2
    <3>2. CASE d # c
      <4>1. capability'[d] = capability[d]
        BY <1>10, <3>2
      <4> QED BY <1>1, <1>2, <2>1, <4>1 DEF ReviewedIsApproved
    <3> QED BY <3>1, <3>2
  <2> QED BY <2>1 DEF ReviewedIsApproved
<1>14. KeysHold' /\ VerificationsHold' /\ ReleasesHold' /\ PublishedBytesAreServed'
  BY <1>1, <1>2 DEF TablesOK, KeysHold, VerificationsHold, ReleasesHold, PublishedBytesAreServed, Candidate, Selected
<1>15. ReleasesAreEarned'
  BY <1>1, <1>2, ReleasesStayEarned
<1>16. TablesOK' /\ TablesGrow
  BY <1>2, <1>11, <1>12, <1>13, <1>14, <1>15 DEF TablesOK, TablesGrow
<1> QED BY <1>2, <1>16, NoCallMoves

LEMMA ApproveCapabilityOK ==
    ASSUME PublicationOK, NEW c \in Caps, NEW role \in Roles, ApproveCapability(c, role)
    PROVE  PublicationOK'
<1>1. Reviewed(c, "approve", role, "reviewed") /\ (TierOf[c] = "R2" => role = "owner")
  BY DEF ApproveCapability, MayApprove
<1> QED BY <1>1, ReviewedOK

LEMMA BlockCapabilityOK ==
    ASSUME PublicationOK, NEW c \in Caps, BlockCapability(c)
    PROVE  PublicationOK'
<1>1. Reviewed(c, "block", None, "blocked")
  BY DEF BlockCapability
<1> QED BY <1>1, ReviewedOK

LEMMA EvidenceExpiresOK ==
    ASSUME PublicationOK, NEW r \in Runs, EvidenceExpires(r)
    PROVE  PublicationOK'
<1>1. TablesOK
  BY DEF PublicationOK
<1> USE DEF EvidenceExpires, promiseVars
<1>2. TypeOK'
  BY <1>1 DEF TablesOK, TypeOK
<1>3. ReviewsCount' /\ ReviewedIsApproved'
  BY <1>1 DEF TablesOK, ReviewsCount, ReviewedIsApproved
<1>4. KeysHold' /\ VerificationsHold' /\ ReleasesHold' /\ PublishedBytesAreServed'
  BY <1>1 DEF TablesOK, KeysHold, VerificationsHold, ReleasesHold, PublishedBytesAreServed,
              Candidate, Selected
<1>5. ReleasesAreEarned'
  BY <1>1, ReleasesStayEarned
<1>6. TablesOK' /\ TablesGrow /\ call' = call
  BY <1>2, <1>3, <1>4, <1>5 DEF TablesOK, TablesGrow
<1> QED BY <1>6, NoCallMoves

\* A key that expires takes its answer along: no request counts on it but by
\* reading it in the step that uses it.
LEMMA KeyExpiresOK ==
    ASSUME PublicationOK, NEW k \in Keys, KeyExpires(k)
    PROVE  PublicationOK'
<1>1. TablesOK /\ TypeOK
  BY DEF PublicationOK, TablesOK
<1>2. /\ keyed' = [keyed EXCEPT ![k] = [input |-> None, release |-> 0]]
      /\ UNCHANGED <<capability, review, evidence, verification, release, installation,
                     bucket, call, promiseVars>>
  BY DEF KeyExpires, Unused
<1>3. /\ keyed' \in [Keys -> [input : [run : Runs, verification : Nat] \cup {None}, release : Nat]]
      /\ keyed'[k].input = None /\ \A x \in Keys \ {k} : keyed'[x] = keyed[x]
  BY <1>1, <1>2 DEF TypeOK
<1>4. TypeOK'
  BY <1>1, <1>2, <1>3 DEF TypeOK, promiseVars
<1>5. ReviewsCount' /\ ReviewedIsApproved'
  BY <1>1, <1>2 DEF TablesOK, ReviewsCount, ReviewedIsApproved
<1>6. VerificationsHold' /\ ReleasesHold' /\ PublishedBytesAreServed'
  BY <1>1, <1>2 DEF TablesOK, VerificationsHold, ReleasesHold, PublishedBytesAreServed,
                    Candidate, Selected
<1>7. KeysHold'
  BY <1>1, <1>2, <1>3 DEF TablesOK, KeysHold
<1>8. ReleasesAreEarned'
  BY <1>1, <1>2, ReleasesStayEarned
<1>9. TablesOK' /\ TablesGrow
  BY <1>2, <1>4, <1>5, <1>6, <1>7, <1>8 DEF TablesOK, TablesGrow
<1> QED BY <1>2, <1>9, NoCallMoves

\* What the verifier does is nothing to the tables.
LEMMA ServeTyped ==
    ASSUME TypeOK, Serve, UNCHANGED broken
    PROVE  PromiseTyped'
<1>1. CASE \E r \in Requests : Evaluate(r)
  <2>1. PICK r \in Requests : Evaluate(r)
    BY <1>1
  <2>2. evaluated[r] + 1 \in 0 .. MaxDeliveries
    BY <2>1, PublicationAssumption DEF Evaluate, TypeOK
  <2> QED BY <2>1, <2>2 DEF Evaluate, TypeOK, PromiseTyped
<1>2. CASE \E r \in Requests, report \in Reports : Answer(r, report)
  <2>1. PICK r \in Requests, report \in Reports : Answer(r, report)
    BY <1>2
  <2>2. evaluated[r] \in 1 .. MaxDeliveries
    BY <2>1, PublicationAssumption DEF Answer, TypeOK
  <2>3. [request |-> r, id |-> evaluated[r], report |-> report] \in Replies
    BY <2>2 DEF Replies
  <2> QED BY <2>1, <2>3 DEF Answer, TypeOK, PromiseTyped
<1> QED BY <1>1, <1>2 DEF Serve

LEMMA ServeOK ==
    ASSUME PublicationOK, Serve, UNCHANGED <<databaseVars, bucket, call, broken>>
    PROVE  PublicationOK'
<1>1. TypeOK /\ TablesOK
  BY DEF PublicationOK, TablesOK
<1>2. call' \in [Calls -> CallRow]
  BY <1>1 DEF TypeOK
<1>3. TablesOK' /\ TablesGrow
  BY <1>1, <1>2, ServeTyped, TablesStay
<1> QED BY <1>3, NoCallMoves

LEMMA UploadArtifactOK ==
    ASSUME PublicationOK, NEW c \in Calls, UploadArtifact(c)
    PROVE  PublicationOK'
<1> DEFINE content == Candidate(call[c].digest)
<1>1. /\ TypeOK /\ TablesOK /\ CallOK(c) /\ call[c].at = "upload" /\ call' = Goto(c, "read")
      /\ UNCHANGED <<databaseVars, promiseVars>>
      /\ bucket' = bucket \/ bucket' = bucket \cup {content}
  BY DEF PublicationOK, TablesOK, UploadArtifact
<1>2. content \in Contents
  BY <1>1, CallFields, CandidateTyped
<1> HIDE DEF content
<1>3. /\ call' \in [Calls -> CallRow]
      /\ call'[c].at = "read" /\ call'[c].kind = call[c].kind /\ call'[c].run = call[c].run
      /\ call'[c].key = call[c].key /\ call'[c].digest = call[c].digest
      /\ call'[c].verification = call[c].verification /\ call'[c].reads = call[c].reads
      /\ \A d \in Calls \ {c} : call'[d] = call[d]
  BY <1>1, GotoRow DEF Steps
<1>4. bucket \subseteq bucket' /\ bucket' \in SUBSET Contents
  BY <1>1, <1>2 DEF TypeOK
<1>5. TypeOK'
  BY <1>1, <1>3, <1>4 DEF TypeOK, databaseVars, promiseVars
<1>6. ReviewsCount' /\ ReviewedIsApproved' /\ KeysHold' /\ VerificationsHold' /\ ReleasesHold'
  BY <1>1 DEF TablesOK, ReviewsCount, ReviewedIsApproved, KeysHold, VerificationsHold, ReleasesHold,
              databaseVars, Candidate, Selected
<1>7. ReleasesAreEarned'
  BY <1>1, ReleasesStayEarned DEF databaseVars
<1>8. PublishedBytesAreServed'
  BY <1>1, <1>4 DEF TablesOK, PublishedBytesAreServed, databaseVars
<1>9. TablesOK' /\ TablesGrow
  BY <1>1, <1>4, <1>5, <1>6, <1>7, <1>8 DEF TablesOK, TablesGrow, databaseVars
<1>10. CallTyped(c)' /\ CallServed(c)' /\ CallNamed(c)'
  BY <1>1, <1>3 DEF CallOK, CallTyped, CallServed, CallNamed, InProgress
<1>11. CallVerified(c)'
  BY <1>1, <1>3 DEF CallOK, CallVerified, Verified, Candidate, Selected, databaseVars
<1> QED BY <1>3, <1>9, <1>10, <1>11, OneCallMoves DEF CallOK

LEMMA ReadArtifactOK ==
    ASSUME PublicationOK, NEW c \in Calls, ReadArtifact(c)
    PROVE  PublicationOK'
<1> DEFINE next == IF call[c].reads = 1 THEN "publish" ELSE "read"
           missed == [call[c] EXCEPT !.budget = @ - 1]
           found == [call[c] EXCEPT !.budget = @ - 1, !.reads = @ + 1, !.at = next]
<1>1. /\ TypeOK /\ CallOK(c) /\ call[c].at = "read" /\ call[c].budget > 0 /\ OnlyCall
      /\ \/ call' = [call EXCEPT ![c] = missed]
         \/ call' = [call EXCEPT ![c] = found] /\ Candidate(call[c].digest) \in bucket
  BY DEF PublicationOK, TablesOK, ReadArtifact, TypeOK
<1>2. call[c] \in CallRow
  BY <1>1, CallFields
<1>3. call[c].budget - 1 \in 0 .. ReadBudget
  BY <1>1, <1>2, PublicationAssumption DEF CallRow
<1>4. call[c].reads \in {0, 1}
  BY <1>1 DEF CallOK, CallTyped
<1>5. call[c].run \in Runs /\ (call[c].kind # "verify" => call[c].key \in Keys)
  BY <1>1 DEF CallOK, CallTyped, InProgress
<1>6. UNCHANGED <<verification, release, keyed, bucket>>
  BY <1>1 DEF OnlyCall, databaseVars
<1>7. CASE call' = [call EXCEPT ![c] = missed]
  <2>1. missed \in CallRow
    BY <1>2, <1>3 DEF CallRow
  <2>2. /\ missed.at = call[c].at /\ missed.kind = call[c].kind /\ missed.run = call[c].run
        /\ missed.key = call[c].key /\ missed.digest = call[c].digest
        /\ missed.verification = call[c].verification /\ missed.reads = call[c].reads
    BY <1>2 DEF CallRow
  <2> HIDE DEF missed
  <2>3. /\ call' \in [Calls -> CallRow] /\ call'[c] = missed
        /\ \A d \in Calls \ {c} : call'[d] = call[d]
    BY <1>1, <1>7, <2>1 DEF TypeOK
  <2>4. CallTyped(c)' /\ CallNamed(c)'
    BY <1>1, <1>4, <1>5, <2>2, <2>3 DEF CallTyped, CallNamed, InProgress
  <2>5. CallVerified(c)'
    BY <1>1, <1>6, <2>2, <2>3 DEF CallOK, CallVerified, Verified, Candidate, Selected
  <2>6. CallServed(c)'
    <3>1. Candidate(call[c].digest)' = Candidate(call[c].digest)
      BY <2>2, <2>3 DEF Candidate, Selected
    <3> QED BY <1>1, <1>6, <2>2, <2>3, <3>1 DEF CallOK, CallServed
  <2> QED BY <1>1, <2>3, <2>4, <2>5, <2>6, CallGoesOn
<1>8. CASE call' = [call EXCEPT ![c] = found] /\ Candidate(call[c].digest) \in bucket
  <2>1. next \in {"publish", "read"} /\ (next = "read" => call[c].reads = 0)
    BY <1>4
  <2> HIDE DEF next
  <2>2. call[c].reads + 1 \in 0 .. 2
    BY <1>4
  <2>3. found \in CallRow
    BY <1>2, <1>3, <2>1, <2>2 DEF CallRow, Steps
  <2>4. /\ found.at = next /\ found.kind = call[c].kind /\ found.run = call[c].run
        /\ found.key = call[c].key /\ found.digest = call[c].digest
        /\ found.verification = call[c].verification /\ found.reads = call[c].reads + 1
    BY <1>2 DEF CallRow
  <2> HIDE DEF found
  <2>5. /\ call' \in [Calls -> CallRow] /\ call'[c] = found
        /\ \A d \in Calls \ {c} : call'[d] = call[d]
    BY <1>1, <1>8, <2>3 DEF TypeOK
  <2>6. CallTyped(c)' /\ CallNamed(c)'
    BY <1>1, <1>4, <1>5, <2>1, <2>4, <2>5 DEF CallTyped, CallNamed, InProgress
  <2>7. CallVerified(c)'
    BY <1>1, <1>6, <2>4, <2>5 DEF CallOK, CallVerified, Verified, Candidate, Selected
  <2>8. CallServed(c)'
    <3>1. Candidate(call[c].digest)' = Candidate(call[c].digest)
      BY <2>4, <2>5 DEF Candidate, Selected
    <3> QED BY <1>6, <1>8, <3>1 DEF CallServed
  <2> QED BY <1>1, <2>5, <2>6, <2>7, <2>8, CallGoesOn
<1> QED BY <1>1, <1>7, <1>8

\* A revision is appended; what was verified before keeps its place.
LEMMA InsertVerificationOK ==
    ASSUME PublicationOK, NEW c \in Calls, call[c].kind # "install", InsertVerification(c)
    PROVE  PublicationOK'
<1> DEFINE made == [run |-> call[c].run, digest |-> call[c].digest,
                    content |-> Candidate(call[c].digest), eligible |-> call[c].passed,
                    request |-> c]
           v == Len(verification) + 1
<1>1. /\ TypeOK /\ TablesOK /\ CallOK(c)
      /\ call[c].at = "save" /\ DigestOf(call[c].run) = call[c].digest
      /\ verification' = Append(verification, made)
      /\ call' = IF call[c].kind = "publish" /\ call[c].passed
                 THEN [call EXCEPT ![c].at = "upload", ![c].verification = v]
                 ELSE IF call[c].kind = "publish" THEN Answered(c, 0) ELSE Answered(c, v)
      /\ UNCHANGED <<capability, review, evidence, release, installation, keyed, bucket, promiseVars>>
  BY DEF PublicationOK, TablesOK, InsertVerification, MaySaveVerification, Ended
<1>2. /\ call[c].run \in Runs /\ call[c].reads = 0
      /\ (call[c].kind # "verify" => call[c].key \in Keys)
      /\ call[c].passed \in BOOLEAN
  BY <1>1, CallFields DEF CallOK, CallTyped, InProgress
<1>3. call[c].digest \in Digests
  BY <1>1, <1>2, DigestTyped
<1>4. Candidate(call[c].digest) \in Contents
  BY <1>3, CandidateTyped
<1>5. made \in VerificationRow
  BY <1>2, <1>3, <1>4 DEF VerificationRow, Calls
<1>6. /\ made.run = call[c].run /\ made.digest = call[c].digest
      /\ made.content = Candidate(made.digest)
  OBVIOUS
<1> HIDE DEF made
<1>7. verification \in Seq(VerificationRow)
  BY <1>1 DEF TypeOK
<1>8. /\ verification' \in Seq(VerificationRow) /\ v \in Nat /\ v # 0
      /\ DOMAIN verification' = DOMAIN verification \cup {v} /\ v \notin DOMAIN verification
      /\ \A i \in DOMAIN verification : verification'[i] = verification[i]
      /\ verification'[v] = made
  BY <1>1, <1>5, <1>7, AppendFacts
<1> HIDE DEF v
<1>9. ASSUME call' \in [Calls -> CallRow] PROVE TablesOK' /\ TablesGrow
  <2>1. TypeOK'
    BY <1>1, <1>8, <1>9 DEF TypeOK, promiseVars
  <2>2. ReviewsCount' /\ ReviewedIsApproved' /\ KeysHold' /\ PublishedBytesAreServed'
    BY <1>1 DEF TablesOK, ReviewsCount, ReviewedIsApproved, KeysHold, PublishedBytesAreServed
  <2>3. VerificationsHold'
    <3>1. ASSUME NEW i \in DOMAIN verification'
          PROVE  verification'[i].content = Candidate(verification'[i].digest)
      <4>1. CASE i = v
        BY <1>6, <1>8, <4>1
      <4>2. CASE i \in DOMAIN verification
        BY <1>1, <1>8, <4>2 DEF TablesOK, VerificationsHold
      <4> QED BY <1>8, <4>1, <4>2
    <3> QED BY <3>1 DEF VerificationsHold, Candidate, Selected
  <2>4. ReleasesHold'
    BY <1>1, <1>8 DEF TablesOK, ReleasesHold
  <2>5. ReleasesAreEarned'
    BY <1>1, <1>8, ReleasesStayEarned
  <2> QED BY <1>1, <1>8, <2>1, <2>2, <2>3, <2>4, <2>5 DEF TablesOK, TablesGrow
<1>10. ASSUME NEW i \in Nat, call' = Answered(c, i), call[c].kind # "publish" \/ i = 0
       PROVE  PublicationOK'
  <2>1. /\ call' \in [Calls -> CallRow]
        /\ call'[c].at = "ended" /\ call'[c].kind = call[c].kind
        /\ call'[c].answered = i
        /\ \A d \in Calls \ {c} : call'[d] = call[d]
    BY <1>1, <1>10, AnsweredRow
  <2>2. CallOK(c)'
    BY <1>10, <2>1 DEF CallOK, CallTyped, CallVerified, CallServed, CallNamed, InProgress, Verified
  <2> QED BY <1>9, <2>1, <2>2, OneCallMoves
<1>11. CASE call[c].kind = "publish" /\ call[c].passed
  <2> DEFINE row == [call[c] EXCEPT !.at = "upload", !.verification = v]
  <2>1. call' = [call EXCEPT ![c] = row]
    BY <1>1, <1>11 DEF TypeOK
  <2>2. call[c] \in CallRow
    BY <1>1, CallFields
  <2>3. row \in CallRow
    BY <1>8, <2>2 DEF CallRow, Steps
  <2>4. /\ row.at = "upload" /\ row.kind = "publish" /\ row.run = call[c].run
        /\ row.key = call[c].key /\ row.verification = v /\ row.reads = call[c].reads
        /\ row.digest = call[c].digest
    BY <1>11, <2>2 DEF CallRow
  <2> HIDE DEF row
  <2>5. /\ call' \in [Calls -> CallRow] /\ call'[c] = row
        /\ \A d \in Calls \ {c} : call'[d] = call[d]
    BY <1>1, <2>1, <2>3 DEF TypeOK
  <2>6. CallTyped(c)' /\ CallServed(c)' /\ CallNamed(c)'
    BY <1>2, <1>11, <2>4, <2>5 DEF CallTyped, CallServed, CallNamed, InProgress
  <2>7. CallVerified(c)'
    BY <1>6, <1>8, <2>4, <2>5 DEF CallVerified, Candidate, Selected
  <2> QED BY <1>9, <2>5, <2>6, <2>7, OneCallMoves DEF CallOK
<1>12. CASE call[c].kind = "publish" /\ ~call[c].passed
  BY <1>1, <1>10, <1>12
<1>13. CASE call[c].kind # "publish"
  BY <1>1, <1>8, <1>10, <1>13
<1> QED BY <1>11, <1>12, <1>13

LEMMA SaveVerificationOK ==
    ASSUME PublicationOK, NEW c \in Calls, SaveVerification(c)
    PROVE  PublicationOK'
  BY ReuseVerificationOK, InsertVerificationOK DEF SaveVerification

LEMMA SaveInstallationOK ==
    ASSUME PublicationOK, NEW c \in Calls, SaveInstallation(c)
    PROVE  PublicationOK'
<1> DEFINE status == IF call[c].passed \/ call[c].selfHosted THEN "verified" ELSE "pending_self_host"
           made == [release |-> call[c].release, content |-> release[call[c].release].content,
                    key |-> call[c].key, selfHosted |-> call[c].selfHosted,
                    status |-> status, request |-> c]
<1>1. /\ TypeOK /\ TablesOK /\ CallOK(c) /\ call[c].at = "save" /\ call[c].kind = "install"
      /\ UNCHANGED <<capability, review, evidence, verification, release, keyed, bucket, promiseVars>>
      /\ \/ installation' = Append(installation, made) /\ call' = Answered(c, Len(installation) + 1)
         \/ UNCHANGED installation /\ \E i \in InstallationsKeyed(call[c].key) : call' = Answered(c, i)
  BY DEF PublicationOK, TablesOK, SaveInstallation
<1>2. /\ call[c].key \in Keys /\ call[c].release \in DOMAIN release /\ call[c].release \in Nat
      /\ call[c].selfHosted \in BOOLEAN
  BY <1>1, CallFields DEF CallOK, CallTyped, InProgress
<1>3. release[call[c].release].content \in Contents
  <2>1. release[call[c].release] \in ReleaseRow
    BY <1>1, <1>2 DEF TypeOK
  <2> QED BY <2>1 DEF ReleaseRow
<1>4. status \in {"verified", "pending_self_host"}
  OBVIOUS
<1> HIDE DEF status
<1>5. made \in InstallationRow
  BY <1>2, <1>3, <1>4 DEF InstallationRow, Calls
<1> HIDE DEF made
<1>6. installation \in Seq(InstallationRow)
  BY <1>1 DEF TypeOK
<1>7. ASSUME NEW i \in Nat, call' = Answered(c, i), installation' \in Seq(InstallationRow)
      PROVE  PublicationOK'
  <2>1. /\ call' \in [Calls -> CallRow]
        /\ call'[c].at = "ended" /\ call'[c].kind = call[c].kind
        /\ \A d \in Calls \ {c} : call'[d] = call[d]
    BY <1>1, <1>7, AnsweredRow
  <2>2. TypeOK'
    BY <1>1, <1>7, <2>1 DEF TypeOK, promiseVars
  <2>3. ReviewsCount' /\ ReviewedIsApproved'
    BY <1>1 DEF TablesOK, ReviewsCount, ReviewedIsApproved
  <2>4. KeysHold' /\ VerificationsHold' /\ ReleasesHold' /\ PublishedBytesAreServed'
    BY <1>1 DEF TablesOK, KeysHold, VerificationsHold, ReleasesHold, PublishedBytesAreServed,
                Candidate, Selected
  <2>5. ReleasesAreEarned'
    BY <1>1, ReleasesStayEarned
  <2>6. TablesOK' /\ TablesGrow
    BY <1>1, <2>2, <2>3, <2>4, <2>5 DEF TablesOK, TablesGrow
  <2>7. CallOK(c)'
    BY <1>1, <2>1 DEF CallOK, CallTyped, CallVerified, CallServed, CallNamed, InProgress, Verified
  <2> QED BY <2>1, <2>6, <2>7, OneCallMoves
<1>8. CASE installation' = Append(installation, made) /\ call' = Answered(c, Len(installation) + 1)
  <2>1. installation' \in Seq(InstallationRow) /\ Len(installation) + 1 \in Nat
    BY <1>5, <1>6, <1>8, AppendFacts
  <2> QED BY <1>7, <1>8, <2>1
<1>9. CASE UNCHANGED installation /\ \E i \in InstallationsKeyed(call[c].key) : call' = Answered(c, i)
  <2>1. PICK i \in InstallationsKeyed(call[c].key) : call' = Answered(c, i)
    BY <1>9
  <2>2. i \in Nat
    BY <1>6, <2>1 DEF InstallationsKeyed
  <2> QED BY <1>6, <1>7, <1>9, <2>1, <2>2
<1> QED BY <1>1, <1>8, <1>9

\* A run's capabilities stand, when it is published, as they were verified; and
\* nobody changes state in a release without a reviewer's approval.
LEMMA PublishableApproved ==
    ASSUME TablesOK, NEW v \in DOMAIN verification, Publishable(v),
           NEW c \in Selected(verification[v].digest)
    PROVE  /\ capability[c] = verification[v].digest[c]
           /\ TierOf[c] = "R1" => Approved(verification[v].digest, c, Roles)
           /\ TierOf[c] = "R2" => Approved(verification[v].digest, c, {"owner"})
<1> DEFINE digest == verification[v].digest
<1>1. digest = DigestOf(verification[v].run) /\ UnreviewedCaps(digest) = {}
  BY DEF Publishable
<1>2. c \in CapsOf(verification[v].run) /\ c \in Caps /\ digest[c] = capability[c]
  BY <1>1 DEF Selected, DigestOf, CapsOf
<1>3. TierOf[c] \in {"R1", "R2"} => capability[c].status = "reviewed"
  <2>1. c \notin UnreviewedCaps(digest) /\ c \in Selected(digest)
    BY <1>1
  <2> HIDE DEF digest
  <2> QED BY <1>2, <2>1 DEF UnreviewedCaps
<1> HIDE DEF digest
<1>4. TierOf[c] \in {"R1", "R2"} =>
          \E row \in review : /\ row.cap = c /\ row.action = "approve"
                              /\ row.version = digest[c].version - 1
                              /\ row.role \in Roles
                              /\ TierOf[c] = "R2" => row.role = "owner"
  BY <1>2, <1>3 DEF TablesOK, ReviewedIsApproved
<1>5. /\ TierOf[c] = "R1" => Approved(digest, c, Roles)
      /\ TierOf[c] = "R2" => Approved(digest, c, {"owner"})
  BY <1>4 DEF Approved
<1> QED BY <1>2, <1>5 DEF digest

LEMMA PublishReleaseOK ==
    ASSUME PublicationOK, NEW c \in Calls, PublishRelease(c)
    PROVE  PublicationOK'
<1> DEFINE v == call[c].verification
           existing == ReleasesOf(verification[v].run)
           i == IF existing = {} THEN Len(release) + 1 ELSE CHOOSE j \in existing : TRUE
           made == [run |-> verification[v].run, digest |-> verification[v].digest,
                    content |-> verification[v].content, verification |-> v]
           entry == [input |-> KeyInput(c), release |-> i]
           row == [call[c] EXCEPT !.at = "answer", !.release = i]
<1>1. /\ TypeOK /\ TablesOK /\ CallOK(c) /\ call[c].at = "publish"
      /\ keyed[call[c].key].input = None /\ Publishable(v)
      /\ release' = IF existing # {} THEN release ELSE Append(release, made)
      /\ keyed' = [keyed EXCEPT ![call[c].key] = entry]
      /\ call' = PublishedNow(c, i)
      /\ UNCHANGED <<capability, review, evidence, verification, installation, bucket, promiseVars>>
  BY DEF PublicationOK, TablesOK, PublishRelease
<1>2. /\ call[c].run \in Runs /\ call[c].key \in Keys /\ v \in Nat
      /\ call[c].kind = "publish" /\ v \in DOMAIN verification
      /\ verification[v].content = Candidate(call[c].digest)
      /\ verification[v].run = call[c].run
      /\ Candidate(call[c].digest) \in bucket
  BY <1>1, CallFields DEF CallOK, CallTyped, CallVerified, CallServed, InProgress, Verified
<1>3. /\ release \in Seq(ReleaseRow) /\ verification[v] \in VerificationRow
      /\ call[c] \in CallRow
  BY <1>1, <1>2, CallFields DEF TypeOK
<1>4. made \in ReleaseRow
  BY <1>2, <1>3 DEF ReleaseRow, VerificationRow
<1>5. /\ made.run = verification[v].run /\ made.digest = verification[v].digest
      /\ made.content = verification[v].content /\ made.verification = v
  OBVIOUS
<1> HIDE DEF made
<1>6. /\ existing # {} => release' = release /\ release[i].verification = v
      /\ existing = {} => release' = Append(release, made)
  BY <1>1 DEF PublishRelease, made
<1>7. /\ Append(release, made) \in Seq(ReleaseRow) /\ Len(release) \in Nat
      /\ DOMAIN Append(release, made) = DOMAIN release \cup {Len(release) + 1}
      /\ Len(release) + 1 \notin DOMAIN release
      /\ \A j \in DOMAIN release : Append(release, made)[j] = release[j]
      /\ Append(release, made)[Len(release) + 1] = made
  BY <1>3, <1>4, AppendFacts
<1>8. i \in Nat
  <2>1. \A j \in existing : j \in Nat
    BY <1>3 DEF ReleasesOf
  <2> QED BY <1>7, <2>1
<1>9. /\ existing # {} => i \in DOMAIN release /\ release[i].run = verification[v].run
      /\ existing = {} => i = Len(release) + 1
  BY DEF ReleasesOf
<1> HIDE DEF i
<1>10. KeyInput(c) \in [run : Runs, verification : Nat] /\ KeyInput(c) # None
  BY <1>2, PublicationAssumption DEF KeyInput
<1>11. /\ keyed'[call[c].key] = entry
       /\ \A k \in Keys \ {call[c].key} : keyed'[k] = keyed[k]
       /\ keyed' \in [Keys -> [input : [run : Runs, verification : Nat] \cup {None}, release : Nat]]
  BY <1>1, <1>2, <1>8, <1>10 DEF TypeOK
<1>12. /\ entry.input = KeyInput(c) /\ entry.release = i
       /\ KeyInput(c).run = call[c].run /\ KeyInput(c).verification = v
  BY DEF KeyInput
<1> HIDE DEF entry
<1>13. /\ row.at = "answer" /\ row.kind = call[c].kind /\ row.run = call[c].run
       /\ row.key = call[c].key /\ row.digest = call[c].digest
       /\ row.verification = v /\ row.release = i
  BY <1>3, <1>8 DEF CallRow
<1>14. row \in CallRow
  BY <1>3, <1>8 DEF CallRow, Steps
<1>15. call' = [call EXCEPT ![c] = row]
  BY <1>1 DEF PublishedNow, TypeOK
<1> HIDE DEF row
<1>16. call' \in [Calls -> CallRow] /\ call'[c] = row /\ \A d \in Calls \ {c} : call'[d] = call[d]
  BY <1>1, <1>14, <1>15 DEF TypeOK
<1>17. /\ release' \in Seq(ReleaseRow) /\ DOMAIN release \subseteq DOMAIN release'
       /\ \A j \in DOMAIN release' :
             \/ j \in DOMAIN release /\ release'[j] = release[j]
             \/ /\ existing = {} /\ j = Len(release) + 1
                /\ j \notin DOMAIN release /\ release'[j] = made
  <2>1. CASE existing # {}
    BY <1>1, <1>3, <2>1
  <2>2. CASE existing = {}
    BY <1>1, <1>7, <2>2
  <2> QED BY <2>1, <2>2
<1>18. \A j \in DOMAIN release : release[j].run = made.run => existing # {}
  BY <1>5 DEF ReleasesOf
<1> HIDE DEF existing
<1>19. i \in DOMAIN release' /\ release'[i].run = call[c].run /\ release'[i].verification = v
  <2>1. CASE existing # {}
    BY <1>2, <1>9, <1>6, <2>1
  <2>2. CASE existing = {}
    BY <1>2, <1>5, <1>7, <1>9, <1>6, <2>2
  <2> QED BY <2>1, <2>2
<1>20. TypeOK'
  BY <1>1, <1>11, <1>16, <1>17 DEF TypeOK, promiseVars
<1>21. ReviewsCount' /\ ReviewedIsApproved' /\ VerificationsHold'
  BY <1>1 DEF TablesOK, ReviewsCount, ReviewedIsApproved, VerificationsHold, Candidate, Selected
<1>22. ReleasesHold'
  <2>1. \A j \in DOMAIN release' : release'[j].verification \in DOMAIN verification
    BY <1>1, <1>2, <1>5, <1>17 DEF TablesOK, ReleasesHold
  <2>2. ASSUME NEW j \in DOMAIN release', NEW k \in DOMAIN release',
               release'[j].run = release'[k].run
        PROVE  j = k
    BY <1>1, <1>17, <1>18, <2>2 DEF TablesOK, ReleasesHold
  <2> QED BY <1>1, <2>1, <2>2 DEF ReleasesHold
<1>23. ReleasesAreEarned'
  <2>1. ASSUME NEW j \in DOMAIN release'
        PROVE  LET m == release'[j]
                   w == verification[m.verification]
               IN  /\ w.eligible /\ w.run = m.run /\ w.digest = m.digest /\ w.content = m.content
                   /\ m.content = Candidate(m.digest)
                   /\ \A d \in Selected(m.digest) :
                       /\ TierOf[d] = "R1" => Approved(m.digest, d, Roles)
                       /\ TierOf[d] = "R2" => Approved(m.digest, d, {"owner"})
    <3>1. CASE j \in DOMAIN release /\ release'[j] = release[j]
      BY <1>1, <3>1 DEF TablesOK, ReleasesAreEarned
    <3>2. CASE release'[j] = made
      <4>1. verification[v].eligible
        BY <1>1 DEF Publishable
      <4>2. verification[v].content = Candidate(verification[v].digest)
        BY <1>1, <1>2 DEF TablesOK, VerificationsHold
      <4>3. \A d \in Selected(verification[v].digest) :
                /\ TierOf[d] = "R1" => Approved(verification[v].digest, d, Roles)
                /\ TierOf[d] = "R2" => Approved(verification[v].digest, d, {"owner"})
        BY <1>1, <1>2, PublishableApproved
      <4> QED BY <1>5, <3>2, <4>1, <4>2, <4>3
    <3> QED BY <1>17, <3>1, <3>2
  <2> QED BY <1>1, <2>1 DEF ReleasesAreEarned, Candidate, Selected, Approved
<1>24. PublishedBytesAreServed'
  BY <1>1, <1>2, <1>5, <1>17 DEF TablesOK, PublishedBytesAreServed
<1>25. KeysHold'
  <2>1. ASSUME NEW k \in Keys, keyed'[k].input # None
        PROVE  /\ keyed'[k].release \in DOMAIN release'
               /\ release'[keyed'[k].release].run = keyed'[k].input.run
               /\ release'[keyed'[k].release].verification = keyed'[k].input.verification
    <3>1. CASE k = call[c].key
      BY <1>11, <1>12, <1>19, <3>1
    <3>2. CASE k # call[c].key
      BY <1>1, <1>11, <1>17, <2>1, <3>2 DEF TablesOK, KeysHold
    <3> QED BY <3>1, <3>2
  <2> QED BY <2>1 DEF KeysHold
<1>26. \A j \in DOMAIN release : release'[j] = release[j]
  BY <1>17
<1>27. TablesOK' /\ TablesGrow
  BY <1>1, <1>17, <1>20, <1>21, <1>22, <1>23, <1>24, <1>25, <1>26 DEF TablesOK, TablesGrow
<1>28. CallTyped(c)' /\ CallNamed(c)'
  BY <1>2, <1>13, <1>16, <1>19 DEF CallTyped, CallNamed, InProgress
<1>29. CallVerified(c)' /\ CallServed(c)'
  <2>1. Candidate(call[c].digest)' = Candidate(call[c].digest)
    BY <1>13, <1>16 DEF Candidate, Selected
  <2> QED BY <1>1, <1>2, <1>13, <1>16, <2>1 DEF CallVerified, CallServed
<1> QED BY <1>16, <1>27, <1>28, <1>29, OneCallMoves DEF CallOK

-----------------------------------------------------------------------------
(* The theorems.                                                            *)

LEMMA CallStepOK ==
    ASSUME PublicationOK, NEW c \in Calls, CallStep(c)
    PROVE  PublicationOK'
<1>1. ASSUME NEW reply \in attested, HearVerifier(c, reply) PROVE PublicationOK'
  BY <1>1, HearVerifierOK
<1> QED
  BY <1>1, ReadLatestOK, AskVerifierOK, SaveVerificationOK, UploadArtifactOK, ReadArtifactOK,
     ReplayPublicationOK, PublishReleaseOK, AnswerPublicationOK, SaveInstallationOK, GiveUpOK
     DEF CallStep

LEMMA InitOK == Init => PublicationOK
<1> SUFFICES ASSUME Init PROVE PublicationOK
  OBVIOUS
<1>1. \A c \in Caps : capability[c] =
          [status |-> "proposed", bound |-> TierOf[c] = "R0", version |-> 1]
  BY DEF Init
<1>2. \A c \in Caps : capability[c] \in CapabilityRow
  <2>1. ASSUME NEW c \in Caps PROVE capability[c] \in CapabilityRow
    <3> DEFINE fixed == TierOf[c] = "R0"
    <3>1. capability[c] = [status |-> "proposed", bound |-> fixed, version |-> 1] /\ fixed \in BOOLEAN
      BY <1>1
    <3> HIDE DEF fixed
    <3>2. 1 \in 1 .. MaxReviews + 1
      BY PublicationAssumption
    <3> QED BY <3>1, <3>2 DEF CapabilityRow
  <2> QED BY <2>1
<1>3. capability \in [Caps -> CapabilityRow]
  <2>1. capability = [c \in Caps |-> capability[c]]
    BY DEF Init
  <2> QED BY <1>2, <2>1
<1>4. Idle \in CallRow /\ \A c \in Calls : call[c] = Idle
  BY RequestRow DEF Init, Idle, Steps
<1>5. Idle.at = "idle" /\ Idle.reads = 0
  BY DEF Idle, Request
<1> HIDE DEF Idle
<1>6. TypeOK
  <2>1. call \in [Calls -> CallRow]
    BY <1>4 DEF Init
  <2>2. keyed \in [Keys -> [input : [run : Runs, verification : Nat] \cup {None}, release : Nat]]
    BY DEF Init, Unused
  <2>3. PromiseTyped
    <3>1. asked \in SUBSET Requests /\ attested \in SUBSET Replies /\ broken \in BOOLEAN
      BY DEF Init, PromiseInit
    <3>2. evaluated \in [Requests -> 0 .. MaxDeliveries]
      BY PublicationAssumption DEF Init, PromiseInit
    <3> QED BY <3>1, <3>2 DEF PromiseTyped
  <2>4. /\ verification \in Seq(VerificationRow) /\ release \in Seq(ReleaseRow)
        /\ installation \in Seq(InstallationRow)
    BY DEF Init
  <2>5. review \in SUBSET ReviewRow /\ evidence \in SUBSET Runs /\ bucket \in SUBSET Contents
    BY DEF Init
  <2> QED BY <1>3, <2>1, <2>2, <2>3, <2>4, <2>5 DEF TypeOK, PromiseTyped
<1>7. ReviewsCount
  <2>1. IsFiniteSet(review) /\ Cardinality(review) = 0
    BY FS_EmptySet DEF Init
  <2> QED BY <1>1, <2>1 DEF ReviewsCount, Init
<1>8. ReviewedIsApproved
  <2>1. ASSUME NEW c \in Caps PROVE capability[c].status = "proposed"
    <3> DEFINE fixed == TierOf[c] = "R0"
    <3>1. capability[c] = [status |-> "proposed", bound |-> fixed, version |-> 1]
      BY <1>1
    <3> HIDE DEF fixed
    <3> QED BY <3>1
  <2> QED BY <2>1 DEF ReviewedIsApproved
<1>9. KeysHold /\ VerificationsHold /\ ReleasesHold /\ ReleasesAreEarned /\ PublishedBytesAreServed
  BY DEF Init, Unused, KeysHold, VerificationsHold, ReleasesHold, ReleasesAreEarned, PublishedBytesAreServed
<1>10. \A c \in Calls : CallOK(c)
  BY <1>4, <1>5 DEF CallOK, CallTyped, CallVerified, CallServed, CallNamed, InProgress, Verified
<1> QED BY <1>6, <1>7, <1>8, <1>9, <1>10 DEF PublicationOK, TablesOK

LEMMA StutterOK == PublicationOK /\ UNCHANGED vars => PublicationOK'
<1> SUFFICES ASSUME PublicationOK, UNCHANGED vars PROVE PublicationOK'
  OBVIOUS
<1>1. OnlyCall /\ call' = call /\ call' \in [Calls -> CallRow]
  BY DEF vars, OnlyCall, PublicationOK, TablesOK, TypeOK
<1>2. TablesOK' /\ TablesGrow
  BY <1>1, TablesKept DEF PublicationOK
<1> QED BY <1>1, <1>2, NoCallMoves

\* The invariant holds: see the head of this module.
THEOREM PublicationInvariant == Spec => []PublicationOK
<1>1. PublicationOK /\ [Next]_vars => PublicationOK'
  <2> SUFFICES ASSUME PublicationOK, [Next]_vars PROVE PublicationOK'
    OBVIOUS
  <2>1. ASSUME NEW c \in Caps, NEW role \in Roles, ApproveCapability(c, role) PROVE PublicationOK'
    BY <2>1, ApproveCapabilityOK
  <2>2. ASSUME NEW c \in Caps, BlockCapability(c) PROVE PublicationOK'
    BY <2>2, BlockCapabilityOK
  <2>3. ASSUME NEW r \in Runs, EvidenceExpires(r) PROVE PublicationOK'
    BY <2>3, EvidenceExpiresOK
  <2>4. ASSUME NEW c \in Calls, NEW kind \in {"publish", "verify"}, NEW r \in Runs,
               NEW k \in Keys \cup {None}, StartRelease(c, kind, r, k)
        PROVE  PublicationOK'
    BY <2>4, StartReleaseOK
  <2>5. ASSUME NEW c \in Calls, NEW i \in DOMAIN release, NEW k \in Keys,
               NEW selfHosted \in BOOLEAN, StartInstallation(c, i, k, selfHosted)
        PROVE  PublicationOK'
    BY <2>5, StartInstallationOK
  <2>6. ASSUME NEW c \in Calls, CallStep(c) PROVE PublicationOK'
    BY <2>6, CallStepOK
  <2>7. CASE Serve /\ UNCHANGED <<databaseVars, bucket, call, broken>>
    BY <2>7, ServeOK
  <2>8. ASSUME NEW k \in Keys, KeyExpires(k) PROVE PublicationOK'
    BY <2>8, KeyExpiresOK
  <2>9. CASE UNCHANGED vars
    BY <2>9, StutterOK
  <2> QED BY <2>1, <2>2, <2>3, <2>4, <2>5, <2>6, <2>7, <2>8, <2>9 DEF Next
<1> QED BY <1>1, InitOK, PTL DEF Spec

\* Every table and every request keep their shape, review counters included:
\* a capability is never at a version its reviews do not account for.
THEOREM PublicationTypeCorrect == Spec => []TypeOK
<1>1. PublicationOK => TypeOK
  BY DEF PublicationOK, TablesOK
<1> QED BY <1>1, PublicationInvariant, PTL

\* Every release was verified as the bytes it is and approved as it stands,
\* however many requests and reviewers work beside its publication.
THEOREM ReleasesEarned == Spec => []ReleasesAreEarned
<1>1. PublicationOK => ReleasesAreEarned
  BY DEF PublicationOK, TablesOK
<1> QED BY <1>1, PublicationInvariant, PTL

\* No release is published before its bytes can be loaded, whatever was lost,
\* given up or repeated on the way.
THEOREM PublishedBytesServed == Spec => []PublishedBytesAreServed
<1>1. PublicationOK => PublishedBytesAreServed
  BY DEF PublicationOK, TablesOK
<1> QED BY <1>1, PublicationInvariant, PTL

\* A run has one release, whatever keys expired between its publications; a key
\* that has not expired answers with the release of what it was used for; and
\* nobody is answered with another run's release.
THEOREM KeysNameReleases == Spec => []KeyNamesOneRelease
<1>1. PublicationOK => KeyNamesOneRelease
  <2> SUFFICES ASSUME PublicationOK PROVE KeyNamesOneRelease
    OBVIOUS
  <2>1. ReleasesHold /\ KeysHold
    BY DEF PublicationOK, TablesOK
  <2>2. \A c \in Calls :
            call[c].at = "ended" /\ call[c].kind = "publish" /\ call[c].answered # 0 =>
                release[call[c].answered].run = call[c].run
    BY DEF PublicationOK, CallOK, CallNamed
  <2> QED BY <2>1, <2>2 DEF KeyNamesOneRelease, ReleasesHold, KeysHold
<1> QED BY <1>1, PublicationInvariant, PTL

\* The one step that inserts a release takes capabilities as they are now.
LEMMA PublishReleaseSelects ==
    ASSUME PublicationOK, NEW c \in Calls, PublishRelease(c),
           NEW i \in DOMAIN release' \ DOMAIN release, NEW d \in Selected(release'[i].digest)
    PROVE  capability[d].status # "blocked"
<1> DEFINE v == call[c].verification
           made == [run |-> verification[v].run, digest |-> verification[v].digest,
                    content |-> verification[v].content, verification |-> v]
<1>1. TablesOK /\ Publishable(v) /\ (release' = release \/ release' = Append(release, made))
  BY DEF PublicationOK, PublishRelease
<1>2. call[c].at = "publish" /\ CallOK(c)
  BY DEF PublicationOK, PublishRelease
<1>3. v \in DOMAIN verification
  BY <1>2 DEF CallOK, CallVerified, Verified
<1>4. release \in Seq(ReleaseRow)
  BY <1>1 DEF TablesOK, TypeOK
<1>5. made.digest = verification[v].digest
  OBVIOUS
<1> HIDE DEF made
<1>6. release'[i] = made
  BY <1>1, <1>4
<1>7. d \in Selected(verification[v].digest) /\ d \in DOMAIN verification[v].digest
  BY <1>5, <1>6 DEF Selected
<1>8. capability[d] = verification[v].digest[d]
  BY <1>1, <1>3, <1>7, PublishableApproved
<1> QED BY <1>7, <1>8 DEF Selected

\* A block is never overtaken: what is blocked when a release is inserted is
\* not in it, though it was verified and uploaded before the block.
THEOREM BlocksAreKept == Spec => BlockedIsNotPublished
<1> DEFINE Heeded == \A i \in DOMAIN release' \ DOMAIN release :
               \A c \in Selected(release'[i].digest) : capability[c].status # "blocked"
<1>1. PublicationOK /\ [Next]_vars => [Heeded]_vars
  <2> SUFFICES ASSUME PublicationOK, Next PROVE Heeded
    OBVIOUS
  <2>1. ASSUME release' = release PROVE Heeded
    BY <2>1
  <2>2. ASSUME NEW c \in Calls, PublishRelease(c) PROVE Heeded
    BY <2>2, PublishReleaseSelects
  <2> HIDE DEF Heeded
  <2>3. ASSUME NEW c \in Calls, CallStep(c) PROVE Heeded
    <3>1. ASSUME NEW reply \in attested, HearVerifier(c, reply) PROVE Heeded
      BY <2>1, <3>1 DEF HearVerifier, OnlyCall, databaseVars
    <3>2. ASSUME SaveVerification(c) PROVE release' = release
      BY <3>2 DEF SaveVerification, ReuseVerification, InsertVerification, OnlyCall, databaseVars
    <3>3. ASSUME SaveInstallation(c) PROVE release' = release
      BY <3>3 DEF SaveInstallation
    <3>4. ASSUME \/ ReadLatest(c) \/ AskVerifier(c) \/ UploadArtifact(c) \/ ReadArtifact(c)
                 \/ ReplayPublication(c) \/ AnswerPublication(c) \/ GiveUp(c)
          PROVE  release' = release
      BY <3>4 DEF ReadLatest, AskVerifier, UploadArtifact, ReadArtifact, ReplayPublication,
                  AnswerPublication, GiveUp, OnlyCall, databaseVars
    <3> QED BY <2>1, <2>2, <2>3, <3>1, <3>2, <3>3, <3>4 DEF CallStep
  <2>4. ASSUME NEW c \in Caps, NEW role \in Roles, ApproveCapability(c, role) PROVE Heeded
    BY <2>1, <2>4 DEF ApproveCapability, Reviewed
  <2>5. ASSUME NEW c \in Caps, BlockCapability(c) PROVE Heeded
    BY <2>1, <2>5 DEF BlockCapability, Reviewed
  <2>6. ASSUME NEW r \in Runs, EvidenceExpires(r) PROVE Heeded
    BY <2>1, <2>6 DEF EvidenceExpires
  <2>7. ASSUME NEW c \in Calls, NEW kind \in {"publish", "verify"}, NEW r \in Runs,
               NEW k \in Keys \cup {None}, StartRelease(c, kind, r, k)
        PROVE  Heeded
    BY <2>1, <2>7 DEF StartRelease, OnlyCall, databaseVars
  <2>8. ASSUME NEW c \in Calls, NEW i \in DOMAIN release, NEW k \in Keys,
               NEW selfHosted \in BOOLEAN, StartInstallation(c, i, k, selfHosted)
        PROVE  Heeded
    BY <2>1, <2>8 DEF StartInstallation, OnlyCall, databaseVars
  <2>9. ASSUME UNCHANGED <<databaseVars, bucket, call, broken>> PROVE Heeded
    BY <2>1, <2>9 DEF databaseVars
  <2>10. ASSUME NEW k \in Keys, KeyExpires(k) PROVE Heeded
    BY <2>1, <2>10 DEF KeyExpires
  <2> QED BY <2>3, <2>4, <2>5, <2>6, <2>7, <2>8, <2>9, <2>10 DEF Next
<1> HIDE DEF Heeded
<1>2. Spec => [][Heeded]_vars
  BY <1>1, PublicationInvariant, PTL DEF Spec
<1> QED BY <1>2 DEF BlockedIsNotPublished, Heeded

=============================================================================
