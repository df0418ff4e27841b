------------------------- MODULE ImageDeleterProofs -------------------------
(***************************************************************************)
(* Proofs about ImageDeleter, for every set of jobs and images and every   *)
(* bound.                                                                  *)
(***************************************************************************)
EXTENDS ImageDeleter, TLAPS

\* Only references by tag come to the deletion of a tag.
TagStepHasTag == \A j \in Jobs : pc[j] = "tag" => ref[j] = Tag

\* A reference by digest is resolved to itself.
DigestIsRef ==
    \A j \in Jobs : (pc[j] = "manifest" /\ ref[j] # Tag) => digest[j] = ref[j]

TargetIsRef ==
    \A j \in Jobs : ref[j] # Tag => target[j] \in {ref[j], None}

\* A tag that still names what a job is to remove has been read as that: had it
\* moved since, the push back would have ended the job's claim.
ReadIsTarget ==
    \A j \in Jobs :
        (pc[j] \in {"tag", "manifest"} /\ target[j] # None /\ tag = target[j]) =>
            digest[j] = tag

Links == TagStepHasTag /\ DigestIsRef /\ TargetIsRef /\ ReadIsTarget

IInv == TypeOK /\ Links /\ NothingLeftBehind

USE DEF repository, vars

LEMMA InitIInv == Init => IInv
BY ImageDeleterAssumption
   DEF Init, IInv, TypeOK, Links, NothingLeftBehind, Registries, Steps,
       TagStepHasTag, DigestIsRef, TargetIsRef, ReadIsTarget

-----------------------------------------------------------------------------
(* Type correctness.                                                       *)

LEMMA TypeStep == ASSUME TypeOK, Next PROVE TypeOK'
<1> USE ImageDeleterAssumption DEF TypeOK, Registries, Steps, Goto, FirstCall
<1>1. ASSUME Push PROVE TypeOK'
  BY <1>1 DEF Push
<1>2. ASSUME NEW j \in Jobs, Request(j) PROVE TypeOK'
  BY <1>2 DEF Request, Resolve
<1>3. ASSUME NEW j \in Jobs, Retry(j) PROVE TypeOK'
  BY <1>3 DEF Retry
<1>4. ASSUME NEW j \in Jobs, GetDescriptor(j) PROVE TypeOK'
  BY <1>4 DEF GetDescriptor, AfterGet, Resolve
<1>5. ASSUME NEW j \in Jobs, DeleteTag(j) PROVE TypeOK'
  BY <1>5 DEF DeleteTag, Untag, AfterTag
<1>6. ASSUME NEW j \in Jobs, DeleteManifest(j) PROVE TypeOK'
  BY <1>6 DEF DeleteManifest, RemoveManifest
<1>7. ASSUME NEW j \in Jobs, ManifestRefused(j) PROVE TypeOK'
  BY <1>7 DEF ManifestRefused, AfterRefusal
<1>8. ASSUME NEW j \in Jobs, GetAuthorizationToken(j) PROVE TypeOK'
  BY <1>8 DEF GetAuthorizationToken
<1>9. ASSUME NEW j \in Jobs, DeleteRepo(j) PROVE TypeOK'
  BY <1>9 DEF DeleteRepo, RemoveRepository
<1>10. ASSUME NEW j \in Jobs, Fail(j) PROVE TypeOK'
  <2>1. CASE FailBefore(j)
    BY <1>10, <2>1 DEF Fail, FailBefore
  <2>2. CASE FailAfter(j)
    BY <1>10, <2>2 DEF Fail, FailAfter, Untag, RemoveManifest, RemoveRepository
  <2> QED
    BY <1>10, <2>1, <2>2 DEF Fail
<1> QED
  BY <1>1, <1>2, <1>3, <1>4, <1>5, <1>6, <1>7, <1>8, <1>9, <1>10 DEF Next, Step

-----------------------------------------------------------------------------
(* What a request knows of its reference.                                  *)

LEMMA LinksStep == ASSUME TypeOK, Links, Next PROVE Links'
<1> USE ImageDeleterAssumption
    DEF TypeOK, Steps, Goto, FirstCall,
        Links, TagStepHasTag, DigestIsRef, TargetIsRef, ReadIsTarget
<1>1. ASSUME Push PROVE Links'
  BY <1>1 DEF Push
<1>2. ASSUME NEW j \in Jobs, Request(j) PROVE Links'
  BY <1>2 DEF Request, Resolve
<1>3. ASSUME NEW j \in Jobs, Retry(j) PROVE Links'
  BY <1>3 DEF Retry
<1>4. ASSUME NEW j \in Jobs, GetDescriptor(j) PROVE Links'
  BY <1>4 DEF GetDescriptor, AfterGet, Resolve
<1>5. ASSUME NEW j \in Jobs, DeleteTag(j) PROVE Links'
  BY <1>5 DEF DeleteTag, Untag, AfterTag
<1>6. ASSUME NEW j \in Jobs, DeleteManifest(j) PROVE Links'
  BY <1>6 DEF DeleteManifest, RemoveManifest
<1>7. ASSUME NEW j \in Jobs, ManifestRefused(j) PROVE Links'
  BY <1>7 DEF ManifestRefused, AfterRefusal
<1>8. ASSUME NEW j \in Jobs, GetAuthorizationToken(j) PROVE Links'
  BY <1>8 DEF GetAuthorizationToken
<1>9. ASSUME NEW j \in Jobs, DeleteRepo(j) PROVE Links'
  BY <1>9 DEF DeleteRepo, RemoveRepository
<1>10. ASSUME NEW j \in Jobs, Fail(j) PROVE Links'
  <2>1. CASE FailBefore(j)
    BY <1>10, <2>1 DEF Fail, FailBefore
  <2>2. CASE FailAfter(j)
    BY <1>10, <2>2 DEF Fail, FailAfter, Untag, RemoveManifest, RemoveRepository
  <2> QED
    BY <1>10, <2>1, <2>2 DEF Fail
<1> QED
  BY <1>1, <1>2, <1>3, <1>4, <1>5, <1>6, <1>7, <1>8, <1>9, <1>10 DEF Next, Step

-----------------------------------------------------------------------------
(* An untagged image is accounted for.                                     *)

LEMMA LeftBehindStep ==
    ASSUME TypeOK, Links, NothingLeftBehind, Next PROVE NothingLeftBehind'
<1> USE ImageDeleterAssumption
    DEF TypeOK, Steps, Goto, FirstCall, Links, TagStepHasTag, NothingLeftBehind
<1>1. ASSUME Push PROVE NothingLeftBehind'
  BY <1>1 DEF Push
<1>2. ASSUME NEW j \in Jobs, Request(j) PROVE NothingLeftBehind'
  BY <1>2 DEF Request
<1>3. ASSUME NEW j \in Jobs, Retry(j) PROVE NothingLeftBehind'
  BY <1>3 DEF Retry
<1>4. ASSUME NEW j \in Jobs, GetDescriptor(j) PROVE NothingLeftBehind'
  BY <1>4 DEF GetDescriptor
<1>5. ASSUME NEW j \in Jobs, DeleteTag(j) PROVE NothingLeftBehind'
  BY <1>5 DEF DeleteTag, Untag, AfterTag
<1>6. ASSUME NEW j \in Jobs, DeleteManifest(j) PROVE NothingLeftBehind'
  BY <1>6 DEF DeleteManifest, RemoveManifest
<1>7. ASSUME NEW j \in Jobs, ManifestRefused(j) PROVE NothingLeftBehind'
  BY <1>7 DEF ManifestRefused, Refused, AfterRefusal
<1>8. ASSUME NEW j \in Jobs, GetAuthorizationToken(j) PROVE NothingLeftBehind'
  BY <1>8 DEF GetAuthorizationToken
<1>9. ASSUME NEW j \in Jobs, DeleteRepo(j) PROVE NothingLeftBehind'
  BY <1>9 DEF DeleteRepo, RemoveRepository
<1>10. ASSUME NEW j \in Jobs, Fail(j) PROVE NothingLeftBehind'
  <2>1. CASE FailBefore(j)
    BY <1>10, <2>1 DEF Fail, FailBefore
  <2>2. CASE FailAfter(j)
    BY <1>10, <2>2 DEF Fail, FailAfter, Untag, RemoveManifest, RemoveRepository
  <2> QED
    BY <1>10, <2>1, <2>2 DEF Fail
<1> QED
  BY <1>1, <1>2, <1>3, <1>4, <1>5, <1>6, <1>7, <1>8, <1>9, <1>10 DEF Next, Step

LEMMA StepIInv == IInv /\ [Next]_vars => IInv'
<1> SUFFICES ASSUME IInv, [Next]_vars PROVE IInv'
  OBVIOUS
<1>1. CASE Next
  BY <1>1, TypeStep, LinksStep, LeftBehindStep DEF IInv
<1>2. CASE UNCHANGED vars
  BY <1>2 DEF IInv, TypeOK, Links, TagStepHasTag, DigestIsRef, TargetIsRef,
              ReadIsTarget, NothingLeftBehind
<1> QED
  BY <1>1, <1>2

THEOREM Invariance == Spec => []IInv
BY InitIInv, StepIInv, PTL DEF Spec

(* Every reachable state is well typed; a request that deletes has read a  *)
(* descriptor.                                                             *)
THEOREM TypeCorrect == Spec => []TypeOK
BY Invariance, PTL DEF IInv

(* However deletions, retries and pushes meet, an untagged image is in the *)
(* hands of a deletion by tag, was replaced by a push, lost its tag to a   *)
(* deletion that had read an older one, or was left by one that failed.    *)
THEOREM NoLeftovers == Spec => []NothingLeftBehind
BY Invariance, PTL DEF IInv

-----------------------------------------------------------------------------
(* What a 202 means.                                                       *)

Gone(j) ==
    /\ tag' # target[j]
    /\ ref[j] # Tag => target[j] \notin manifests'

LEMMA AcceptedStep ==
    ASSUME IInv, Next, NEW j \in Jobs,
           pc[j] # "done", pc'[j] = "done", target[j] # None
    PROVE  Gone(j)
<1> USE ImageDeleterAssumption
    DEF IInv, TypeOK, Steps, Goto, FirstCall, Gone
<1>1. CASE Push
  BY <1>1 DEF Push
<1>2. ASSUME NEW i \in Jobs, Request(i) PROVE Gone(j)
  BY <1>2 DEF Request
<1>3. ASSUME NEW i \in Jobs, Retry(i) PROVE Gone(j)
  BY <1>3 DEF Retry
<1>4. ASSUME NEW i \in Jobs, GetDescriptor(i) PROVE Gone(j)
  BY <1>4 DEF GetDescriptor, AfterGet, Resolve, Links, TargetIsRef
<1>5. ASSUME NEW i \in Jobs, DeleteTag(i) PROVE Gone(j)
  BY <1>5 DEF DeleteTag, AfterTag
<1>6. ASSUME NEW i \in Jobs, DeleteManifest(i) PROVE Gone(j)
  BY <1>6 DEF DeleteManifest, RemoveManifest,
              Links, DigestIsRef, TargetIsRef, ReadIsTarget
<1>7. ASSUME NEW i \in Jobs, ManifestRefused(i) PROVE Gone(j)
  BY <1>7 DEF ManifestRefused, AfterRefusal
<1>8. ASSUME NEW i \in Jobs, GetAuthorizationToken(i) PROVE Gone(j)
  BY <1>8 DEF GetAuthorizationToken
<1>9. ASSUME NEW i \in Jobs, DeleteRepo(i) PROVE Gone(j)
  BY <1>9 DEF DeleteRepo, RemoveRepository
<1>10. ASSUME NEW i \in Jobs, Fail(i) PROVE Gone(j)
  BY <1>10 DEF Fail
<1> QED
  BY <1>1, <1>2, <1>3, <1>4, <1>5, <1>6, <1>7, <1>8, <1>9, <1>10 DEF Next, Step

(* A 202 of DELETE /images tells the truth: the reference no longer names  *)
(* the image it named when the deletion was asked for, unless it has been  *)
(* pushed again.                                                           *)
THEOREM AcceptedIsTrue == Spec => AcceptedIsGone
<1>1. IInv /\ [Next]_vars =>
        [\A j \in Jobs :
            (pc[j] # "done" /\ pc'[j] = "done" /\ target[j] # None) =>
               /\ tag' # target[j]
               /\ ref[j] # Tag => target[j] \notin manifests']_vars
  BY AcceptedStep DEF Gone
<1> QED
  BY <1>1, Invariance, PTL DEF Spec, AcceptedIsGone
=============================================================================
