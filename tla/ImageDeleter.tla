---------------------------- MODULE ImageDeleter ----------------------------
(***************************************************************************)
(* registry-buddy's DELETE /images: handlers/images.go with the deleters   *)
(* of image/.  Cloud Controller's jobs delete images by tag or by digest   *)
(* and ask again after a failure (external); each API server and worker    *)
(* has a registry-buddy of its own, so deletions of one repository meet.   *)
(*                                                                         *)
(* The registry is external.  It is one of the kinds that the deleters     *)
(* were written for: "tagFirst" refuses to delete a manifest that a tag    *)
(* names (GCR), "digestOnly" answers UNSUPPORTED to the deletion of a tag, *)
(* "dockerhub" deletes whole repositories.  The state here is one          *)
(* repository with one tag.                                                *)
(***************************************************************************)
EXTENDS Naturals

CONSTANTS
    Jobs,       \* Cloud Controller's deletions
    Digests,    \* images
    Tag,        \* a reference by tag; a reference by digest is the digest
    MaxPushes,  \* bound: pushes
    MaxFaults,  \* bound: failed calls
    None        \* no image

ASSUME ImageDeleterAssumption ==
    /\ Tag \notin Digests
    /\ None \notin Digests
    /\ MaxPushes \in Nat
    /\ MaxFaults \in Nat

Registries == {"tagFirst", "digestOnly", "dockerhub"}

VARIABLES
    registry,   \* the kind of registry, from the reference's host
    tag,        \* the image that the tag names
    manifests,  \* the images of the repository
    pc,         \* the call that each job's request is at
    ref,        \* image_reference
    digest,     \* descriptor.Digest
    target,     \* history: the image that the job's reference named when it
                \* was first asked for, None once it is pushed again
    spared,     \* history: untagged images that no deletion is to remove:
                \* replaced by a push, untagged by a deletion that had read
                \* an older tag, or left by a failed one
    pushes, faults

repository == <<tag, manifests>>
vars == <<registry, repository, pc, ref, digest, target, spared, pushes, faults>>

Steps == {"get", "tag", "manifest", "login", "repo"}

TypeOK ==
    /\ registry \in Registries
    /\ manifests \subseteq Digests
    /\ tag \in manifests \cup {None}
    /\ pc \in [Jobs -> Steps \cup {"new", "failed", "done"}]
    /\ ref \in [Jobs -> Digests \cup {Tag}]
    /\ digest \in [Jobs -> Digests \cup {None}]
    /\ \A j \in Jobs : pc[j] \in {"tag", "manifest"} => digest[j] # None
    /\ target \in [Jobs -> Digests \cup {None}]
    /\ spared \subseteq manifests
    /\ pushes \in 0..MaxPushes
    /\ faults \in 0..MaxFaults

Init ==
    /\ registry \in Registries
    /\ manifests \in SUBSET Digests
    /\ tag \in manifests \cup {None}
    /\ pc = [j \in Jobs |-> "new"]
    /\ ref = [j \in Jobs |-> Tag]
    /\ digest = [j \in Jobs |-> None]
    /\ target = [j \in Jobs |-> None]
    /\ spared = manifests \ {tag}
    /\ pushes = 0
    /\ faults = 0

-----------------------------------------------------------------------------
(* The registry.                                                           *)

Resolve(r) ==
    IF r = Tag THEN tag ELSE IF r \in manifests THEN r ELSE None

\* The deletion of a tag: done, UNSUPPORTED or a 404.
Untag ==
    /\ tag' = IF registry = "tagFirst" THEN None ELSE tag
    /\ UNCHANGED manifests

Refused(d) == registry = "tagFirst" /\ tag = d

\* The deletion of a manifest, and of the tag with it; a 404 if it is gone.
RemoveManifest(d) ==
    /\ ~Refused(d)
    /\ manifests' = manifests \ {d}
    /\ tag' = IF tag = d THEN None ELSE tag

RemoveRepository == manifests' = {} /\ tag' = None

\* A package or a build is pushed to the tag, by Upload or by kpack.
Push ==
    /\ pushes < MaxPushes
    /\ pushes' = pushes + 1
    /\ \E d \in Digests :
          /\ manifests' = manifests \cup {d}
          /\ tag' = d
          /\ spared' = (spared \cup ({tag} \cap Digests)) \ {d}
          /\ target' = [j \in Jobs |-> IF target[j] = d THEN None ELSE target[j]]
    /\ UNCHANGED <<registry, pc, ref, digest, faults>>

-----------------------------------------------------------------------------
(* A request: NewDynamicDeleter chooses the deleter by the registry.       *)

FirstCall == IF registry = "dockerhub" THEN "login" ELSE "get"

Goto(j, step) == pc' = [pc EXCEPT ![j] = step]

Request(j) ==
    /\ pc[j] = "new"
    /\ \E r \in Digests \cup {Tag} :
          /\ ref' = [ref EXCEPT ![j] = r]
          /\ target' = [target EXCEPT ![j] = Resolve(r)]
    /\ Goto(j, FirstCall)
    /\ UNCHANGED <<registry, repository, digest, spared, pushes, faults>>

\* After a 500, or no answer, the job asks again.
Retry(j) ==
    /\ pc[j] = "failed"
    /\ Goto(j, FirstCall)
    /\ UNCHANGED <<registry, repository, ref, digest, target, spared, pushes, faults>>

\* Mutant of AfterGet: the handler goes on after a 404.
AfterGetNoReturn(r) == IF r = Tag THEN "tag" ELSE "manifest"

\* A 404 answers 202 at once, as if the image had been deleted before.
AfterGet(r) ==
    IF Resolve(r) = None THEN "done" ELSE IF r = Tag THEN "tag" ELSE "manifest"

GetDescriptor(j) ==
    /\ pc[j] = "get"
    /\ digest' = [digest EXCEPT ![j] = Resolve(ref[j])]
    /\ Goto(j, AfterGet(ref[j]))
    /\ UNCHANGED <<registry, repository, ref, target, spared, pushes, faults>>

\* Mutant of AfterTag: an image deleted by its tag is deleted.
AfterTagDone == "done"

\* Mutant of AfterTag: only 404s are ignored.
AfterTagUnsupported == IF registry = "digestOnly" THEN "failed" ELSE "manifest"

\* attemptDeleteByTag: 404s and UNSUPPORTEDs are ignored.
AfterTag == "manifest"

DeleteTag(j) ==
    /\ pc[j] = "tag"
    /\ Untag
    /\ spared' = IF tag' = tag THEN spared
                               ELSE spared \cup ({tag} \ {digest[j]})
    /\ Goto(j, AfterTag)
    /\ UNCHANGED <<registry, ref, digest, target, pushes, faults>>

\* The deletion by digest; a 404 is ignored here, too.
DeleteManifest(j) ==
    /\ pc[j] = "manifest"
    /\ RemoveManifest(digest[j])
    /\ spared' = spared \ {digest[j]}
    /\ Goto(j, "done")
    /\ UNCHANGED <<registry, ref, digest, target, pushes, faults>>

\* Mutant of AfterRefusal: the error is logged and not returned.
AfterRefusalLogged == "done"

\* The registry refuses: a 500.
AfterRefusal == "failed"

ManifestRefused(j) ==
    /\ pc[j] = "manifest"
    /\ Refused(digest[j])
    /\ Goto(j, AfterRefusal)
    /\ UNCHANGED <<registry, repository, ref, digest, target, spared, pushes, faults>>

GetAuthorizationToken(j) ==
    /\ pc[j] = "login"
    /\ Goto(j, "repo")
    /\ UNCHANGED <<registry, repository, ref, digest, target, spared, pushes, faults>>

\* The whole repository goes, whatever the reference names in it.
DeleteRepo(j) ==
    /\ pc[j] = "repo"
    /\ RemoveRepository
    /\ spared' = {}
    /\ Goto(j, "done")
    /\ UNCHANGED <<registry, ref, digest, target, pushes, faults>>

\* A call fails or its answer is lost, or the process ends in the middle of it.
\* Either way the handler does not go on.  A deletion by tag that is past its
\* tag leaves the image behind: the next attempt has nothing to resolve.
FailBefore(j) ==
    /\ spared' = IF pc[j] = "manifest" /\ ref[j] = Tag
                 THEN spared \cup (({digest[j]} \cap manifests) \ {tag})
                 ELSE spared
    /\ UNCHANGED repository

FailAfter(j) ==
    \/ /\ pc[j] = "tag"
       /\ Untag
       /\ spared' = IF tag' = tag THEN spared ELSE spared \cup {tag}
    \/ /\ pc[j] = "manifest"
       /\ RemoveManifest(digest[j])
       /\ spared' = spared \ {digest[j]}
    \/ /\ pc[j] = "repo"
       /\ RemoveRepository
       /\ spared' = {}

Fail(j) ==
    /\ pc[j] \in Steps
    /\ faults < MaxFaults
    /\ faults' = faults + 1
    /\ FailBefore(j) \/ FailAfter(j)
    /\ Goto(j, "failed")
    /\ UNCHANGED <<registry, ref, digest, target, pushes>>

Step(j) ==
    \/ GetDescriptor(j)
    \/ DeleteTag(j)
    \/ DeleteManifest(j)
    \/ ManifestRefused(j)
    \/ GetAuthorizationToken(j)
    \/ DeleteRepo(j)

Next ==
    \/ Push
    \/ \E j \in Jobs : Request(j) \/ Retry(j) \/ Step(j) \/ Fail(j)

Spec == Init /\ [][Next]_vars

\* Calls return, and Cloud Controller repeats what failed.
FairSpec ==
    /\ Spec
    /\ \A j \in Jobs : WF_vars(Step(j)) /\ WF_vars(Retry(j))

-----------------------------------------------------------------------------
(* NewGenericDeleter deletes tag and manifest, however deletions meet: an  *)
(* image without a tag is in the hands of a deletion that has yet to       *)
(* delete it, or there is one of the reasons in `spared'.                  *)
NothingLeftBehind ==
    \A d \in manifests \ (spared \cup {tag}) :
        \E j \in Jobs : pc[j] = "manifest" /\ ref[j] = Tag /\ digest[j] = d

(* DeleteImageHandler answers 202 only when the image that the reference   *)
(* named when the deletion was asked for has no tag any more, and no       *)
(* manifest if it was named by digest, or when it has been pushed again.   *)
AcceptedIsGone ==
    [][\A j \in Jobs :
          (pc[j] # "done" /\ pc'[j] = "done" /\ target[j] # None) =>
             /\ tag' # target[j]
             /\ ref[j] # Tag => target[j] \notin manifests']_vars

(* The README's second note: GCR deletes no manifest that a tag names, and *)
(* a deletion by digest leaves the tag alone.                              *)
HeldByTag(j) == registry = "tagFirst" /\ ref[j] = tag

(* Ignored 404s and UNSUPPORTEDs make DELETE /images repeatable: a job     *)
(* that asks again after each failure is answered 202 in the end, except   *)
(* while a tag holds the image.                                            *)
DeletionEnds ==
    \A j \in Jobs :
        pc[j] \notin {"new", "done"} ~> (pc[j] = "done" \/ HeldByTag(j))
=============================================================================
