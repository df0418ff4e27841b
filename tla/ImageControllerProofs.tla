----------------------- MODULE ImageControllerProofs -----------------------
(***************************************************************************)
(* Proofs about ImageController, for every set of apps, of StatefulSets,   *)
(* and every bound.                                                        *)
(*                                                                         *)
(* The worker acts on a copy that is out of date as soon as CC or kpack    *)
(* writes the image.  The inductive invariant says what every version of   *)
(* an image has in common, the versions on their way to the informer       *)
(* included, and that a copy which is out of date has a successor on its   *)
(* way that passes the filter, or that is of no interest.                  *)
(***************************************************************************)
EXTENDS ImageController, FiniteSetTheorems, SequenceTheorems, TLAPS

\* The versions of an image that the informer and the worker may yet see.
Versions(i) == {image[i]} \cup {lag[i][k] : k \in DOMAIN lag[i]}

\* What holds of a version: kpack follows the label, and the image of a build that has
\* ended well, and of one that is for a new stack, was made from the droplet that
\* kpack's last build was for.
Sound(v) ==
    v # None =>
        /\ v.latest.source <= v.built /\ v.built <= v.droplet
        /\ v.ready = "True" \/ v.reason = "STACK" => v.latest.source = v.built
        /\ v.ready = "Unknown" /\ v.reason = "STACK" => v.latest.stacks < MaxStacks

VersionsSound == \A i \in Images : \A v \in Versions(i) : Sound(v)

\* A droplet that is being staged has no image yet, and no droplet is staged before
\* kpack has built its source.  What a droplet has of another source is older than
\* what kpack has.
DropletsSound ==
    \A i \in Images : image[i] # None =>
        /\ i \in staging => droplets[i][image[i].droplet] = None
        /\ \A d \in Droplets : droplets[i][d] # None =>
              /\ d <= image[i].latest.source
              /\ \/ droplets[i][d].source = d
                 \/ droplets[i][d].source < image[i].latest.source

\* Nothing that may put the image into the queue again is on its way, and it is
\* one that its StatefulSet and droplet should have.
Fresh(i) == /\ i \notin dirty /\ lag[i] = <<>>
            /\ image[i] # None /\ Rebased(image[i])

\* The worker has a copy of a rebuilt image while it has an image at all.
WorkerSound ==
    /\ step = "none" <=> active = None
    /\ step # "none" => /\ up
                        /\ copy \in KpackImages /\ copy # None
                        /\ Rebased(copy) /\ Sound(copy)
                        /\ copy.built # copy.droplet => <<active, copy.droplet>> \in mixed
    /\ step \in {"update", "patch"} => target \in Names

NothingWhileDown ==
    ~up => /\ dirty = {} /\ delayed = {} /\ active = None
           /\ \A i \in Images : lag[i] = <<>>

\* The copy is out of date only while the image is on its way to the queue, or of
\* no interest.
CopyCurrent == active # None /\ Fresh(active) => copy = image[active]

\* In this case, and unless a StatefulSet was started since the List, the worker
\* has seen all of them.
SetsInHand ==
    active # None /\ Fresh(active) /\ active \notin overtaken =>
        /\ step = "update" => Running(active) \subseteq {target}
        /\ step = "patch" => \A n \in Running(active) : sets[active][n] = copy.latest

IInv == /\ TypeOK /\ VersionsSound /\ DropletsSound /\ WorkerSound /\ NothingWhileDown
        /\ CopyCurrent /\ SetsInHand
        /\ DropletKeepsSource /\ NoDropletLost /\ OnlyOvertakenLost

\* The steps of CC and of kpack that write the image.
Writes(i) == StageDroplet(i) \/ StartBuild(i) \/ FinishBuild(i) \/ DeleteImage(i)

USE ImageControllerAssumption

\* A table with one entry replaced.
LEMMA Replaced ==
    ASSUME NEW S, NEW T, NEW V, NEW f \in [S -> [T -> V]], NEW s \in S, NEW t \in T, NEW v \in V
    PROVE  /\ [f EXCEPT ![s][t] = v] \in [S -> [T -> V]]
           /\ \A x \in S, y \in T :
                 [f EXCEPT ![s][t] = v][x][y] = IF x = s /\ y = t THEN v ELSE f[x][y]
<1> DEFINE row == [f[s] EXCEPT ![t] = v]
<1>1. row \in [T -> V] /\ \A y \in T : row[y] = IF y = t THEN v ELSE f[s][y]
  OBVIOUS
<1>2. [f EXCEPT ![s][t] = v] = [f EXCEPT ![s] = row]
  OBVIOUS
<1> HIDE DEF row
<1>3. [f EXCEPT ![s] = row] \in [S -> [T -> V]]
      /\ \A x \in S : [f EXCEPT ![s] = row][x] = IF x = s THEN row ELSE f[x]
  BY <1>1
<1> QED
  BY <1>1, <1>2, <1>3

\* The droplet and the StatefulSet that a write replaces, and all others.
LEMMA DropletReplaced ==
    ASSUME TypeOK, NEW i \in Images, NEW d \in Droplets, NEW r \in References,
           droplets' = [droplets EXCEPT ![i][d] = r]
    PROVE  /\ droplets' \in [Images -> [Droplets -> References \cup {None}]]
           /\ \A j \in Images, e \in Droplets :
                 droplets'[j][e] = IF j = i /\ e = d THEN r ELSE droplets[j][e]
<1>1. droplets \in [Images -> [Droplets -> References \cup {None}]]
  BY DEF TypeOK
<1> QED
  BY <1>1, Replaced

LEMMA SetReplaced ==
    ASSUME TypeOK, NEW i \in Images, NEW n \in Names, NEW r \in References \cup {None},
           sets' = [sets EXCEPT ![i][n] = r]
    PROVE  /\ sets' \in [Images -> [Names -> References \cup {None}]]
           /\ \A j \in Images, m \in Names :
                 sets'[j][m] = IF j = i /\ m = n THEN r ELSE sets[j][m]
<1>1. sets \in [Images -> [Names -> References \cup {None}]]
  BY DEF TypeOK
<1> QED
  BY <1>1, Replaced

-----------------------------------------------------------------------------
(* The versions of an image.                                               *)

\* A write adds the version it replaces to what the informer has to see, while
\* there is an informer.
LEMMA SetImageFacts ==
    ASSUME TypeOK, NEW i \in Images, NEW new \in KpackImages \cup {None}, SetImage(i, new)
    PROVE  /\ image' \in [Images -> KpackImages \cup {None}]
           /\ lag' \in [Images -> Seq(KpackImages \cup {None})]
           /\ image'[i] = new
           /\ up => lag'[i] # <<>>
           /\ \A j \in Images \ {i} : image'[j] = image[j] /\ lag'[j] = lag[j]
           /\ \A j \in Images : Versions(j)' \subseteq Versions(j) \cup (IF j = i THEN {new} ELSE {})
<1> DEFINE V == KpackImages \cup {None}
<1>1. image \in [Images -> V] /\ lag \in [Images -> Seq(V)]
  BY DEF TypeOK
<1>2. image' = [image EXCEPT ![i] = new]
  BY DEF SetImage
<1> HIDE DEF V
<1>3. lag[i] \in Seq(V) /\ image[i] \in V
  BY <1>1
<1> DEFINE longer == Append(lag[i], image[i])
<1>4. /\ longer \in Seq(V) /\ longer # <<>>
      /\ \A k \in DOMAIN longer : longer[k] \in {image[i]} \cup {lag[i][l] : l \in DOMAIN lag[i]}
  BY <1>3
<1>5. CASE up
  <2>1. lag' = [lag EXCEPT ![i] = longer]
    BY <1>5 DEF SetImage
  <2> HIDE DEF longer
  <2>2. lag' \in [Images -> Seq(V)] /\ lag'[i] = longer
        /\ \A j \in Images \ {i} : image'[j] = image[j] /\ lag'[j] = lag[j]
    BY <1>1, <1>2, <1>4, <2>1
  <2>3. image' \in [Images -> V] /\ image'[i] = new
    BY <1>1, <1>2 DEF V
  <2>4. Versions(i)' \subseteq Versions(i) \cup {new}
    BY <1>4, <2>2, <2>3 DEF Versions
  <2>5. \A j \in Images \ {i} : Versions(j)' = Versions(j)
    BY <2>2 DEF Versions
  <2> QED
    BY <1>4, <2>2, <2>3, <2>4, <2>5 DEF V
<1>6. CASE ~up
  <2>1. lag' = lag
    BY <1>6 DEF SetImage
  <2>2. image' \in [Images -> V] /\ image'[i] = new
        /\ \A j \in Images \ {i} : image'[j] = image[j]
    BY <1>1, <1>2 DEF V
  <2> QED
    BY <1>1, <1>6, <2>1, <2>2 DEF V, Versions
<1> QED
  BY <1>5, <1>6

\* What the cache has, and what it will have next, are versions.
LEMMA CacheFacts ==
    ASSUME TypeOK, NEW i \in Images
    PROVE  /\ Version(i) \in Versions(i) /\ Version(i) \in KpackImages \cup {None}
           /\ lag[i] = <<>> => Version(i) = image[i]
<1>1. lag[i] \in Seq(KpackImages \cup {None}) /\ image[i] \in KpackImages \cup {None}
  BY DEF TypeOK
<1>2. CASE lag[i] = <<>>
  BY <1>1, <1>2 DEF Version, Versions
<1>3. CASE lag[i] # <<>>
  <2>1. Version(i) = lag[i][1] /\ 1 \in DOMAIN lag[i]
    BY <1>1, <1>3 DEF Version
  <2> QED
    BY <1>1, <1>3, <2>1 DEF Versions
<1> QED
  BY <1>2, <1>3

\* An event takes one version off the list; the last is the image itself.
LEMMA InformFacts ==
    ASSUME TypeOK, NEW i \in Images, Inform(i)
    PROVE  /\ lag' \in [Images -> Seq(KpackImages \cup {None})]
           /\ \A j \in Images : Versions(j)' \subseteq Versions(j)
           /\ \A j \in Images \ {i} : lag'[j] = lag[j]
           /\ lag'[i] = <<>> => NextVersion(i) = image[i]
<1> DEFINE V == KpackImages \cup {None}
<1>1. lag \in [Images -> Seq(V)] /\ lag[i] # <<>> /\ lag' = [lag EXCEPT ![i] = Tail(@)]
      /\ image' = image
  BY DEF TypeOK, Inform
<1> HIDE DEF V
<1>2. lag[i] \in Seq(V)
  BY <1>1
<1> DEFINE rest == Tail(lag[i])
<1>3. /\ rest \in Seq(V) /\ Len(lag[i]) \in Nat \ {0}
      /\ Len(rest) = Len(lag[i]) - 1
      /\ \A k \in 1..Len(rest) : rest[k] = lag[i][k + 1]
  BY <1>1, <1>2, HeadTailProperties
<1>4. lag' = [lag EXCEPT ![i] = rest]
  BY <1>1
<1> HIDE DEF rest
<1>5. DOMAIN rest = 1..Len(rest) /\ DOMAIN lag[i] = 1..Len(lag[i])
  BY <1>2, <1>3
<1>6. rest = <<>> => Len(lag[i]) = 1
  BY <1>3
<1>7. lag'[i] = rest /\ \A j \in Images \ {i} : lag'[j] = lag[j]
  BY <1>1, <1>4
<1>8. Versions(i)' \subseteq Versions(i)
  BY <1>1, <1>3, <1>5, <1>7 DEF Versions
<1>9. \A j \in Images \ {i} : Versions(j)' = Versions(j)
  BY <1>1, <1>7 DEF Versions
<1> QED
  BY <1>1, <1>3, <1>4, <1>6, <1>7, <1>8, <1>9 DEF V, NextVersion

-----------------------------------------------------------------------------
(* Types.                                                                  *)

LEMMA InitTypeOK == Init => TypeOK
<1> SUFFICES ASSUME Init PROVE TypeOK
  OBVIOUS
<1>1. First \in References
  BY DEF First, References, Droplets
<1>2. image \in [Images -> KpackImages \cup {None}]
  BY <1>1 DEF Init, KpackImages, Droplets
<1>3. lag \in [Images -> Seq(KpackImages \cup {None})]
  BY DEF Init
<1>4. droplets \in [Images -> [Droplets -> References \cup {None}]]
  BY <1>1 DEF Init
<1>5. sets \in [Images -> [Names -> References \cup {None}]]
  BY <1>1 DEF Init
<1>6. app \in [Images -> Droplets]
  BY DEF Init, Droplets
<1>7. /\ dirty = {} /\ delayed = {} /\ active = None
      /\ step = "none" /\ copy = None /\ target = None /\ moved = FALSE
      /\ staging = {} /\ missed = {} /\ overtaken = {} /\ early = {} /\ mixed = {} /\ up = FALSE
      /\ ops = 0 /\ faults = 0
  BY DEF Init
<1>8. ops \in 0..MaxOps /\ faults \in 0..MaxFaults
  BY <1>7
<1> QED
  BY <1>2, <1>3, <1>4, <1>5, <1>6, <1>7, <1>8 DEF TypeOK, QueueTypeOK

\* An image that others write has the types of an image, is as sound as the one
\* before it, and has an image of the same source or of a later one.
Follows(old, new) ==
    /\ Sound(new)
    /\ new # None => old # None /\ old.latest.source <= new.latest.source

LEMMA StageDropletFacts ==
    ASSUME TypeOK, VersionsSound, NEW i \in Images, StageDroplet(i)
    PROVE  \E new \in KpackImages \cup {None} : Follows(image[i], new) /\ SetImage(i, new)
<1> DEFINE new == [image[i] EXCEPT !.droplet = @ + 1]
<1>1. image[i] \in KpackImages /\ Sound(image[i]) /\ image[i] # None
      /\ image[i].droplet < MaxDroplets /\ SetImage(i, new)
  BY DEF StageDroplet, TypeOK, VersionsSound, Versions
<1>2. image[i].droplet \in Nat /\ image[i].built \in Nat /\ image[i].latest.source \in Nat
      /\ image[i].droplet + 1 \in Droplets
  BY <1>1 DEF KpackImages, References, Droplets
<1>3. /\ new \in KpackImages /\ new.droplet = image[i].droplet + 1
      /\ new.latest = image[i].latest /\ new.built = image[i].built
      /\ new.ready = image[i].ready /\ new.reason = image[i].reason
  BY <1>1, <1>2 DEF KpackImages
<1> HIDE DEF new
<1>4. Follows(image[i], new)
  BY <1>1, <1>2, <1>3 DEF Follows, Sound
<1> QED
  BY <1>1, <1>3, <1>4

LEMMA StartBuildFacts ==
    ASSUME TypeOK, VersionsSound, NEW i \in Images, StartBuild(i)
    PROVE  \E new \in KpackImages \cup {None} : Follows(image[i], new) /\ SetImage(i, new)
<1>1. image[i] \in KpackImages /\ Sound(image[i]) /\ image[i] # None
  BY DEF StartBuild, TypeOK, VersionsSound, Versions
<1>2. image[i].droplet \in Nat /\ image[i].built \in Nat /\ image[i].latest.source \in Nat
  BY <1>1 DEF KpackImages, References, Droplets
<1>3. CASE SetImage(i, [image[i] EXCEPT !.ready = "Unknown", !.reason = "CONFIG",
                                        !.built = image[i].droplet])
  <2> DEFINE new == [image[i] EXCEPT !.ready = "Unknown", !.reason = "CONFIG",
                                     !.built = image[i].droplet]
  <2>1. /\ new \in KpackImages /\ new.ready = "Unknown" /\ new.reason = "CONFIG"
        /\ new.latest = image[i].latest /\ new.built = image[i].droplet
        /\ new.droplet = image[i].droplet
    BY <1>1 DEF KpackImages
  <2> HIDE DEF new
  <2>2. Follows(image[i], new)
    BY <1>1, <1>2, <2>1 DEF Sound, Follows
  <2>3. SetImage(i, new)
    BY <1>3 DEF new
  <2> QED
    BY <2>1, <2>2, <2>3
<1>4. CASE image[i].ready = "True" /\ image[i].latest.stacks < MaxStacks
           /\ SetImage(i, [image[i] EXCEPT !.ready = "Unknown", !.reason = "STACK"])
  <2> DEFINE new == [image[i] EXCEPT !.ready = "Unknown", !.reason = "STACK"]
  <2>1. /\ new \in KpackImages /\ new.latest = image[i].latest
        /\ new.built = image[i].built /\ new.droplet = image[i].droplet
    BY <1>1 DEF KpackImages
  <2> HIDE DEF new
  <2>2. Follows(image[i], new)
    BY <1>1, <1>2, <1>4, <2>1 DEF Sound, Follows
  <2>3. SetImage(i, new)
    BY <1>4 DEF new
  <2> QED
    BY <2>1, <2>2, <2>3
<1> QED
  BY <1>3, <1>4 DEF StartBuild

\* A build that ends well has made an image of the droplet it is for.
LEMMA BuiltFacts ==
    ASSUME NEW img \in KpackImages, img # None, Sound(img), img.ready = "Unknown"
    PROVE  Built(img) \in References /\ Built(img).source = img.built
<1>1. img.latest \in References /\ img.built \in Droplets
  BY DEF KpackImages
<1>2. CASE img.reason = "STACK"
  <2>1. img.latest.stacks < MaxStacks /\ img.latest.source = img.built
    BY <1>2 DEF Sound
  <2>2. [img.latest EXCEPT !.stacks = @ + 1] \in References
        /\ [img.latest EXCEPT !.stacks = @ + 1].source = img.built
    BY <1>1, <2>1 DEF References
  <2> QED
    BY <1>2, <2>2 DEF Built
<1>3. CASE img.reason # "STACK"
  BY <1>1, <1>3 DEF Built, References
<1> QED
  BY <1>2, <1>3

LEMMA FinishBuildFacts ==
    ASSUME TypeOK, VersionsSound, NEW i \in Images, FinishBuild(i)
    PROVE  /\ \E new \in KpackImages \cup {None} : Follows(image[i], new) /\ SetImage(i, new)
           /\ UNCHANGED <<droplets, staging, mixed>>
           /\ missed' \subseteq missed /\ missed \ {i} \subseteq missed'
           /\ overtaken' \subseteq overtaken /\ overtaken \ {i} \subseteq overtaken'
           /\ early' \subseteq early /\ early \ {i} \subseteq early'
<1>1. image[i] \in KpackImages /\ Sound(image[i]) /\ image[i] # None /\ image[i].ready = "Unknown"
  BY DEF FinishBuild, TypeOK, VersionsSound, Versions
<1>2. Built(image[i]) \in References /\ Built(image[i]).source = image[i].built
      /\ image[i].droplet \in Nat /\ image[i].built \in Nat /\ image[i].latest.source \in Nat
  BY <1>1, BuiltFacts DEF KpackImages, References, Droplets
<1> DEFINE good == [image[i] EXCEPT !.ready = "True", !.latest = Built(image[i])]
           bad == [image[i] EXCEPT !.ready = "False"]
<1>3. /\ good \in KpackImages /\ good.ready = "True" /\ good.latest = Built(image[i])
      /\ good.built = image[i].built /\ good.droplet = image[i].droplet
  BY <1>1, <1>2 DEF KpackImages
<1>4. /\ bad \in KpackImages /\ bad.ready = "False" /\ bad.latest = image[i].latest
      /\ bad.reason = image[i].reason
      /\ bad.built = image[i].built /\ bad.droplet = image[i].droplet
  BY <1>1 DEF KpackImages
<1>5. SetImage(i, good) \/ SetImage(i, bad)
  BY DEF FinishBuild
<1> HIDE DEF good, bad
<1>6. Follows(image[i], good) /\ Follows(image[i], bad)
  BY <1>1, <1>2, <1>3, <1>4 DEF Sound, Follows
<1>7. \E new \in KpackImages \cup {None} : Follows(image[i], new) /\ SetImage(i, new)
  BY <1>3, <1>4, <1>5, <1>6
<1>8. \/ UNCHANGED history
      \/ /\ missed' = missed \ {i} /\ overtaken' = overtaken \ {i} /\ early' = early \ {i}
         /\ UNCHANGED mixed
  BY DEF FinishBuild
<1>9. UNCHANGED <<droplets, staging>>
  BY DEF FinishBuild, platform
<1> QED
  BY <1>7, <1>8, <1>9 DEF history

\* CC and kpack write the images.
LEMMA ImageWritten ==
    ASSUME TypeOK, VersionsSound, NEW i \in Images, Writes(i)
    PROVE  /\ \E new \in KpackImages \cup {None} : Follows(image[i], new) /\ SetImage(i, new)
           /\ UNCHANGED <<dirty, delayed, active, droplets, app, sets, step, copy, target, moved,
                          mixed, up, faults>>
           /\ ops' \in 0..MaxOps
           /\ staging' = staging \/ StageDroplet(i)
           /\ staging' \subseteq Images /\ missed' \subseteq Images /\ overtaken' \subseteq Images
           /\ early' \subseteq Images
           /\ \A j \in Images \ {i} : /\ j \in missed' <=> j \in missed
                                      /\ j \in overtaken' <=> j \in overtaken
                                      /\ j \in early' <=> j \in early
<1> USE DEF TypeOK
<1>1. CASE StageDroplet(i)
  <2>1. UNCHANGED <<queue, droplets, app, sets, worker, moved, history, up, ops, faults>>
        /\ staging' = staging \cup {i}
    BY <1>1 DEF StageDroplet
  <2> QED
    BY <1>1, <2>1, StageDropletFacts DEF queue, worker, history
<1>2. CASE StartBuild(i)
  <2>1. UNCHANGED <<queue, platform, worker, moved, history, up, ops, faults>>
    BY <1>2 DEF StartBuild
  <2> QED
    BY <1>2, <2>1, StartBuildFacts DEF queue, platform, worker, history
<1>3. CASE FinishBuild(i)
  <2>1. UNCHANGED <<queue, platform, worker, moved, up, ops, faults>>
    BY <1>3 DEF FinishBuild
  <2> QED
    BY <1>3, <2>1, FinishBuildFacts DEF queue, worker, platform
<1>4. CASE DeleteImage(i)
  <2>1. SetImage(i, None) /\ Op
        /\ UNCHANGED <<queue, platform, worker, moved, history, up, faults>>
    BY <1>4 DEF DeleteImage
  <2>2. Follows(image[i], None)
    BY DEF Follows, Sound
  <2>3. ops' \in 0..MaxOps
    BY <2>1 DEF Op
  <2> QED
    BY <2>1, <2>2, <2>3 DEF queue, platform, worker, history
<1> QED
  BY <1>1, <1>2, <1>3, <1>4 DEF Writes

\* The droplet whose end is reported has the image of its own build, or none.
LEMMA ReportBuildFacts ==
    ASSUME TypeOK, VersionsSound, DropletsSound, NEW i \in Images, ReportBuild(i)
    PROVE  /\ UNCHANGED <<dirty, delayed, active, image, lag, app, sets, step, copy, target, moved,
                          missed, overtaken, early, mixed, up, ops, faults>>
           /\ staging' = staging \ {i}
           /\ image[i] # None
           /\ \/ UNCHANGED droplets
              \/ \E d \in Droplets, r \in References :
                    /\ d = image[i].latest.source /\ droplets[i][d] = None /\ r.source = d
                    /\ droplets' = [droplets EXCEPT ![i][d] = r]
<1>1. /\ UNCHANGED <<queue, kpack, app, sets, worker, moved, history, up, ops, faults>>
      /\ staging' = staging \ {i} /\ i \in staging /\ image[i] # None
  BY DEF ReportBuild
<1>2. image[i] \in KpackImages /\ droplets[i][image[i].droplet] = None
  BY <1>1 DEF TypeOK, DropletsSound
<1> DEFINE r == [source |-> image[i].droplet, stacks |-> 0]
<1>3. r \in References /\ r.source = image[i].droplet /\ image[i].droplet \in Droplets
  BY <1>2 DEF KpackImages, References
<1>4. \/ UNCHANGED droplets
      \/ /\ image[i].latest.source = image[i].droplet
         /\ droplets' = [droplets EXCEPT ![i][image[i].droplet] = r]
  BY DEF ReportBuild
<1> HIDE DEF r
<1>5. UNCHANGED <<dirty, delayed, active, image, lag, app, sets, step, copy, target, moved,
                  missed, overtaken, early, mixed, up, ops, faults>>
  BY <1>1 DEF queue, kpack, worker, history
<1>6. CASE /\ image[i].latest.source = image[i].droplet
           /\ droplets' = [droplets EXCEPT ![i][image[i].droplet] = r]
  BY <1>1, <1>2, <1>3, <1>5, <1>6
<1> QED
  BY <1>1, <1>4, <1>5, <1>6

\* What the worker writes is typed, and so is what it has when it returns.
LEMMA TypeStep ==
    ASSUME TypeOK, VersionsSound, DropletsSound, WorkerSound, Next PROVE TypeOK'
<1> USE DEF TypeOK, QueueTypeOK
<1>1. ASSUME NEW i \in Images, NEW new \in KpackImages \cup {None}, SetImage(i, new)
      PROVE  image' \in [Images -> KpackImages \cup {None}]
             /\ lag' \in [Images -> Seq(KpackImages \cup {None})]
  BY <1>1, SetImageFacts
<1>2. ASSUME NEW i \in Images, Writes(i) PROVE TypeOK'
  BY <1>1, <1>2, ImageWritten
<1>3. ASSUME NEW i \in Images, ReportBuild(i) PROVE TypeOK'
  <2>1. droplets' \in [Images -> [Droplets -> References \cup {None}]]
    <3>1. ASSUME NEW d \in Droplets, NEW r \in References, droplets' = [droplets EXCEPT ![i][d] = r]
          PROVE  droplets' \in [Images -> [Droplets -> References \cup {None}]]
      BY <3>1, DropletReplaced
    <3>2. UNCHANGED droplets \/ \E d \in Droplets, r \in References :
                                  droplets' = [droplets EXCEPT ![i][d] = r]
      BY <1>3, ReportBuildFacts
    <3> QED
      BY <3>1, <3>2
  <2> QED
    BY <1>3, <2>1, ReportBuildFacts
<1>5. ASSUME NEW i \in Images, SetCurrentDroplet(i) PROVE TypeOK'
  BY <1>5 DEF SetCurrentDroplet, Op, queue, kpack, worker, history
<1>6. ASSUME NEW i \in Images, NEW n \in Names, StartStatefulSet(i, n) PROVE TypeOK'
  <2>1. droplets[i][app[i]] \in References \cup {None}
    OBVIOUS
  <2> QED
    BY <1>6, <2>1, SetReplaced DEF StartStatefulSet, WriteSet, Op, queue, kpack, worker
<1>7. ASSUME NEW i \in Images, NEW n \in Names, TouchStatefulSet(i, n) \/ StopStatefulSet(i, n)
      PROVE  TypeOK'
  <2>1. PICK r \in References \cup {None} : WriteSet(i, n, r)
    BY <1>7 DEF TouchStatefulSet, StopStatefulSet
  <2>2. UNCHANGED <<queue, kpack, droplets, staging, app, worker, history, up, faults>> /\ Op
    BY <1>7 DEF TouchStatefulSet, StopStatefulSet
  <2>3. sets' \in [Images -> [Names -> References \cup {None}]] /\ moved' \in BOOLEAN
    BY <2>1, SetReplaced DEF WriteSet
  <2> QED
    BY <2>2, <2>3 DEF Op, queue, kpack, worker, history
<1>8. ASSUME NEW i \in Images, Inform(i) PROVE TypeOK'
  BY <1>8, InformFacts DEF Inform, platform, worker, history
<1>9. ASSUME NEW i \in Images, ExpireDelay(i) PROVE TypeOK'
  BY <1>9 DEF ExpireDelay, Expire, kpack, platform, worker, history
<1>10. ASSUME NEW i \in Images, Start(i) PROVE TypeOK'
  <2>1. Version(i) \in KpackImages
    BY <1>10, CacheFacts DEF Start
  <2>2. Version(i).droplet \in Droplets
    BY <2>1 DEF KpackImages
  <2>3. mixed' \subseteq Images \X Droplets
    BY <1>10, <2>2 DEF Start
  <2> QED
    BY <1>10, <2>1, <2>3 DEF Start, Take, kpack, platform, worker
<1>11. ASSUME NEW i \in Images, StartFails(i) PROVE TypeOK'
  BY <1>11 DEF StartFails, Take, Fault, kpack, platform, worker, history
<1> USE DEF Forget, Requeue, Return, DoneAndForget, DoneAndRequeue, Fault
<1>12. CASE ListStatefulSets
  <2>1. active \in Images
    BY <1>12 DEF ListStatefulSets, WorkerSound
  <2>2. UNCHANGED <<image, lag, dirty, droplets, staging, app, sets, overtaken, early, mixed, up, ops>>
    BY <1>12 DEF ListStatefulSets, kpack, platform
  <2>3. active' \in Images \cup {None} /\ delayed' \subseteq Images /\ missed' \subseteq Images
    BY <1>12, <2>1 DEF ListStatefulSets
  <2>4. /\ step' \in {"none", "update"} /\ copy' \in KpackImages \cup {None}
        /\ target' \in Names \cup {None} /\ moved' = FALSE /\ faults' \in 0..MaxFaults
    BY <1>12 DEF ListStatefulSets, Running
  <2> QED
    BY <2>2, <2>3, <2>4
<1>13. CASE UpdateStatefulSet
  <2>1. active \in Images /\ target \in Names /\ NewImage \in References
    <3>1. step = "update"
      BY <1>13 DEF UpdateStatefulSet
    <3>2. active \in Images /\ copy \in KpackImages /\ target \in Names
      BY <3>1 DEF WorkerSound
    <3> QED
      BY <3>2 DEF NewImage, KpackImages
  <2>2. UNCHANGED <<image, lag, dirty, droplets, staging, app, missed, overtaken, early, mixed, up, ops>>
    BY <1>13 DEF UpdateStatefulSet, kpack, history
  <2>3. UNCHANGED sets \/ sets' = [sets EXCEPT ![active][target] = NewImage]
    BY <1>13 DEF UpdateStatefulSet
  <2>4. sets' \in [Images -> [Names -> References \cup {None}]]
    BY <2>1, <2>3, SetReplaced
  <2>5. \/ step' = "patch" /\ UNCHANGED <<delayed, active, copy, target, moved, faults>>
        \/ Requeue /\ faults' \in 0..MaxFaults
    BY <1>13 DEF UpdateStatefulSet, UpdateResult
  <2>6. /\ step' \in {"none", "patch"} /\ copy' \in KpackImages \cup {None}
        /\ target' \in Names \cup {None} /\ moved' \in BOOLEAN /\ faults' \in 0..MaxFaults
        /\ active' \in Images \cup {None} /\ delayed' \subseteq Images
    BY <2>1, <2>5
  <2> QED
    BY <2>2, <2>4, <2>6
<1>14. CASE UpdateDroplet
  <2>1. active \in Images /\ copy.droplet \in Droplets /\ NewImage \in References
    <3>1. step = "patch"
      BY <1>14 DEF UpdateDroplet
    <3>2. active \in Images /\ copy \in KpackImages
      BY <3>1 DEF WorkerSound
    <3> QED
      BY <3>2 DEF NewImage, KpackImages
  <2>2. UNCHANGED droplets \/ droplets' = [droplets EXCEPT ![active][copy.droplet] = NewImage]
    BY <1>14 DEF UpdateDroplet, NamedDroplet
  <2>3. droplets' \in [Images -> [Droplets -> References \cup {None}]]
    BY <2>1, <2>2, DropletReplaced
  <2>4. /\ UNCHANGED <<image, lag, dirty, staging, app, sets, missed, overtaken, mixed, up, ops>>
        /\ step' = "none" /\ copy' = None /\ target' = None /\ moved' = FALSE
        /\ active' = None /\ delayed' \subseteq Images /\ faults' \in 0..MaxFaults
    BY <1>14, <2>1 DEF UpdateDroplet, DropletResult, kpack
  <2>5. early' \subseteq Images
    BY <1>14, <2>1 DEF UpdateDroplet
  <2> QED
    BY <2>3, <2>4, <2>5
<1>15. CASE Crash
  <2>1. lag' \in [Images -> Seq(KpackImages \cup {None})]
    BY <1>15 DEF Crash
  <2>2. /\ UNCHANGED <<image, droplets, staging, app, sets, missed, overtaken, early, mixed, ops>>
        /\ step' = "none" /\ copy' = None /\ target' = None /\ moved' = FALSE
        /\ dirty' = {} /\ delayed' = {} /\ active' = None /\ up' = FALSE
        /\ faults' \in 0..MaxFaults
    BY <1>15 DEF Crash, platform, history
  <2> QED
    BY <2>1, <2>2
<1>16. CASE StartManager
  BY <1>16 DEF StartManager, Relisted, kpack, platform, worker, history
<1>17. CASE LoadConfigFails
  BY <1>17 DEF LoadConfigFails, queue, kpack, platform, worker, history
<1> QED
  BY <1>2, <1>3, <1>5, <1>6, <1>7, <1>8, <1>9, <1>10, <1>11, <1>12, <1>13, <1>14, <1>15,
     <1>16, <1>17 DEF Next, Writes

-----------------------------------------------------------------------------
(* What the images' versions, the worker and the droplets have in common.  *)

\* The steps that leave the images and the informer alone, of which one starts the
\* manager.
LEMMA OtherSteps ==
    ASSUME Next, \A i \in Images : ~(Writes(i) \/ Inform(i)), ~Crash
    PROVE  UNCHANGED kpack
BY DEF Next, Writes, ReportBuild, SetCurrentDroplet, StartStatefulSet, TouchStatefulSet,
       StopStatefulSet, ExpireDelay, Start, StartFails, ListStatefulSets, UpdateStatefulSet,
       UpdateDroplet, StartManager, LoadConfigFails

LEMMA VersionsSoundStep == ASSUME TypeOK, VersionsSound, Next PROVE VersionsSound'
<1>1. ASSUME NEW i \in Images, Writes(i) PROVE VersionsSound'
  <2>1. PICK new \in KpackImages \cup {None} : Sound(new) /\ SetImage(i, new)
    BY <1>1, ImageWritten DEF Follows
  <2> QED
    BY <2>1, SetImageFacts DEF VersionsSound
<1>2. ASSUME NEW i \in Images, Inform(i) PROVE VersionsSound'
  BY <1>2, InformFacts DEF VersionsSound
<1>3. CASE Crash
  <2>1. \A j \in Images : lag'[j] = <<>> /\ image'[j] = image[j]
    BY <1>3 DEF Crash
  <2>2. \A j \in Images : Versions(j)' \subseteq Versions(j)
    BY <2>1 DEF Versions
  <2> QED
    BY <2>2 DEF VersionsSound
<1>4. CASE UNCHANGED kpack
  BY <1>4 DEF kpack, VersionsSound, Versions
<1> QED
  BY <1>1, <1>2, <1>3, <1>4, OtherSteps

\* A worker that has an image and keeps it also keeps its copy, and goes on from
\* List to Update to PATCH.
LEMMA WorkerStep ==
    ASSUME TypeOK, VersionsSound, WorkerSound, Next
    PROVE  \/ UNCHANGED <<active, step, copy, target>> /\ (up => up')
           \/ active' = None /\ step' = "none"
           \/ /\ active = None /\ active' \in Images
              /\ step' = "list" /\ up' = up /\ UNCHANGED kpack
              /\ copy' = Version(active') /\ copy' # None /\ Rebased(copy')
              /\ copy'.built # copy'.droplet => <<active', copy'.droplet>> \in mixed'
           \/ /\ active # None /\ UNCHANGED <<active, copy>> /\ up' = up
              /\ \/ step = "list" /\ step' = "update" /\ target' \in Names
                 \/ step = "update" /\ step' = "patch" /\ target' = target
<1> USE DEF Forget, Requeue, Return, DoneAndForget, DoneAndRequeue
<1>1. ASSUME NEW i \in Images, Writes(i)
      PROVE  UNCHANGED <<active, step, copy, target>> /\ (up => up')
  BY <1>1, ImageWritten
<1>2. ASSUME NEW i \in Images,
             ReportBuild(i) \/ SetCurrentDroplet(i) \/ Inform(i) \/ ExpireDelay(i) \/ StartFails(i)
      PROVE  UNCHANGED <<active, step, copy, target>> /\ (up => up')
  BY <1>2 DEF ReportBuild, SetCurrentDroplet, Inform, ExpireDelay, Expire, StartFails, queue, worker
<1>3. ASSUME NEW i \in Images, NEW n \in Names,
             StartStatefulSet(i, n) \/ TouchStatefulSet(i, n) \/ StopStatefulSet(i, n)
      PROVE  UNCHANGED <<active, step, copy, target>> /\ (up => up')
  BY <1>3 DEF StartStatefulSet, TouchStatefulSet, StopStatefulSet, queue, worker
<1>4. ASSUME NEW i \in Images, Start(i)
      PROVE  \/ UNCHANGED <<active, step, copy, target>> /\ (up => up')
             \/ /\ active = None /\ active' \in Images
                /\ step' = "list" /\ up' = up /\ UNCHANGED kpack
                /\ copy' = Version(active') /\ copy' # None /\ Rebased(copy')
                /\ copy'.built # copy'.droplet => <<active', copy'.droplet>> \in mixed'
  BY <1>4 DEF Start, Take, worker
<1>5. CASE ListStatefulSets
  BY <1>5 DEF ListStatefulSets, WorkerSound, Running
<1>6. CASE UpdateStatefulSet
  BY <1>6 DEF UpdateStatefulSet, UpdateResult, WorkerSound
<1>7. CASE UpdateDroplet
  BY <1>7 DEF UpdateDroplet, DropletResult
<1>8. CASE Crash
  BY <1>8 DEF Crash
<1>9. CASE StartManager \/ LoadConfigFails
  BY <1>9 DEF StartManager, LoadConfigFails, queue, worker
<1> QED
  BY <1>1, <1>2, <1>3, <1>4, <1>5, <1>6, <1>7, <1>8, <1>9 DEF Next, Writes

\* What the worker has mixed up stays so.
LEMMA MixedGrows == ASSUME TypeOK, VersionsSound, Next PROVE mixed \subseteq mixed'
<1>1. ASSUME NEW i \in Images, Writes(i) PROVE mixed \subseteq mixed'
  BY <1>1, ImageWritten
<1>2. CASE \A i \in Images : ~Writes(i)
  BY <1>2 DEF Next, Writes, ReportBuild, SetCurrentDroplet, StartStatefulSet, TouchStatefulSet,
     StopStatefulSet, Inform, ExpireDelay, Start, StartFails, ListStatefulSets, UpdateStatefulSet,
     UpdateDroplet, Crash, StartManager, LoadConfigFails, history
<1> QED
  BY <1>1, <1>2

\* While the manager is down, there is no queue, no worker and no informer.
LEMMA DownStep ==
    ASSUME TypeOK, VersionsSound, WorkerSound, NothingWhileDown, Next PROVE NothingWhileDown'
<1> USE DEF NothingWhileDown
<1> SUFFICES ASSUME ~up'
             PROVE  /\ dirty' = {} /\ delayed' = {} /\ active' = None
                    /\ \A j \in Images : lag'[j] = <<>>
  OBVIOUS
<1>1. ASSUME NEW i \in Images, Writes(i)
      PROVE  NothingWhileDown'
  <2>1. UNCHANGED <<dirty, delayed, active, up>>
    BY <1>1, ImageWritten
  <2>2. lag' = lag
    BY <1>1, <2>1, ImageWritten DEF SetImage
  <2> QED
    BY <2>1, <2>2
<1>2. ASSUME NEW i \in Images, ReportBuild(i) \/ SetCurrentDroplet(i) PROVE NothingWhileDown'
  BY <1>2 DEF ReportBuild, SetCurrentDroplet, queue, kpack
<1>3. ASSUME NEW i \in Images, NEW n \in Names,
             StartStatefulSet(i, n) \/ TouchStatefulSet(i, n) \/ StopStatefulSet(i, n)
      PROVE  NothingWhileDown'
  BY <1>3 DEF StartStatefulSet, TouchStatefulSet, StopStatefulSet, queue, kpack
<1>4. ASSUME NEW i \in Images, Inform(i) \/ ExpireDelay(i) \/ Start(i) \/ StartFails(i)
      PROVE  NothingWhileDown'
  BY <1>4 DEF Inform, ExpireDelay, Expire, Start, StartFails, Take
<1>5. CASE ListStatefulSets \/ UpdateStatefulSet \/ UpdateDroplet
  BY <1>5 DEF ListStatefulSets, UpdateStatefulSet, UpdateDroplet, WorkerSound
<1>6. CASE Crash
  BY <1>6 DEF Crash
<1>7. CASE StartManager
  BY <1>7 DEF StartManager
<1>8. CASE LoadConfigFails
  BY <1>8 DEF LoadConfigFails, queue, kpack
<1> QED
  BY <1>1, <1>2, <1>3, <1>4, <1>5, <1>6, <1>7, <1>8 DEF Next, Writes

LEMMA WorkerSoundStep ==
    ASSUME TypeOK, VersionsSound, WorkerSound, NothingWhileDown, Next PROVE WorkerSound'
<1>1. CASE UNCHANGED <<active, step, copy, target>> /\ (up => up')
  BY <1>1, MixedGrows DEF WorkerSound, Rebased, Sound
<1>2. CASE active' = None /\ step' = "none"
  BY <1>2 DEF WorkerSound
<1>3. CASE /\ active = None /\ active' \in Images
           /\ step' = "list" /\ up' = up /\ UNCHANGED kpack
           /\ copy' = Version(active') /\ copy' # None /\ Rebased(copy')
           /\ copy'.built # copy'.droplet => <<active', copy'.droplet>> \in mixed'
  <2>1. Version(active') \in KpackImages /\ Sound(Version(active'))
    BY <1>3, CacheFacts DEF VersionsSound
  <2>2. copy' \in KpackImages /\ Sound(copy)'
    BY <1>3, <2>1 DEF Sound
  <2>3. up'
    BY <1>3, DownStep DEF NothingWhileDown
  <2> QED
    BY <1>3, <2>2, <2>3 DEF WorkerSound, Rebased
<1>4. CASE /\ active # None /\ UNCHANGED <<active, copy>> /\ up' = up
           /\ \/ step = "list" /\ step' = "update" /\ target' \in Names
              \/ step = "update" /\ step' = "patch" /\ target' = target
  BY <1>4, MixedGrows DEF WorkerSound, Rebased, Sound
<1> QED
  BY <1>1, <1>2, <1>3, <1>4, WorkerStep

\* The copy while the worker sends the PATCH: its image is of the droplet that the
\* label names, or of one before it.
LEMMA CopyFacts ==
    ASSUME TypeOK, WorkerSound, step = "patch"
    PROVE  /\ active \in Images /\ active # None /\ copy \in KpackImages
           /\ copy.droplet \in Droplets /\ copy.latest \in References
           /\ copy.droplet \in Nat /\ copy.latest.source \in Nat
           /\ copy.latest.source <= copy.droplet
           /\ copy.latest.source # copy.droplet => <<active, copy.droplet>> \in mixed
           /\ copy.latest.source = copy.droplet => copy.built = copy.droplet
<1>1. active \in Images /\ active # None /\ copy \in KpackImages /\ copy # None
  BY DEF WorkerSound, TypeOK, QueueTypeOK, KpackImages
<1>2. /\ copy.latest.source <= copy.built /\ copy.built <= copy.droplet
      /\ copy.latest.source = copy.built
      /\ copy.built # copy.droplet => <<active, copy.droplet>> \in mixed
  BY <1>1 DEF WorkerSound, Sound, Rebased
<1>3. copy.latest \in References /\ copy.droplet \in Droplets /\ copy.built \in Droplets
  BY <1>1 DEF KpackImages
<1>4. copy.droplet \in Nat /\ copy.built \in Nat /\ copy.latest.source \in Nat
  BY <1>3 DEF References, Droplets
<1> QED
  BY <1>1, <1>2, <1>3, <1>4

\* The steps that write a droplet.
LEMMA DropletsWritten ==
    ASSUME TypeOK, VersionsSound, Next
    PROVE  UNCHANGED droplets \/ UpdateDroplet \/ \E i \in Images : ReportBuild(i)
<1>1. ASSUME NEW i \in Images, Writes(i) PROVE UNCHANGED droplets
  BY <1>1, ImageWritten
<1>2. CASE \A i \in Images : ~Writes(i)
  BY <1>2 DEF Next, Writes, SetCurrentDroplet, StartStatefulSet, TouchStatefulSet, StopStatefulSet,
     Inform, ExpireDelay, Start, StartFails, ListStatefulSets, UpdateStatefulSet, Crash,
     StartManager, LoadConfigFails, platform
<1> QED
  BY <1>1, <1>2

LEMMA DropletPatched ==
    ASSUME TypeOK, WorkerSound, UpdateDroplet
    PROVE  /\ step = "patch" /\ UNCHANGED <<image, lag, staging, mixed>>
           /\ \/ UNCHANGED droplets
              \/ /\ droplets[active][copy.droplet] # None
                 /\ droplets' = [droplets EXCEPT ![active][copy.droplet] = copy.latest]
BY DEF UpdateDroplet, NamedDroplet, NewImage, kpack

LEMMA DropletKeepsSourceStep ==
    ASSUME TypeOK, VersionsSound, DropletsSound, WorkerSound, DropletKeepsSource, Next
    PROVE  DropletKeepsSource'
<1>1. ASSUME NEW i \in Images, NEW d \in Droplets, NEW r \in References,
             r.source = d \/ <<i, d>> \in mixed,
             droplets' = [droplets EXCEPT ![i][d] = r]
      PROVE  DropletKeepsSource'
  BY <1>1, DropletReplaced, MixedGrows DEF DropletKeepsSource
<1>2. CASE UNCHANGED droplets
  BY <1>2, MixedGrows DEF DropletKeepsSource
<1>3. ASSUME NEW i \in Images, ReportBuild(i) PROVE DropletKeepsSource'
  <2>1. UNCHANGED droplets \/ \E d \in Droplets, r \in References :
                                r.source = d /\ droplets' = [droplets EXCEPT ![i][d] = r]
    BY <1>3, ReportBuildFacts
  <2> QED
    BY <1>1, <1>2, <2>1
<1>4. CASE UpdateDroplet
  <2>1. step = "patch"
    BY <1>4, DropletPatched
  <2> QED
    BY <1>1, <1>2, <1>4, <2>1, CopyFacts, DropletPatched
<1> QED
  BY <1>2, <1>3, <1>4, DropletsWritten

\* The steps that change who is being staged.
LEMMA StagingWritten ==
    ASSUME TypeOK, VersionsSound, Next
    PROVE  staging' = staging \/ \E i \in Images : StageDroplet(i) \/ ReportBuild(i)
<1>1. ASSUME NEW i \in Images, Writes(i) PROVE staging' = staging \/ StageDroplet(i)
  BY <1>1, ImageWritten
<1>2. CASE \A i \in Images : ~Writes(i)
  BY <1>2 DEF Next, Writes, SetCurrentDroplet, StartStatefulSet, TouchStatefulSet, StopStatefulSet,
     Inform, ExpireDelay, Start, StartFails, ListStatefulSets, UpdateStatefulSet, UpdateDroplet, Crash,
     StartManager, LoadConfigFails, platform
<1> QED
  BY <1>1, <1>2

\* What DropletsSound says of one image.
DropletsSoundOf(i, img, staged, row) ==
    img # None =>
        /\ i \in staged => row[img.droplet] = None
        /\ \A d \in Droplets : row[d] # None =>
              /\ d <= img.latest.source
              /\ row[d].source = d \/ row[d].source < img.latest.source

LEMMA DropletsSoundStep ==
    ASSUME TypeOK, VersionsSound, DropletsSound, WorkerSound, Next PROVE DropletsSound'
<1>1. \A i \in Images : DropletsSoundOf(i, image[i], staging, droplets[i])
  BY DEF DropletsSound, DropletsSoundOf
<1>2. SUFFICES ASSUME NEW i \in Images
               PROVE  DropletsSoundOf(i, image'[i], staging', droplets'[i])
  BY DEF DropletsSound, DropletsSoundOf
<1>3. image[i] \in KpackImages \cup {None} /\ droplets[i] \in [Droplets -> References \cup {None}]
  BY DEF TypeOK
<1>4. CASE Writes(i)
  <2>1. PICK new \in KpackImages \cup {None} : Follows(image[i], new) /\ SetImage(i, new)
    BY <1>4, ImageWritten
  <2>2. image'[i] = new /\ droplets'[i] = droplets[i]
    BY <1>4, <2>1, SetImageFacts, ImageWritten
  <2>3. SUFFICES ASSUME new # None
                 PROVE  DropletsSoundOf(i, new, staging', droplets[i])
    BY <2>2 DEF DropletsSoundOf
  <2>4. /\ image[i] \in KpackImages /\ new \in KpackImages /\ image[i] # None
        /\ image[i].latest.source <= new.latest.source
    BY <1>3, <2>1, <2>3 DEF Follows
  <2>5. image[i].latest.source \in Nat /\ new.latest.source \in Nat
    BY <2>4 DEF KpackImages, References, Droplets
  <2>6. ASSUME NEW d \in Droplets, droplets[i][d] # None
        PROVE  /\ d <= new.latest.source
               /\ droplets[i][d].source = d \/ droplets[i][d].source < new.latest.source
    <3>1. droplets[i][d].source \in Nat /\ d \in Nat
      BY <1>3, <2>6 DEF References, Droplets
    <3> QED
      BY <1>1, <2>4, <2>5, <2>6, <3>1 DEF DropletsSoundOf
  <2>7. ASSUME i \in staging' PROVE droplets[i][new.droplet] = None
    <3>1. CASE StageDroplet(i)
      <4>1. new = [image[i] EXCEPT !.droplet = @ + 1]
        BY <2>1, <2>2, <3>1, SetImageFacts DEF StageDroplet, SetImage, TypeOK
      <4>2. image[i] \in KpackImages /\ Sound(image[i])
        BY <2>4 DEF VersionsSound, Versions
      <4>3. /\ image[i].droplet \in Nat /\ image[i].built \in Nat
            /\ image[i].latest.source <= image[i].droplet
        BY <2>4, <2>5, <4>2 DEF Sound, KpackImages, Droplets
      <4>4. new.droplet = image[i].droplet + 1 /\ new.latest = image[i].latest
        BY <2>4, <4>1 DEF KpackImages
      <4>5. new.droplet \in Droplets /\ ~(new.droplet <= new.latest.source)
        BY <2>4, <2>5, <4>3, <4>4 DEF KpackImages
      <4> QED
        BY <2>6, <4>5
    <3>2. CASE ~StageDroplet(i)
      <4>1. i \in staging
        BY <1>4, <2>7, <3>2, ImageWritten
      <4>2. new.droplet = image[i].droplet
        <5>1. \/ StartBuild(i) \/ FinishBuild(i) \/ DeleteImage(i)
          BY <1>4, <3>2 DEF Writes
        <5>2. \/ image' = [image EXCEPT ![i] = [image[i] EXCEPT !.ready = "Unknown",
                               !.reason = "CONFIG", !.built = image[i].droplet]]
              \/ image' = [image EXCEPT ![i] = [image[i] EXCEPT !.ready = "Unknown", !.reason = "STACK"]]
              \/ image' = [image EXCEPT ![i] = [image[i] EXCEPT !.ready = "True",
                               !.latest = Built(image[i])]]
              \/ image' = [image EXCEPT ![i] = [image[i] EXCEPT !.ready = "False"]]
              \/ image' = [image EXCEPT ![i] = None]
          BY <5>1 DEF StartBuild, FinishBuild, DeleteImage, SetImage
        <5>3. \/ new = [image[i] EXCEPT !.ready = "Unknown", !.reason = "CONFIG",
                                        !.built = image[i].droplet]
              \/ new = [image[i] EXCEPT !.ready = "Unknown", !.reason = "STACK"]
              \/ new = [image[i] EXCEPT !.ready = "True", !.latest = Built(image[i])]
              \/ new = [image[i] EXCEPT !.ready = "False"]
              \/ new = None
          BY <2>2, <5>2 DEF TypeOK
        <5> HIDE DEF Built
        <5> QED
          BY <2>3, <2>4, <5>3 DEF KpackImages
      <4> QED
        BY <1>1, <2>4, <4>1, <4>2 DEF DropletsSoundOf
    <3> QED
      BY <3>1, <3>2
  <2> QED
    BY <2>6, <2>7 DEF DropletsSoundOf
<1>5. ASSUME NEW j \in Images \ {i}, Writes(j)
      PROVE  DropletsSoundOf(i, image'[i], staging', droplets'[i])
  <2>1. image'[i] = image[i] /\ droplets' = droplets
    BY <1>5, ImageWritten, SetImageFacts
  <2>2. i \in staging' => i \in staging
    BY <1>5, ImageWritten DEF StageDroplet
  <2> QED
    BY <1>1, <2>1, <2>2 DEF DropletsSoundOf
<1>6. ASSUME NEW j \in Images, ReportBuild(j)
      PROVE  DropletsSoundOf(i, image'[i], staging', droplets'[i])
  <2>1. image' = image /\ staging' = staging \ {j}
    BY <1>6, ReportBuildFacts
  <2>2. CASE droplets' = droplets
    BY <1>1, <2>1, <2>2 DEF DropletsSoundOf
  <2>3. ASSUME NEW d \in Droplets, NEW r \in References, r.source = d, d = image[j].latest.source,
               droplets' = [droplets EXCEPT ![j][d] = r]
        PROVE  DropletsSoundOf(i, image'[i], staging', droplets'[i])
    <3>1. \A e \in Droplets : droplets'[i][e] = IF i = j /\ e = d THEN r ELSE droplets[i][e]
      BY <2>3, DropletReplaced
    <3>2. image[i] # None => image[i].droplet \in Droplets
      BY <1>3 DEF KpackImages
    <3>3. d <= d
      BY DEF Droplets
    <3> QED
      BY <1>1, <2>1, <2>3, <3>1, <3>2, <3>3 DEF DropletsSoundOf
  <2> QED
    BY <1>6, <2>2, <2>3, ReportBuildFacts
<1>7. CASE UpdateDroplet
  <2>1. step = "patch" /\ image' = image /\ staging' = staging
    BY <1>7, DropletPatched
  <2>2. CASE droplets' = droplets
    BY <1>1, <2>1, <2>2 DEF DropletsSoundOf
  <2>3. CASE /\ droplets[active][copy.droplet] # None
             /\ droplets' = [droplets EXCEPT ![active][copy.droplet] = copy.latest]
    <3>1. \A e \in Droplets : droplets'[i][e] = IF i = active /\ e = copy.droplet THEN copy.latest
                                                ELSE droplets[i][e]
      BY <2>1, <2>3, CopyFacts, DropletReplaced
    <3>2. image[i] # None => /\ image[i].droplet \in Droplets
                             /\ image[i].latest.source \in Nat
      BY <1>3 DEF KpackImages, References, Droplets
    <3>3. ASSUME image[i] # None, i = active
          PROVE  /\ i \in staging => image[i].droplet # copy.droplet
                 /\ copy.droplet <= image[i].latest.source
                 /\ \/ copy.latest.source = copy.droplet
                    \/ copy.latest.source < image[i].latest.source
      BY <1>1, <2>1, <2>3, <3>2, <3>3, CopyFacts DEF DropletsSoundOf
    <3> QED
      BY <1>1, <2>1, <3>1, <3>2, <3>3 DEF DropletsSoundOf
  <2> QED
    BY <1>7, <2>2, <2>3, DropletPatched
<1>8. CASE UNCHANGED <<image, droplets, staging>>
  BY <1>1, <1>8 DEF DropletsSoundOf
<1>9. ASSUME \A j \in Images : ~Writes(j) /\ ~ReportBuild(j), ~UpdateDroplet
      PROVE  UNCHANGED <<image, droplets, staging>>
  <2>1. UNCHANGED droplets
    BY <1>9, DropletsWritten
  <2>2. UNCHANGED staging
    BY <1>9, StagingWritten DEF Writes
  <2>3. UNCHANGED image
    BY <1>9, OtherSteps DEF kpack, Inform, Crash
  <2> QED
    BY <2>1, <2>2, <2>3
<1> QED
  BY <1>4, <1>5, <1>6, <1>7, <1>8, <1>9

-----------------------------------------------------------------------------
(* The copy of the worker.                                                 *)

\* What is off the way to the queue was so before, while the worker has the image.
LEMMA FreshLasts ==
    ASSUME TypeOK, VersionsSound, WorkerSound, Next,
           NEW i \in Images, active = i, active' = i, Fresh(i)'
    PROVE  /\ Fresh(i) /\ image'[i] = image[i]
           /\ ~Writes(i)
<1>1. up /\ active # None /\ step # "none"
  BY DEF WorkerSound
<1>2. ~Writes(i)
  BY <1>1, ImageWritten, SetImageFacts DEF Fresh
<1>3. ASSUME NEW j \in Images \ {i}, Writes(j)
      PROVE  Fresh(i) /\ image'[i] = image[i]
  BY <1>3, ImageWritten, SetImageFacts DEF Fresh
<1>4. ~Inform(i)
  <2>1. SUFFICES ASSUME Inform(i) PROVE FALSE
    OBVIOUS
  <2>2. NextVersion(i) = image[i] /\ image' = image
    BY <2>1, InformFacts DEF Fresh, Inform
  <2>3. ImageFilter(NextVersion(i))
    BY <2>2 DEF Fresh, Rebased, ImageFilter
  <2> QED
    BY <2>1, <2>3 DEF Inform, Fresh
<1>5. ASSUME NEW j \in Images \ {i}, Inform(j)
      PROVE  Fresh(i) /\ image'[i] = image[i]
  <2>1. image' = image /\ lag'[i] = lag[i] /\ dirty \subseteq dirty'
    BY <1>5, InformFacts DEF Inform
  <2> QED
    BY <2>1 DEF Fresh
<1>6. ~Crash
  BY <1>1 DEF Crash
<1>7. ASSUME UNCHANGED kpack, \A j \in Images : ~Inform(j)
      PROVE  Fresh(i) /\ image'[i] = image[i]
  <2>1. dirty \subseteq dirty'
    BY <1>1, <1>7, ImageWritten DEF Next, Writes, ReportBuild, SetCurrentDroplet, StartStatefulSet, TouchStatefulSet,
       StopStatefulSet, ExpireDelay, Expire, Start, StartFails, Take, ListStatefulSets,
       UpdateStatefulSet, UpdateDroplet, Crash, StartManager, LoadConfigFails, queue
  <2> QED
    BY <1>7, <2>1 DEF Fresh, kpack
<1> QED
  BY <1>2, <1>3, <1>4, <1>5, <1>6, <1>7, OtherSteps

LEMMA CopyCurrentStep ==
    ASSUME TypeOK, VersionsSound, WorkerSound, CopyCurrent, Next PROVE CopyCurrent'
<1> SUFFICES ASSUME active' # None, Fresh(active)' PROVE copy' = image'[active']
  BY DEF CopyCurrent
<1>1. CASE active' = active /\ copy' = copy
  <2>1. PICK i \in Images : active = i /\ active' = i
    BY <1>1 DEF TypeOK, QueueTypeOK
  <2>2. Fresh(i)'
    BY <2>1 DEF Fresh
  <2>3. Fresh(i) /\ image'[i] = image[i]
    BY <2>1, <2>2, FreshLasts
  <2> QED
    BY <1>1, <2>1, <2>3 DEF CopyCurrent
<1>2. CASE active = None /\ active' \in Images /\ copy' = Version(active')
           /\ UNCHANGED kpack
  <2>1. PICK i \in Images : active' = i
    BY <1>2
  <2>2. lag[i] = <<>> /\ image' = image
    BY <1>2, <2>1 DEF Fresh, kpack
  <2> QED
    BY <1>2, <2>1, <2>2, CacheFacts
<1> QED
  BY <1>1, <1>2, WorkerStep

LEMMA SetsInHandStep ==
    ASSUME TypeOK, VersionsSound, WorkerSound, CopyCurrent, SetsInHand, Next PROVE SetsInHand'
<1> SUFFICES ASSUME active' # None, Fresh(active)', active' \notin overtaken',
                    step' \in {"update", "patch"}
             PROVE  /\ step' = "update" => Running(active)' \subseteq {target'}
                    /\ step' = "patch" => \A n \in Running(active)' : sets'[active'][n] = copy'.latest
  BY DEF SetsInHand
<1>1. PICK i \in Images : active = i /\ active' = i
  BY WorkerStep DEF TypeOK, QueueTypeOK
<1>2. /\ Fresh(i) /\ image'[i] = image[i]
      /\ ~Writes(i)
  <2>1. Fresh(i)'
    BY <1>1 DEF Fresh
  <2> QED
    BY <1>1, <2>1, FreshLasts
<1> DEFINE Seen(st, s, tg, c) ==
               /\ st = "update" => \A n \in Names : s[n] # None => n = tg
               /\ st = "patch" => \A n \in Names : s[n] # None => s[n] = c.latest
<1>3. SUFFICES Seen(step', sets'[i], target', copy')
  BY <1>1 DEF Running
<1>4. i \notin overtaken => Seen(step, sets[i], target, copy)
  BY <1>1, <1>2 DEF SetsInHand, Running
<1>5. ASSUME UNCHANGED <<step, target, copy>>, i \notin overtaken,
             \A n \in Names : sets'[i][n] # None => sets'[i][n] = sets[i][n]
      PROVE  Seen(step', sets'[i], target', copy')
  BY <1>4, <1>5
<1>6. ASSUME NEW j \in Images, Writes(j)
      PROVE  Seen(step', sets'[i], target', copy')
  BY <1>1, <1>2, <1>5, <1>6, ImageWritten
<1>7. ASSUME NEW j \in Images,
             ReportBuild(j) \/ SetCurrentDroplet(j) \/ Inform(j) \/ ExpireDelay(j)
      PROVE  Seen(step', sets'[i], target', copy')
  <2>1. UNCHANGED <<sets, step, target, copy, overtaken>>
    BY <1>7 DEF ReportBuild, SetCurrentDroplet, Inform, ExpireDelay, platform, worker, history
  <2> QED
    BY <1>1, <1>5, <2>1
<1>8. ASSUME NEW j \in Images, NEW n \in Names, StartStatefulSet(j, n)
      PROVE  Seen(step', sets'[i], target', copy')
  <2>1. UNCHANGED <<step, target, copy>> /\ sets' = [sets EXCEPT ![j][n] = droplets[j][app[j]]]
    BY <1>8 DEF StartStatefulSet, WriteSet, worker
  <2>2. j # i /\ i \notin overtaken
    BY <1>1, <1>8, <2>1 DEF StartStatefulSet
  <2>3. sets'[i] = sets[i]
    BY <2>1, <2>2
  <2> QED
    BY <1>5, <2>1, <2>2, <2>3
<1>9. ASSUME NEW j \in Images, NEW n \in Names, TouchStatefulSet(j, n) \/ StopStatefulSet(j, n)
      PROVE  Seen(step', sets'[i], target', copy')
  <2>1. UNCHANGED <<step, target, copy, overtaken>>
        /\ \E r \in {None, sets[j][n]} : sets' = [sets EXCEPT ![j][n] = r]
    BY <1>9 DEF TouchStatefulSet, StopStatefulSet, WriteSet, worker, history
  <2>2. sets[j][n] \in References \cup {None}
    BY DEF TypeOK
  <2>3. \A m \in Names : sets'[i][m] # None => sets'[i][m] = sets[i][m]
    BY <2>1, <2>2, SetReplaced
  <2> QED
    BY <1>1, <1>5, <2>1, <2>3
<1>10. ASSUME NEW j \in Images, Start(j) \/ StartFails(j) PROVE FALSE
  BY <1>1, <1>10 DEF Start, StartFails, Take, WorkerSound
<1>11. CASE ListStatefulSets
  <2>1. /\ Cardinality(Running(i)) = 1 /\ target' \in Running(i)
        /\ sets' = sets /\ step' = "update"
    BY <1>1, <1>11 DEF ListStatefulSets, Forget, Requeue, DoneAndForget, DoneAndRequeue, WorkerSound,
       platform
  <2>2. IsFiniteSet(Running(i))
    BY FS_Subset DEF Running
  <2>3. \E n : Running(i) = {n}
    BY <2>1, <2>2, FS_Singleton
  <2> QED
    BY <2>1, <2>3 DEF Running
<1>12. CASE UpdateStatefulSet
  <2>1. /\ step = "update" /\ step' = "patch" /\ UNCHANGED <<target, copy, overtaken>>
        /\ sets' = [sets EXCEPT ![i][target] = copy.latest]
    BY <1>1, <1>12 DEF UpdateStatefulSet, UpdateResult, Requeue, DoneAndRequeue, WorkerSound, NewImage,
       history
  <2>2. target \in Names /\ copy.latest \in References
    BY <2>1 DEF WorkerSound, KpackImages
  <2>3. \A n \in Names : sets'[i][n] = IF n = target THEN copy.latest ELSE sets[i][n]
    BY <2>1, <2>2, SetReplaced
  <2> QED
    BY <1>1, <1>4, <2>1, <2>3
<1>13. CASE UpdateDroplet \/ Crash
  BY <1>1, <1>13 DEF UpdateDroplet, DropletResult, Crash, Forget, Requeue, DoneAndForget, DoneAndRequeue,
     WorkerSound
<1>14. CASE StartManager \/ LoadConfigFails
  <2>1. UNCHANGED <<sets, step, target, copy, overtaken>>
    BY <1>14 DEF StartManager, LoadConfigFails, platform, worker, history
  <2> QED
    BY <1>1, <1>5, <2>1
<1> QED
  BY <1>6, <1>7, <1>8, <1>9, <1>10, <1>11, <1>12, <1>13, <1>14 DEF Next, Writes

-----------------------------------------------------------------------------
(* What leaves the way to the StatefulSets and the droplet has arrived.    *)

\* After a step, a rebuilt image is not on its way any more: it was not before, or
\* its handling has ended well.
LEMMA OffTheWay ==
    ASSUME IInv, Next, NEW i \in Images,
           ~OnItsWay(i)', image'[i] # None, Rebased(image'[i]), i \notin Dropped'
    PROVE  /\ image'[i] = image[i]
           /\ i \in overtaken <=> i \in overtaken'
           /\ \/ /\ ~OnItsWay(i) /\ i \notin Dropped
                 /\ \A d \in Droplets : droplets'[i][d] = droplets[i][d] \/ droplets[i][d] = None
                 /\ \A n \in Names : sets'[i][n] \in {None, sets[i][n], droplets[i][app[i]]}
              \/ /\ active = i /\ Fresh(i) /\ step = "patch" /\ sets' = sets
                 /\ droplets[i][copy.droplet] # None
                 /\ droplets'[i][copy.droplet] = copy.latest
<1> USE DEF IInv, OnItsWay, Pending
<1> DEFINE Staged == \A d \in Droplets : droplets'[i][d] = droplets[i][d] \/ droplets[i][d] = None
           Same == /\ image'[i] = image[i]
                   /\ i \in overtaken <=> i \in overtaken'
                   /\ ~OnItsWay(i) /\ i \notin missed /\ i \notin early /\ Staged
                   /\ \A n \in Names : sets'[i][n] \in {None, sets[i][n], droplets[i][app[i]]}
<1>1. /\ i \notin dirty' /\ i \notin delayed' /\ active' # i /\ lag'[i] = <<>> /\ up'
      /\ i \notin missed' /\ i \notin early'
  BY DEF Dropped
<1>2. ASSUME NEW j \in Images, Writes(j)
      PROVE  Same
  <2>1. UNCHANGED <<dirty, delayed, active, sets, up>>
    BY <1>2, ImageWritten
  <2>2. j # i
    BY <1>1, <1>2, <2>1, ImageWritten, SetImageFacts
  <2>3. image'[i] = image[i] /\ lag'[i] = lag[i]
    BY <1>2, <2>2, ImageWritten, SetImageFacts
  <2>4. droplets' = droplets
    BY <1>2, ImageWritten
  <2>5. i \notin missed /\ i \notin early /\ (i \in overtaken <=> i \in overtaken')
    BY <1>1, <1>2, <2>2, ImageWritten
  <2> QED
    BY <1>1, <2>1, <2>3, <2>4, <2>5
<1>2a. ASSUME NEW j \in Images, ReportBuild(j) PROVE Same
  <2>1. /\ UNCHANGED <<dirty, delayed, active, image, lag, sets, missed, overtaken, early, up>>
    BY <1>2a, ReportBuildFacts
  <2>2. Staged
    <3>1. CASE UNCHANGED droplets
      BY <3>1
    <3>2. ASSUME NEW d \in Droplets, NEW r \in References, droplets[j][d] = None,
                 droplets' = [droplets EXCEPT ![j][d] = r]
          PROVE  Staged
      BY <3>2, DropletReplaced
    <3> QED
      BY <1>2a, <3>1, <3>2, ReportBuildFacts
  <2> HIDE DEF Staged
  <2> QED
    BY <1>1, <2>1, <2>2
<1>3. ASSUME NEW j \in Images, SetCurrentDroplet(j) PROVE Same
  BY <1>1, <1>3 DEF SetCurrentDroplet, queue, kpack, history
<1>4. ASSUME NEW j \in Images, NEW n \in Names, NEW r, WriteSet(j, n, r),
             r \in {None, sets[j][n], droplets[j][app[j]]}
      PROVE  \A m \in Names : sets'[i][m] \in {None, sets[i][m], droplets[i][app[i]]}
  <2>1. r \in References \cup {None}
    BY <1>4 DEF TypeOK
  <2> QED
    BY <1>4, <2>1, SetReplaced DEF WriteSet
<1>5. ASSUME NEW j \in Images, NEW n \in Names, StartStatefulSet(j, n) PROVE Same
  <2>1. /\ UNCHANGED <<queue, kpack, droplets, app, worker, missed, early, up, faults>>
        /\ WriteSet(j, n, droplets[j][app[j]])
        /\ i \in overtaken <=> i \in overtaken'
    BY <1>1, <1>5 DEF StartStatefulSet, queue
  <2> QED
    BY <1>1, <1>4, <2>1 DEF queue, kpack
<1>6. ASSUME NEW j \in Images, NEW n \in Names, TouchStatefulSet(j, n) \/ StopStatefulSet(j, n)
      PROVE  Same
  <2>1. /\ UNCHANGED <<queue, kpack, droplets, staging, app, worker, history, up, faults>>
        /\ \E r \in {None, sets[j][n]} : WriteSet(j, n, r)
    BY <1>6 DEF TouchStatefulSet, StopStatefulSet
  <2> QED
    BY <1>1, <1>4, <2>1 DEF queue, kpack, history
<1>7. ASSUME NEW j \in Images, Inform(j) PROVE Same
  <2>1. UNCHANGED <<delayed, active, image, platform, missed, overtaken, early, up>>
    BY <1>7 DEF Inform, history
  <2>2. j # i
    <3>1. SUFFICES ASSUME j = i PROVE FALSE
      OBVIOUS
    <3>2. NextVersion(i) = image[i]
      BY <1>1, <1>7, <3>1, InformFacts
    <3>3. ImageFilter(NextVersion(i))
      BY <2>1, <3>2 DEF Rebased, ImageFilter
    <3> QED
      BY <1>1, <1>7, <3>1, <3>3 DEF Inform
  <2>3. lag'[i] = lag[i] /\ dirty \subseteq dirty'
    BY <1>7, <2>2, InformFacts DEF Inform
  <2> QED
    BY <1>1, <2>1, <2>3 DEF platform
<1>8. ASSUME NEW j \in Images, ExpireDelay(j) PROVE Same
  BY <1>1, <1>8 DEF ExpireDelay, Expire, kpack, platform, history
<1>9. ASSUME NEW j \in Images, Start(j) PROVE Same
  <2>1. j = i => Rebased(Version(i))
    BY <1>1, <1>9, CacheFacts DEF Start, kpack
  <2> QED
    BY <1>1, <1>9, <2>1 DEF Start, Take, kpack, platform, history
<1>10. ASSUME NEW j \in Images, StartFails(j) PROVE Same
  BY <1>1, <1>10 DEF StartFails, Take, kpack, platform, history
<1>11. CASE ListStatefulSets
  <2>1. active # i /\ i \notin delayed /\ i \notin missed
    BY <1>1, <1>11 DEF ListStatefulSets, Forget, Requeue, DoneAndForget, DoneAndRequeue
  <2> QED
    BY <1>1, <1>11, <2>1 DEF ListStatefulSets, kpack, platform, Dropped
<1>12. CASE UpdateStatefulSet
  <2>1. active # i /\ delayed \subseteq delayed'
    BY <1>1, <1>12 DEF UpdateStatefulSet, UpdateResult, Requeue, DoneAndRequeue
  <2>2. active \in Images /\ target \in Names /\ copy.latest \in References
    BY <1>12 DEF UpdateStatefulSet, WorkerSound, TypeOK, QueueTypeOK, KpackImages
  <2>3. UNCHANGED sets \/ sets' = [sets EXCEPT ![active][target] = copy.latest]
    BY <1>12 DEF UpdateStatefulSet, NewImage
  <2>4. sets'[i] = sets[i]
    BY <2>1, <2>3 DEF TypeOK
  <2> QED
    BY <1>1, <1>12, <2>1, <2>4 DEF UpdateStatefulSet, kpack, history, Dropped
<1>13. ASSUME UpdateDroplet, active # i PROVE Same
  <2>1. /\ UNCHANGED <<dirty, lag, image, app, sets, missed, overtaken, up>> /\ delayed \subseteq delayed'
        /\ early \subseteq early'
    BY <1>13 DEF UpdateDroplet, DropletResult, Forget, Requeue, DoneAndForget, DoneAndRequeue, kpack
  <2>2. Staged
    BY <1>13, DropletPatched, CopyFacts, DropletReplaced
  <2> HIDE DEF Staged
  <2> QED
    BY <1>1, <1>13, <2>1, <2>2
<1>14. ASSUME UpdateDroplet, active = i
       PROVE  /\ UNCHANGED <<image, sets, overtaken>> /\ Fresh(i) /\ step = "patch"
              /\ droplets[i][copy.droplet] # None
              /\ droplets'[i][copy.droplet] = copy.latest
  <2>1. /\ UNCHANGED <<dirty, image, lag, sets, overtaken>> /\ step = "patch"
    BY <1>14 DEF UpdateDroplet, kpack
  <2>2. ~Requeue
    BY <1>1, <1>14 DEF Requeue, DoneAndRequeue
  <2>3. droplets[i][copy.droplet] # None
    BY <1>1, <1>14, <2>2 DEF UpdateDroplet, DropletResult, NamedDroplet
  <2>4. droplets' = [droplets EXCEPT ![i][copy.droplet] = copy.latest]
    BY <1>14, <2>2, <2>3 DEF UpdateDroplet, DropletResult, NamedDroplet, NewImage
  <2>5. copy.droplet \in Droplets /\ copy.latest \in References
    BY <2>1, CopyFacts
  <2> QED
    BY <1>1, <2>1, <2>3, <2>4, <2>5, DropletReplaced DEF Fresh
<1>15. ~Crash
  BY <1>1 DEF Crash
<1>16. ~StartManager
  BY <1>1 DEF StartManager, Relisted, Rebased, ImageFilter, kpack
<1>17. CASE LoadConfigFails
  BY <1>1, <1>17 DEF LoadConfigFails, queue, kpack, platform, history
<1> HIDE DEF Same, IInv, OnItsWay, Pending
<1>18. ASSUME NEW j \in Images,
              \/ Writes(j) \/ ReportBuild(j) \/ SetCurrentDroplet(j)
              \/ \E n \in Names :
                    StartStatefulSet(j, n) \/ TouchStatefulSet(j, n) \/ StopStatefulSet(j, n)
              \/ Inform(j) \/ ExpireDelay(j) \/ Start(j) \/ StartFails(j)
       PROVE  Same
  BY <1>2, <1>3, <1>5, <1>6, <1>7, <1>8, <1>9, <1>10, <1>18, <1>2a
<1>19. CASE ListStatefulSets \/ UpdateStatefulSet \/ StartManager \/ Crash \/ LoadConfigFails
  BY <1>11, <1>12, <1>15, <1>16, <1>17, <1>19
<1> QED
  BY <1>13, <1>14, <1>18, <1>19 DEF Same, Next, Writes, Dropped

LEMMA NoDropletLostStep == ASSUME IInv, Next PROVE NoDropletLost'
<1> SUFFICES ASSUME NEW i \in Images, i \notin Dropped', DropletBehind(i)', ~OnItsWay(i)'
             PROVE  FALSE
  BY DEF NoDropletLost
<1>1. image'[i] # None /\ Rebased(image'[i])
      /\ droplets'[i][image'[i].latest.source] # image'[i].latest
  BY DEF DropletBehind, Rebased
<1>2. CASE /\ ~OnItsWay(i) /\ image'[i] = image[i] /\ i \notin Dropped
           /\ \A d \in Droplets : droplets'[i][d] = droplets[i][d] \/ droplets[i][d] = None
  <2>1. image[i] \in KpackImages
    BY <1>1, <1>2 DEF IInv, TypeOK
  <2>2. image[i].latest \in References /\ image[i].latest.source \in Droplets
    BY <2>1 DEF KpackImages, References
  <2>3. DropletBehind(i)
    BY <1>1, <1>2, <2>2 DEF DropletBehind
  <2> QED
    BY <1>2, <2>3 DEF IInv, NoDropletLost
<1>3. CASE /\ active = i /\ Fresh(i) /\ image'[i] = image[i] /\ step = "patch"
           /\ droplets[i][copy.droplet] # None
           /\ droplets'[i][copy.droplet] = copy.latest
  <2>1. copy = image[i]
    BY <1>3 DEF IInv, CopyCurrent, TypeOK
  <2>2. copy.droplet \in Droplets /\ copy.latest.source <= copy.droplet
        /\ copy.droplet \in Nat /\ copy.latest.source \in Nat
    BY <1>3, CopyFacts DEF IInv
  <2>3. copy.droplet <= copy.latest.source
    BY <1>1, <1>3, <2>1, <2>2 DEF IInv, DropletsSound
  <2>4. copy.droplet = copy.latest.source
    BY <2>2, <2>3
  <2> QED
    BY <1>1, <1>3, <2>1, <2>4
<1> QED
  BY <1>1, <1>2, <1>3, OffTheWay

\* A StatefulSet that Eirini starts from the app's current droplet is behind only if
\* the droplet of the rebuilt source is.
LEMMA StartedBehind ==
    ASSUME TypeOK, DropletsSound, NEW i \in Images,
           image[i] # None, Rebased(image[i]), droplets[i][app[i]] # None,
           Older(droplets[i][app[i]], image[i].latest)
    PROVE  DropletBehind(i)
<1>1. app[i] \in Droplets /\ image[i] \in KpackImages /\ droplets[i][app[i]] \in References
  BY DEF TypeOK
<1>2. /\ image[i].latest.source \in Nat /\ image[i].latest.stacks \in Nat
  BY <1>1 DEF KpackImages, References, Droplets
<1>3. \/ droplets[i][app[i]].source = app[i]
      \/ droplets[i][app[i]].source < image[i].latest.source
  BY <1>1 DEF DropletsSound
<1>4. app[i] = image[i].latest.source
  BY <1>2, <1>3 DEF Older
<1>5. droplets[i][app[i]] # image[i].latest
  BY <1>2 DEF Older
<1> QED
  BY <1>4, <1>5 DEF DropletBehind

LEMMA OnlyOvertakenLostStep == ASSUME IInv, Next PROVE OnlyOvertakenLost'
<1> SUFFICES ASSUME NEW i \in Images, i \notin Dropped', i \notin overtaken',
                    SetsBehind(i)', ~OnItsWay(i)'
             PROVE  FALSE
  BY DEF OnlyOvertakenLost
<1>1. image'[i] # None /\ Rebased(image'[i])
  BY DEF SetsBehind, Rebased
<1>2. PICK n \in Names : sets'[i][n] # None /\ Older(sets'[i][n], image'[i].latest)
  BY DEF SetsBehind, Running, Older
<1>3. CASE /\ ~OnItsWay(i) /\ image'[i] = image[i] /\ i \notin Dropped /\ i \notin overtaken
           /\ sets'[i][n] \in {None, sets[i][n], droplets[i][app[i]]}
  <2>1. ~SetsBehind(i) /\ ~DropletBehind(i)
    BY <1>3 DEF IInv, NoDropletLost, OnlyOvertakenLost
  <2>2. CASE sets'[i][n] = sets[i][n]
    BY <1>1, <1>2, <1>3, <2>1, <2>2 DEF SetsBehind, Running
  <2>3. CASE sets'[i][n] = droplets[i][app[i]]
    BY <1>1, <1>2, <1>3, <2>1, <2>3, StartedBehind DEF IInv
  <2> QED
    BY <1>2, <1>3, <2>2, <2>3
<1>4. CASE /\ active = i /\ Fresh(i) /\ step = "patch" /\ sets' = sets
           /\ image'[i] = image[i] /\ i \notin overtaken
  <2>1. copy = image[i] /\ copy \in KpackImages
    BY <1>4 DEF IInv, CopyCurrent, WorkerSound, TypeOK
  <2>2. copy.latest.stacks \in Nat
    BY <2>1 DEF KpackImages, References
  <2>3. sets[i][n] = copy.latest
    BY <1>2, <1>4 DEF IInv, SetsInHand, Running, WorkerSound
  <2> QED
    BY <1>2, <1>4, <2>1, <2>2, <2>3 DEF Older
<1> QED
  BY <1>1, <1>2, <1>3, <1>4, OffTheWay

-----------------------------------------------------------------------------
LEMMA InitIInv == Init => IInv
<1> SUFFICES ASSUME Init PROVE IInv
  OBVIOUS
<1>1. TypeOK
  BY InitTypeOK
<1>2. /\ dirty = {} /\ delayed = {} /\ active = None /\ step = "none" /\ up = FALSE
      /\ \A i \in Images : /\ lag[i] = <<>>
                           /\ image[i] = [ready |-> "True", reason |-> "CONFIG",
                                          latest |-> First, droplet |-> 1, built |-> 1]
                           /\ droplets[i] = [d \in Droplets |-> IF d = 1 THEN First ELSE None]
      /\ staging = {}
  BY DEF Init
<1>2a. \A i \in Images : /\ image[i].latest.source = 1 /\ image[i].built = 1 /\ image[i].droplet = 1
                         /\ image[i].ready = "True" /\ image[i].reason = "CONFIG"
  <2>1. ASSUME NEW i \in Images
        PROVE  image[i] = [ready |-> "True", reason |-> "CONFIG",
                           latest |-> [source |-> 1, stacks |-> 0], droplet |-> 1, built |-> 1]
    BY <1>2 DEF First
  <2> QED
    BY <2>1
<1>3. VersionsSound
  <2>1. ASSUME NEW i \in Images PROVE Sound(image[i]) /\ Versions(i) = {image[i]}
    <3>1. Sound(image[i])
      <4>1. 1 <= 1
        OBVIOUS
      <4> QED
        BY <1>2a, <4>1 DEF Sound
    <3>2. Versions(i) = {image[i]}
      <4>1. lag[i] = <<>>
        BY <1>2
      <4>2. DOMAIN <<>> = {}
        OBVIOUS
      <4> QED
        BY <4>1, <4>2 DEF Versions
    <3> QED
      BY <3>1, <3>2
  <2> QED
    BY <2>1 DEF VersionsSound
<1>3a. DropletsSound
  <2>1. ASSUME NEW i \in Images, NEW d \in Droplets, droplets[i][d] # None
        PROVE  d = 1 /\ droplets[i][d] = First
    BY <1>2, <2>1
  <2> QED
    BY <1>2, <1>2a, <2>1 DEF DropletsSound, First
<1>4. WorkerSound /\ NothingWhileDown /\ CopyCurrent /\ SetsInHand
  BY <1>2 DEF WorkerSound, NothingWhileDown, CopyCurrent, SetsInHand
<1>5. DropletKeepsSource
  BY DEF Init, DropletKeepsSource, First, Droplets
<1>6. NoDropletLost /\ OnlyOvertakenLost
  BY <1>2 DEF NoDropletLost, OnlyOvertakenLost, OnItsWay
<1> QED
  BY <1>1, <1>3, <1>4, <1>5, <1>6, <1>3a DEF IInv

LEMMA StepIInv == IInv /\ [Next]_vars => IInv'
<1> SUFFICES ASSUME IInv, [Next]_vars PROVE IInv'
  OBVIOUS
<1>1. CASE Next
  <2>1. TypeOK' /\ VersionsSound' /\ DropletsSound'
    BY <1>1, TypeStep, VersionsSoundStep, DropletsSoundStep DEF IInv
  <2>2. WorkerSound' /\ NothingWhileDown'
    BY <1>1, WorkerSoundStep, DownStep DEF IInv
  <2>3. CopyCurrent' /\ SetsInHand' /\ DropletKeepsSource'
    BY <1>1, CopyCurrentStep, SetsInHandStep, DropletKeepsSourceStep DEF IInv
  <2>4. NoDropletLost' /\ OnlyOvertakenLost'
    BY <1>1, NoDropletLostStep, OnlyOvertakenLostStep
  <2> QED
    BY <2>1, <2>2, <2>3, <2>4 DEF IInv
<1>2. CASE UNCHANGED vars
  <2>1. UNCHANGED <<dirty, delayed, active, image, lag, droplets, staging, app, sets, step, copy,
                    target, moved, missed, overtaken, early, mixed, up, ops, faults>>
    BY <1>2 DEF vars, queue, kpack, platform, worker, history
  <2> QED
    BY <2>1 DEF IInv, TypeOK, QueueTypeOK, VersionsSound, Versions, DropletsSound, WorkerSound,
       NothingWhileDown, CopyCurrent, Fresh, SetsInHand, Running, DropletKeepsSource, NoDropletLost,
       DropletBehind, Dropped, OnlyOvertakenLost, SetsBehind, OnItsWay, Pending
<1> QED
  BY <1>1, <1>2

THEOREM Invariance == Spec => []IInv
BY InitIInv, StepIInv, PTL DEF Spec

\* The state has the types that TypeOK gives it.
THEOREM TypeCorrect == Spec => []TypeOK
<1>1. IInv => TypeOK
  BY DEF IInv
<1> QED
  BY <1>1, Invariance, PTL

\* Another source's image gets into a droplet only by an image that the worker took
\* between CC's write of the label and kpack's of the status: a label that changes
\* later, while it lists, updates, waits or tries again, does no harm, because label
\* and image are of one copy (UpdateDroplet).
THEOREM RightDroplet == Spec => []DropletKeepsSource
<1>1. IInv => DropletKeepsSource
  BY DEF IInv
<1> QED
  BY <1>1, Invariance, PTL

\* A rebuild is not lost to its droplet, whatever is staged, rebuilt, deleted, retried
\* or restarted meanwhile, unless the app was found without a StatefulSet or CC was
\* told under the label of a droplet that was not staged yet (handleRebasedImage).
THEOREM DropletArrivesOrIsPending == Spec => []NoDropletLost
<1>1. IInv => NoDropletLost
  BY DEF IInv
<1> QED
  BY <1>1, Invariance, PTL

\* A StatefulSet is left in an older build only if one was started behind the
\* worker's List, or the rebuild was dropped as above (handleRebasedImage).
THEOREM OnlyTheOvertakenAreLost == Spec => []OnlyOvertakenLost
<1>1. IInv => OnlyOvertakenLost
  BY DEF IInv
<1> QED
  BY <1>1, Invariance, PTL

-----------------------------------------------------------------------------
(* Apps with one StatefulSet that are never stopped.                       *)

\* Its only StatefulSet is there at any time, so none is started.
OneSet(n) == overtaken = {} /\ \A i \in Images : sets[i][n] # None

LEMMA OneSetStep ==
    ASSUME NEW n, Names = {n}, ~MayStop, IInv, OneSet(n), [Next]_vars
    PROVE  OneSet(n)'
<1>1. sets \in [Images -> [Names -> References \cup {None}]] /\ n \in Names
  BY DEF IInv, TypeOK
<1>2. ASSUME NEW i \in Images, NEW v \in References, sets' = [sets EXCEPT ![i][n] = v]
      PROVE  \A j \in Images : sets'[j][n] # None
  BY <1>1, <1>2, SetReplaced DEF OneSet
<1>3. CASE UNCHANGED <<sets, overtaken>>
  BY <1>3 DEF OneSet
<1>4. ASSUME NEW i \in Images, FinishBuild(i)
      PROVE  OneSet(n)'
  BY <1>4 DEF FinishBuild, OneSet, history, platform
<1>5. ASSUME NEW i \in Images, NEW m \in Names, StartStatefulSet(i, m)
      PROVE  OneSet(n)'
  BY <1>5 DEF StartStatefulSet, OneSet
<1>6. ASSUME NEW i \in Images, NEW m \in Names, TouchStatefulSet(i, m)
      PROVE  OneSet(n)'
  <2>1. sets[i][m] \in References /\ m = n
    BY <1>1, <1>6 DEF TouchStatefulSet
  <2>2. overtaken' = overtaken /\ sets' = [sets EXCEPT ![i][n] = sets[i][m]]
    BY <1>6, <2>1 DEF TouchStatefulSet, WriteSet, history
  <2> QED
    BY <1>2, <2>1, <2>2 DEF OneSet
<1>7. ASSUME NEW i \in Images, NEW m \in Names, StopStatefulSet(i, m)
      PROVE  OneSet(n)'
  <2>1. Running(i) # {m} /\ sets[i][m] # None
    BY <1>7 DEF StopStatefulSet
  <2> QED
    BY <2>1 DEF Running
<1>8. CASE UpdateStatefulSet
  <2>1. active \in Images /\ target = n /\ copy.latest \in References
    <3>1. step = "update"
      BY <1>8 DEF UpdateStatefulSet
    <3>2. active \in Images /\ target \in Names /\ copy \in KpackImages
      BY <3>1 DEF IInv, TypeOK, QueueTypeOK, WorkerSound
    <3> QED
      BY <3>2 DEF KpackImages
  <2>2. overtaken' = overtaken
    BY <1>8 DEF UpdateStatefulSet, history
  <2>3. CASE sets' = [sets EXCEPT ![active][target] = NewImage]
    BY <1>2, <2>1, <2>2, <2>3 DEF OneSet, NewImage
  <2>4. CASE sets' = sets
    BY <2>2, <2>4 DEF OneSet
  <2> QED
    BY <1>8, <2>3, <2>4 DEF UpdateStatefulSet
<1>9. CASE ListStatefulSets \/ UpdateDroplet \/ Crash \/ StartManager \/ LoadConfigFails
  BY <1>3, <1>9 DEF ListStatefulSets, UpdateDroplet, Crash, StartManager, LoadConfigFails,
     platform, history
<1>10. ASSUME NEW i \in Images,
              \/ StageDroplet(i) \/ StartBuild(i) \/ ReportBuild(i) \/ DeleteImage(i)
              \/ SetCurrentDroplet(i) \/ Inform(i) \/ ExpireDelay(i) \/ Start(i) \/ StartFails(i)
       PROVE  OneSet(n)'
  BY <1>3, <1>10 DEF StageDroplet, StartBuild, ReportBuild, DeleteImage, SetCurrentDroplet, Inform,
     ExpireDelay, Start, StartFails, platform, history
<1>11. CASE UNCHANGED vars
  BY <1>3, <1>11 DEF vars, platform, history
<1> QED
  BY <1>4, <1>5, <1>6, <1>7, <1>8, <1>9, <1>10, <1>11 DEF Next

\* What the rolling deployment takes away holds without one: the rebuild of an app
\* with one StatefulSet that is not stopped reaches it, or is on its way
\* (handleRebasedImage, Requeue).
THEOREM OneStatefulSetIsReached ==
    ASSUME NEW n, Names = {n}, ~MayStop
    PROVE  Spec => []NoRebaseLost
<1>1. Init => OneSet(n)
  BY DEF Init, OneSet, First, References, Droplets
<1>2. IInv /\ OneSet(n) /\ [Next]_vars => OneSet(n)'
  BY OneSetStep
<1>3. IInv /\ OneSet(n) => NoRebaseLost
  BY DEF IInv, OneSet, OnlyOvertakenLost, NoRebaseLost
<1> QED
  BY <1>1, <1>2, <1>3, Invariance, PTL DEF Spec
=============================================================================
