------------------------ MODULE BackupMetadataProofs ------------------------
(***************************************************************************)
(* Proofs about BackupMetadata, for every installation and every bound.    *)
(***************************************************************************)
EXTENDS BackupMetadata, FiniteSetTheorems, FunctionTheorems, TLAPS

\* The lists that have not begun.
Ahead ==
    IF pc \in {"read", "connect"} THEN Kinds
    ELSE IF pc = "orgs" THEN {"spaces", "apps", "users"}
    ELSE IF pc = "spaces" THEN {"apps", "users"}
    ELSE IF pc = "apps" THEN {"users"} ELSE {}

\* Nothing is listed before its turn, and nothing by a list that failed; a list that
\* has read nothing has skipped nothing.
InTurn ==
    /\ \A kind \in Ahead : listed[kind] = {} /\ kind \notin failed
    /\ pc \notin failed
    /\ \A kind \in failed : listed[kind] = {}
    /\ \A kind \in Kinds : listed[kind] = {} => skipped[kind] = {}

\* While nothing is created and no list fails, a list that has ended has passed at
\* least what is still there of its kind, and the parents of what is listed later.
ParentsListed ==
    failed = {} /\ ~created =>
        /\ pc \in {"spaces", "apps", "users", "print"} => cf["orgs"] \subseteq Passed("orgs")
        /\ pc \in {"apps", "users", "print"} => cf["spaces"] \subseteq Passed("spaces")
        /\ \A s \in listed["spaces"] : OrgOf[s] \in Passed("orgs")
        /\ \A a \in listed["apps"] : SpaceOf[a] \in Passed("spaces")

\* While nothing is deleted either, no row is skipped and what was listed is what
\* there is.
ListedCurrent ==
    /\ failed = {} /\ ~created /\ ~deleted
    /\ pc \in Kinds \cup {"print"} \/ printed # None
    => /\ \A kind \in Kinds : skipped[kind] = {}
       /\ \A kind \in Kinds \ (Ahead \cup {pc}) : listed[kind] = cf[kind]
       /\ pc \in Kinds => listed[pc] \subseteq cf[pc]

ReportPrinted ==
    pc = "exited" /\ mode = "report" /\ printed # None => printed = Metadata(listed)

\* A comparison has read its input before it lists anything, and the input is the
\* last backup's report if it is a report.
InputIsBackup ==
    mode = "compare" =>
        /\ stdin # None => stdin = Malformed \/ stdin = backup
        /\ pc \in Kinds \cup {"connect", "print"} => stdin # None

\* A backup that nothing disturbed is the report of what there was.
ExactBackup ==
    exact # None => ByKind(exact) /\ Consistent(exact) /\ backup = Metadata(exact)

VerdictPrinted ==
    pc = "exited" /\ mode = "compare" /\ printed # None =>
        /\ stdin # None /\ Decodes(stdin)
        /\ \/ printed = Compare(stdin, Metadata(listed))
           \/ printed = "differs" /\ reordered

IInv == /\ TypeOK /\ Consistent(cf)
        /\ InTurn /\ ParentsListed /\ ListedCurrent
        /\ ReportPrinted /\ InputIsBackup /\ ExactBackup /\ VerdictPrinted

USE BackupMetadataAssumption

-----------------------------------------------------------------------------
(* The summary.                                                            *)

\* A space whose org was listed has its place in the org's summary, with all its
\* listed apps.
LEMMA HasPlace ==
    ASSUME NEW orgs, NEW spaces, NEW apps, NEW s \in spaces, OrgOf[s] \in orgs
    PROVE  \E o \in OrgsSummary(orgs, spaces, apps) :
              /\ o.name = Name[OrgOf[s]]
              /\ \E t \in o.spaces :
                    /\ t.name = Name[s]
                    /\ \A a \in apps : SpaceOf[a] = s => Name[a] \in t.apps
<1> DEFINE appMap == AppMap(apps)
           map == SpacesMap(appMap, spaces)
           o == [name |-> Name[OrgOf[s]], spaces |-> Lookup(map, OrgOf[s])]
           t == [name |-> Name[s], apps |-> Lookup(appMap, s)]
<1>1. o \in OrgsSummary(orgs, spaces, apps)
  BY DEF OrgsSummary
<1>2. Lookup(map, OrgOf[s]) =
          {[name |-> Name[x], apps |-> Lookup(appMap, x)] : x \in {y \in spaces : OrgOf[y] = OrgOf[s]}}
  BY DEF Lookup, SpacesMap
<1>3. t \in o.spaces
  BY <1>2
<1>4. ASSUME NEW a \in apps, SpaceOf[a] = s PROVE Name[a] \in Lookup(appMap, s)
  <2>1. s \in DOMAIN appMap /\ appMap[s] = {Name[b] : b \in {c \in apps : SpaceOf[c] = s}}
    BY <1>4 DEF AppMap
  <2> HIDE DEF appMap
  <2> QED
    BY <1>4, <2>1 DEF Lookup
<1> HIDE DEF appMap, map
<1>5. o.name = Name[OrgOf[s]] /\ t.name = Name[s] /\ t.apps = Lookup(appMap, s)
  OBVIOUS
<1> HIDE DEF o, t
<1> QED
  BY <1>1, <1>3, <1>4, <1>5

\* The summary is the tree of names: what has no children is not in the maps, and
\* what is not in a map has no children.
LEMMA SummaryIsTree ==
    ASSUME NEW state
    PROVE  OrgsSummary(state["orgs"], state["spaces"], state["apps"]) = Tree(state)
<1> DEFINE orgs == state["orgs"]
           spaces == state["spaces"]
           apps == state["apps"]
           appMap == AppMap(apps)
           map == SpacesMap(appMap, spaces)
           AppNames(s) == {Name[a] : a \in {b \in apps : SpaceOf[b] = s}}
           SpaceTree(o) == {[name |-> Name[s], apps |-> AppNames(s)] : s \in {t \in spaces : OrgOf[t] = o}}
<1>1. ASSUME NEW s PROVE Lookup(appMap, s) = AppNames(s)
  <2>1. CASE \E a \in apps : SpaceOf[a] = s
    <3>1. s \in DOMAIN appMap /\ appMap[s] = AppNames(s)
      BY <2>1 DEF AppMap
    <3> HIDE DEF appMap
    <3> QED
      BY <3>1 DEF Lookup
  <2>2. CASE ~\E a \in apps : SpaceOf[a] = s
    <3>1. s \notin DOMAIN appMap /\ AppNames(s) = {}
      BY <2>2 DEF AppMap
    <3> HIDE DEF appMap
    <3> QED
      BY <3>1 DEF Lookup
  <2> QED
    BY <2>1, <2>2
<1> HIDE DEF appMap, AppNames
<1>2. ASSUME NEW o PROVE Lookup(map, o) = SpaceTree(o)
  <2> DEFINE entry == {[name |-> Name[s], apps |-> Lookup(appMap, s)] : s \in {t \in spaces : OrgOf[t] = o}}
  <2>1. entry = SpaceTree(o)
    BY <1>1
  <2>2. CASE \E s \in spaces : OrgOf[s] = o
    <3>1. o \in DOMAIN map /\ map[o] = entry
      BY <2>2 DEF SpacesMap
    <3> HIDE DEF map
    <3> QED
      BY <2>1, <3>1 DEF Lookup
  <2>3. CASE ~\E s \in spaces : OrgOf[s] = o
    <3>1. o \notin DOMAIN map /\ entry = {}
      BY <2>3 DEF SpacesMap
    <3> HIDE DEF map
    <3> QED
      BY <2>1, <3>1 DEF Lookup
  <2> QED
    BY <2>2, <2>3
<1>3. OrgsSummary(orgs, spaces, apps) = {[name |-> Name[o], spaces |-> Lookup(map, o)] : o \in orgs}
  BY DEF OrgsSummary, appMap
<1>4. Tree(state) = {[name |-> Name[o], spaces |-> SpaceTree(o)] : o \in orgs}
  BY DEF Tree, AppNames
<1> HIDE DEF map, SpaceTree
<1> QED
  BY <1>2, <1>3, <1>4

\* Things that a key tells apart are as many as their keys.
LEMMA CountByKey ==
    ASSUME NEW S, IsFiniteSet(S), NEW key, \A x, y \in S : key[x] = key[y] => x = y
    PROVE  Cardinality(S) = Cardinality({key[x] : x \in S})
<1> DEFINE T == {key[x] : x \in S}
           f == [x \in S |-> key[x]]
<1>1. f \in Bijection(S, T)
  BY DEF Bijection, Injection, Surjection, IsInjective
<1>2. ExistsBijection(S, T)
  BY <1>1, Fun_ExistsBij
<1> QED
  BY <1>2, FS_Bijection

\* In a consistent installation the names in the tree tell orgs, spaces and apps
\* apart, so that it has as many of them.
OrgKeys(tree) == {o.name : o \in tree}
SpaceKeys(tree) == UNION {{<<o.name, s.name>> : s \in o.spaces} : o \in tree}
AppKeys(tree) ==
    UNION {UNION {{<<o.name, s.name, a>> : a \in s.apps} : s \in o.spaces} : o \in tree}

LEMMA TreeCounts ==
    ASSUME NEW state, ByKind(state), Consistent(state)
    PROVE  /\ Cardinality(state["orgs"]) = Cardinality(OrgKeys(Tree(state)))
           /\ Cardinality(state["spaces"]) = Cardinality(SpaceKeys(Tree(state)))
           /\ Cardinality(state["apps"]) = Cardinality(AppKeys(Tree(state)))
<1> DEFINE orgs == state["orgs"]
           spaces == state["spaces"]
           apps == state["apps"]
           SpaceNode(s) == [name |-> Name[s],
                            apps |-> {Name[a] : a \in {b \in apps : SpaceOf[b] = s}}]
           OrgNode(o) == [name |-> Name[o],
                          spaces |-> {SpaceNode(s) : s \in {t \in spaces : OrgOf[t] = o}}]
<1>1. orgs \subseteq Orgs /\ spaces \subseteq Spaces /\ apps \subseteq Apps
  BY DEF ByKind, Kinds, Guids
<1>2. IsFiniteSet(orgs) /\ IsFiniteSet(spaces) /\ IsFiniteSet(apps)
  BY <1>1, FS_Subset
<1>3. Tree(state) = {OrgNode(o) : o \in orgs}
  BY DEF Tree
<1>4. /\ \A s \in spaces : OrgOf[s] \in orgs
      /\ \A a \in apps : SpaceOf[a] \in spaces
  BY DEF Consistent
<1> DEFINE orgKey == [o \in orgs |-> Name[o]]
           spaceKey == [s \in spaces |-> <<Name[OrgOf[s]], Name[s]>>]
           appKey == [a \in apps |-> <<Name[OrgOf[SpaceOf[a]]], Name[SpaceOf[a]], Name[a]>>]
           Names(s) == {Name[a] : a \in {b \in apps : SpaceOf[b] = s}}
           Nodes(o) == {SpaceNode(s) : s \in {t \in spaces : OrgOf[t] = o}}
<1>5. \A x : /\ OrgNode(x).name = Name[x] /\ OrgNode(x).spaces = Nodes(x)
             /\ SpaceNode(x).name = Name[x] /\ SpaceNode(x).apps = Names(x)
  OBVIOUS
<1>6. /\ \A o \in orgs : orgKey[o] = Name[o]
      /\ \A s \in spaces : spaceKey[s] = <<Name[OrgOf[s]], Name[s]>>
      /\ \A a \in apps : appKey[a] = <<Name[OrgOf[SpaceOf[a]]], Name[SpaceOf[a]], Name[a]>>
  OBVIOUS
<1> HIDE DEF OrgNode, SpaceNode, orgKey, spaceKey, appKey
<1>7. OrgKeys(Tree(state)) = {orgKey[o] : o \in orgs}
  BY <1>3, <1>5, <1>6 DEF OrgKeys
<1>8. SpaceKeys(Tree(state)) = {spaceKey[s] : s \in spaces}
  <2>1. ASSUME NEW k \in SpaceKeys(Tree(state)) PROVE \E s \in spaces : k = spaceKey[s]
    <3>1. PICK o \in orgs : k \in {<<OrgNode(o).name, node.name>> : node \in OrgNode(o).spaces}
      BY <1>3 DEF SpaceKeys
    <3>2. PICK node \in OrgNode(o).spaces : k = <<OrgNode(o).name, node.name>>
      BY <3>1
    <3>3. PICK s \in spaces : OrgOf[s] = o /\ node = SpaceNode(s)
      BY <1>5, <3>2
    <3> QED
      BY <1>5, <1>6, <3>2, <3>3
  <2>2. ASSUME NEW s \in spaces PROVE spaceKey[s] \in SpaceKeys(Tree(state))
    <3>1. OrgNode(OrgOf[s]) \in Tree(state) /\ SpaceNode(s) \in OrgNode(OrgOf[s]).spaces
      BY <1>3, <1>4, <1>5
    <3>2. spaceKey[s] = <<OrgNode(OrgOf[s]).name, SpaceNode(s).name>>
      BY <1>5, <1>6
    <3> QED
      BY <3>1, <3>2 DEF SpaceKeys
  <2> QED
    BY <2>1, <2>2
<1>9. AppKeys(Tree(state)) = {appKey[a] : a \in apps}
  <2>1. ASSUME NEW k \in AppKeys(Tree(state)) PROVE \E a \in apps : k = appKey[a]
    <3>1. PICK o \in orgs :
             k \in UNION {{<<OrgNode(o).name, node.name, name>> : name \in node.apps} :
                          node \in OrgNode(o).spaces}
      BY <1>3 DEF AppKeys
    <3>2. PICK node \in OrgNode(o).spaces :
             k \in {<<OrgNode(o).name, node.name, name>> : name \in node.apps}
      BY <3>1
    <3>3. PICK name \in node.apps : k = <<OrgNode(o).name, node.name, name>>
      BY <3>2
    <3>4. PICK s \in spaces : OrgOf[s] = o /\ node = SpaceNode(s)
      BY <1>5, <3>2
    <3>5. PICK a \in apps : SpaceOf[a] = s /\ name = Name[a]
      BY <1>5, <3>3, <3>4
    <3> QED
      BY <1>5, <1>6, <3>3, <3>4, <3>5
  <2>2. ASSUME NEW a \in apps PROVE appKey[a] \in AppKeys(Tree(state))
    <3> DEFINE s == SpaceOf[a]
               o == OrgOf[s]
    <3>1. /\ OrgNode(o) \in Tree(state)
          /\ SpaceNode(s) \in OrgNode(o).spaces
          /\ Name[a] \in SpaceNode(s).apps
      BY <1>3, <1>4, <1>5
    <3>2. appKey[a] = <<Name[o], Name[s], Name[a]>>
      BY <1>6
    <3> HIDE DEF s, o
    <3>3. appKey[a] = <<OrgNode(o).name, SpaceNode(s).name, Name[a]>>
      BY <1>5, <3>2
    <3> QED
      BY <3>1, <3>3 DEF AppKeys
  <2> QED
    BY <2>1, <2>2
<1>10. \A x, y \in orgs : orgKey[x] = orgKey[y] => x = y
  BY <1>6 DEF Consistent
<1>11. \A x, y \in spaces : spaceKey[x] = spaceKey[y] => x = y
  BY <1>4, <1>6 DEF Consistent
<1>12. \A x, y \in apps : appKey[x] = appKey[y] => x = y
  BY <1>4, <1>6 DEF Consistent
<1> QED
  BY <1>2, <1>7, <1>8, <1>9, <1>10, <1>11, <1>12, CountByKey

\* Consistent installations with the same tree of names and as many users have the
\* same report.
LEMMA AlikeReports ==
    ASSUME NEW left, ByKind(left), Consistent(left),
           NEW right, ByKind(right), Consistent(right)
    PROVE  Alike(left, right) <=> Metadata(left) = Metadata(right)
<1> DEFINE Totals(state) == [kind \in Kinds |-> Cardinality(state[kind])]
<1>1. Metadata(left) = Metadata(right)
         <=> Totals(left) = Totals(right) /\ Tree(left) = Tree(right)
  BY SummaryIsTree DEF Metadata
<1>2. Totals(left) = Totals(right)
         <=> \A kind \in Kinds : Cardinality(left[kind]) = Cardinality(right[kind])
  <2> DEFINE A == Totals(left)
             B == Totals(right)
  <2>1. \A kind \in Kinds : A[kind] = Cardinality(left[kind]) /\ B[kind] = Cardinality(right[kind])
    OBVIOUS
  <2>2. A = B <=> \A kind \in Kinds : A[kind] = B[kind]
    OBVIOUS
  <2> QED
    BY <2>1, <2>2
<1>3. Tree(left) = Tree(right) =>
         /\ Cardinality(left["orgs"]) = Cardinality(right["orgs"])
         /\ Cardinality(left["spaces"]) = Cardinality(right["spaces"])
         /\ Cardinality(left["apps"]) = Cardinality(right["apps"])
  BY TreeCounts
<1> HIDE DEF Totals
<1> QED
  BY <1>1, <1>2, <1>3 DEF Alike, Kinds

LEMMA PlacesFollow == IInv => NothingDropped
<1> SUFFICES ASSUME IInv, pc = "exited", mode = "report", printed # None, failed = {}, ~created
    PROVE  /\ \A s \in listed["spaces"] : OrgOf[s] \notin skipped["orgs"] =>
                 \E o \in printed.orgs :
                    /\ o.name = Name[OrgOf[s]]
                    /\ \E t \in o.spaces : t.name = Name[s]
           /\ \A a \in listed["apps"] :
                 SpaceOf[a] \notin skipped["spaces"] /\ OrgOf[SpaceOf[a]] \notin skipped["orgs"] =>
                    \E o \in printed.orgs :
                       /\ o.name = Name[OrgOf[SpaceOf[a]]]
                       /\ \E t \in o.spaces : t.name = Name[SpaceOf[a]] /\ Name[a] \in t.apps
           /\ ~deleted => \A kind \in Kinds : skipped[kind] = {}
  BY DEF NothingDropped
<1>1. printed.orgs = OrgsSummary(listed["orgs"], listed["spaces"], listed["apps"])
  BY DEF IInv, ReportPrinted, Metadata
<1>2. ASSUME NEW s \in listed["spaces"], OrgOf[s] \notin skipped["orgs"]
      PROVE  \E o \in printed.orgs :
                /\ o.name = Name[OrgOf[s]]
                /\ \E t \in o.spaces :
                      /\ t.name = Name[s]
                      /\ \A a \in listed["apps"] : SpaceOf[a] = s => Name[a] \in t.apps
  <2>1. OrgOf[s] \in listed["orgs"]
    BY <1>2 DEF IInv, ParentsListed, Passed
  <2> QED
    BY <1>1, <2>1, HasPlace
<1>3. \A a \in listed["apps"] : SpaceOf[a] \notin skipped["spaces"] => SpaceOf[a] \in listed["spaces"]
  BY DEF IInv, ParentsListed, Passed
<1>4. ~deleted => \A kind \in Kinds : skipped[kind] = {}
  BY DEF IInv, ListedCurrent
<1> QED
  BY <1>2, <1>3, <1>4

\* What is the same by kind has the same report.
LEMMA SameReport ==
    ASSUME NEW left, NEW right, \A kind \in Kinds : left[kind] = right[kind]
    PROVE  Metadata(left) = Metadata(right)
BY DEF Metadata, Kinds

\* Lists that nothing disturbed report what there is.
LEMMA CurrentReport ==
    ASSUME ListedCurrent, Ahead = {}, pc \notin Kinds, failed = {}, ~created, ~deleted,
           pc = "print" \/ printed # None
    PROVE  Metadata(listed) = Metadata(cf)
<1>1. \A kind \in Kinds : listed[kind] = cf[kind]
  BY DEF ListedCurrent
<1> QED
  BY <1>1, SameReport

LEMMA VerdictFollows == IInv => ComparisonTrue
<1> SUFFICES ASSUME IInv, pc = "exited", mode = "compare", printed # None, exact # None,
                    failed = {}, ~created, ~deleted
    PROVE  /\ printed = "same" => Alike(exact, cf)
           /\ Alike(exact, cf) /\ ~reordered => printed = "same"
  BY DEF ComparisonTrue
<1>1. Metadata(listed) = Metadata(cf)
  BY CurrentReport DEF IInv, Ahead, Kinds
<1>2. stdin = Metadata(exact)
  BY DEF IInv, VerdictPrinted, InputIsBackup, ExactBackup, Decodes
<1>3. Alike(exact, cf) <=> Metadata(exact) = Metadata(cf)
  BY AlikeReports DEF IInv, TypeOK, ExactBackup
<1>4. \/ printed = Compare(stdin, Metadata(listed))
      \/ printed = "differs" /\ reordered
  BY DEF IInv, VerdictPrinted
<1> QED
  BY <1>1, <1>2, <1>3, <1>4 DEF Compare

LEMMA FailureFollows == IInv => FailureShows
<1> SUFFICES ASSUME IInv, pc = "exited", mode = "compare", printed = "same",
                    NEW kind \in failed
    PROVE  stdin.totals[kind] = 0
  BY DEF FailureShows
<1>1. stdin = Metadata(listed)
  BY DEF IInv, VerdictPrinted, Compare
<1>2. kind \in Kinds /\ listed[kind] = {}
  BY DEF IInv, TypeOK, InTurn
<1>3. stdin.totals[kind] = Cardinality(listed[kind])
  BY <1>1, <1>2 DEF Metadata
<1> QED
  BY <1>2, <1>3, FS_EmptySet

-----------------------------------------------------------------------------
(* The inductive invariant.                                                *)

LEMMA InitIInv == Init => IInv
<1> SUFFICES ASSUME Init PROVE IInv
  OBVIOUS
<1>1. ByKind(cf)
  BY DEF Init, Kinds, Guids, ByKind
<1>2. ByKind(listed) /\ ByKind(skipped)
  BY DEF Init, Empty, ByKind
<1>3. TypeOK
  <2>1. /\ pc = "exited" /\ mode = "none" /\ code = None /\ printed = None
        /\ created = FALSE /\ deleted = FALSE /\ reordered = FALSE /\ failed = {}
        /\ ops = 0 /\ faults = 0
    BY DEF Init
  <2>2. ops \in 0..MaxOps /\ faults \in 0..MaxFaults
    BY <2>1
  <2>3. pc \in Steps /\ failed \subseteq Kinds
    BY <2>1 DEF Steps
  <2>4. (pc = "exited" /\ mode # "none") <=> code # None
    BY <2>1
  <2> QED
    BY <1>1, <1>2, <2>1, <2>2, <2>3, <2>4 DEF TypeOK
<1>4. Consistent(cf)
  BY DEF Init
<1>5. /\ pc = "exited" /\ mode = "none" /\ listed = Empty /\ skipped = Empty /\ printed = None
      /\ failed = {} /\ exact = None
  BY DEF Init
<1>6. InTurn /\ ParentsListed /\ ListedCurrent
  BY <1>5 DEF InTurn, Ahead, ParentsListed, Passed, ListedCurrent, Empty, Kinds
<1>7. ReportPrinted /\ InputIsBackup /\ ExactBackup /\ VerdictPrinted
  BY <1>5 DEF ReportPrinted, InputIsBackup, ExactBackup, VerdictPrinted
<1> QED
  BY <1>3, <1>4, <1>6, <1>7 DEF IInv

LEMMA TypeStep == ASSUME TypeOK, Next PROVE TypeOK'
<1> USE DEF TypeOK, ByKind, Kinds, Steps, Exit
<1>1. ASSUME NEW kind \in Kinds, Create(kind) PROVE TypeOK'
  BY <1>1 DEF Create, MayCreate, command
<1>2. ASSUME NEW kind \in Kinds, Delete(kind) PROVE TypeOK'
  BY <1>2 DEF Delete, Shift, Unread
<1>3. ASSUME NEW kind \in Kinds, ReadPage(kind) PROVE TypeOK'
  BY <1>3 DEF ReadPage, After, FirstPageForgets, FirstPage, Unread, Passed
<1>4. ASSUME NEW kind \in Kinds, ListFails(kind) PROVE TypeOK'
  BY <1>4 DEF ListFails, After, FirstPageForgets, FirstPage
<1>5. ASSUME NEW e, NEW args \in {"report", "compare", "other"}, Start(e, args) PROVE TypeOK'
  BY <1>5 DEF Start, Empty
<1>6. ASSUME ReadInput PROVE TypeOK'
  BY <1>6 DEF ReadInput, history
<1>7. ASSUME Connect PROVE TypeOK'
  BY <1>7 DEF Connect, history
<1>8. ASSUME ConnectFails PROVE TypeOK'
  BY <1>8 DEF ConnectFails, history
<1>9. ASSUME PrintMetadata PROVE TypeOK'
  BY <1>9 DEF PrintMetadata, history
<1>10. ASSUME PrintComparison PROVE TypeOK'
  BY <1>10 DEF PrintComparison, history
<1> QED
  BY <1>1, <1>2, <1>3, <1>4, <1>5, <1>6, <1>7, <1>8, <1>9, <1>10 DEF Next

LEMMA ConsistentStep ==
    ASSUME TypeOK, Consistent(cf), Next PROVE Consistent(cf')
<1> USE DEF TypeOK, ByKind, Kinds, Consistent
<1>1. ASSUME NEW kind \in Kinds, Create(kind) PROVE Consistent(cf')
  BY <1>1 DEF Create, MayCreate, NameFree, Guids
<1>2. ASSUME NEW kind \in Kinds, Delete(kind) PROVE Consistent(cf')
  BY <1>2 DEF Delete, MayDelete
<1>3. ASSUME NEW kind \in Kinds, ReadPage(kind) PROVE Consistent(cf')
  BY <1>3 DEF ReadPage
<1>4. ASSUME NEW kind \in Kinds, ListFails(kind) PROVE Consistent(cf')
  BY <1>4 DEF ListFails
<1>5. ASSUME NEW e, NEW args \in {"report", "compare", "other"}, Start(e, args) PROVE Consistent(cf')
  BY <1>5 DEF Start
<1>6. ASSUME ReadInput PROVE Consistent(cf')
  BY <1>6 DEF ReadInput
<1>7. ASSUME Connect PROVE Consistent(cf')
  BY <1>7 DEF Connect
<1>8. ASSUME ConnectFails PROVE Consistent(cf')
  BY <1>8 DEF ConnectFails
<1>9. ASSUME PrintMetadata PROVE Consistent(cf')
  BY <1>9 DEF PrintMetadata
<1>10. ASSUME PrintComparison PROVE Consistent(cf')
  BY <1>10 DEF PrintComparison
<1> QED
  BY <1>1, <1>2, <1>3, <1>4, <1>5, <1>6, <1>7, <1>8, <1>9, <1>10 DEF Next

LEMMA ListsStep ==
    ASSUME TypeOK, Consistent(cf), InTurn, ParentsListed, Next PROVE InTurn' /\ ParentsListed'
<1> USE DEF TypeOK, ByKind, Kinds, Ahead, InTurn, ParentsListed, Passed, Exit, Empty
<1>1. ASSUME NEW kind \in Kinds, Create(kind) PROVE InTurn' /\ ParentsListed'
  BY <1>1 DEF Create, command
<1>2. ASSUME NEW kind \in Kinds, Delete(kind) PROVE InTurn' /\ ParentsListed'
  BY <1>2 DEF Delete, Shift
<1>3. ASSUME NEW kind \in Kinds, ReadPage(kind) PROVE InTurn' /\ ParentsListed'
  BY <1>3 DEF ReadPage, After, FirstPageForgets, FirstPage, Unread, Passed, Consistent
<1>4. ASSUME NEW kind \in Kinds, ListFails(kind) PROVE InTurn' /\ ParentsListed'
  BY <1>4 DEF ListFails, After, FirstPageForgets, FirstPage
<1>5. ASSUME NEW e, NEW args \in {"report", "compare", "other"}, Start(e, args) PROVE InTurn' /\ ParentsListed'
  BY <1>5 DEF Start
<1>6. ASSUME ReadInput PROVE InTurn' /\ ParentsListed'
  BY <1>6 DEF ReadInput, history
<1>7. ASSUME Connect PROVE InTurn' /\ ParentsListed'
  BY <1>7 DEF Connect, history
<1>8. ASSUME ConnectFails PROVE InTurn' /\ ParentsListed'
  BY <1>8 DEF ConnectFails, history
<1>9. ASSUME PrintMetadata PROVE InTurn' /\ ParentsListed'
  BY <1>9 DEF PrintMetadata, history
<1>10. ASSUME PrintComparison PROVE InTurn' /\ ParentsListed'
  BY <1>10 DEF PrintComparison, history
<1> QED
  BY <1>1, <1>2, <1>3, <1>4, <1>5, <1>6, <1>7, <1>8, <1>9, <1>10 DEF Next

LEMMA CurrentStep ==
    ASSUME TypeOK, InTurn, ListedCurrent, Next PROVE ListedCurrent'
<1> USE DEF TypeOK, ByKind, Kinds, Steps, Ahead, InTurn, ListedCurrent, Exit, Empty
<1>1. ASSUME NEW kind \in Kinds, Create(kind) PROVE ListedCurrent'
  BY <1>1 DEF Create, command
<1>2. ASSUME NEW kind \in Kinds, Delete(kind) PROVE ListedCurrent'
  BY <1>2 DEF Delete, Shift
<1>3. ASSUME NEW kind \in Kinds, ReadPage(kind) PROVE ListedCurrent'
  <2> SUFFICES ASSUME failed = {}, ~created', ~deleted'
      PROVE  /\ \A k \in Kinds : skipped[k] = {}
             /\ \A k \in Kinds \ (Ahead' \cup {pc'}) : listed'[k] = cf[k]
             /\ pc' \in Kinds => listed'[pc'] \subseteq cf[pc']
    BY <1>3 DEF ReadPage
  <2>1. PICK page \in SUBSET (cf[kind] \ (listed[kind] \cup skipped[kind])) :
           /\ listed' = [listed EXCEPT ![kind] = @ \cup page]
           /\ pc' = IF page = cf[kind] \ (listed[kind] \cup skipped[kind]) THEN After(kind) ELSE kind
    BY <1>3 DEF ReadPage, Unread, Passed
  <2>2. pc = kind
    BY <1>3 DEF ReadPage
  <2>3. /\ \A k \in Kinds : skipped[k] = {}
        /\ listed[kind] \subseteq cf[kind]
        /\ \A k \in Kinds \ (Ahead \cup {kind}) : listed[k] = cf[k]
    <3>1. CASE ~created /\ ~deleted
      BY <2>2, <3>1
    <3>2. CASE created \/ deleted
      BY <1>3, <2>2, <3>2 DEF ReadPage, FirstPageForgets, FirstPage
    <3> QED
      BY <3>1, <3>2
  <2>4. /\ listed'[kind] = listed[kind] \cup page
        /\ \A k \in Kinds \ {kind} : listed'[k] = listed[k]
    BY <2>1
  <2>5. CASE pc' = kind
    BY <2>1, <2>2, <2>3, <2>4, <2>5
  <2>6. CASE pc' = After(kind) /\ page = cf[kind] \ (listed[kind] \cup skipped[kind])
    <3>1. listed'[kind] = cf[kind]
      BY <2>3, <2>4, <2>6
    <3> QED
      BY <2>2, <2>3, <2>4, <2>6, <3>1 DEF After
  <2> QED
    BY <2>1, <2>5, <2>6
<1>4. ASSUME NEW kind \in Kinds, ListFails(kind) PROVE ListedCurrent'
  BY <1>4 DEF ListFails, After, FirstPageForgets, FirstPage
<1>5. ASSUME NEW e, NEW args \in {"report", "compare", "other"}, Start(e, args) PROVE ListedCurrent'
  BY <1>5 DEF Start
<1>6. ASSUME ReadInput PROVE ListedCurrent'
  BY <1>6 DEF ReadInput, history
<1>7. ASSUME Connect PROVE ListedCurrent'
  BY <1>7 DEF Connect, history
<1>8. ASSUME ConnectFails PROVE ListedCurrent'
  BY <1>8 DEF ConnectFails, history
<1>9. ASSUME PrintMetadata PROVE ListedCurrent'
  BY <1>9 DEF PrintMetadata, history
<1>10. ASSUME PrintComparison PROVE ListedCurrent'
  BY <1>10 DEF PrintComparison, history
<1> QED
  BY <1>1, <1>2, <1>3, <1>4, <1>5, <1>6, <1>7, <1>8, <1>9, <1>10 DEF Next

LEMMA ReportStep ==
    ASSUME TypeOK, ReportPrinted, Next PROVE ReportPrinted'
<1> USE DEF TypeOK, Kinds, Steps, ReportPrinted, Exit
<1>1. ASSUME NEW kind \in Kinds, Create(kind) PROVE ReportPrinted'
  BY <1>1 DEF Create, command
<1>2. ASSUME NEW kind \in Kinds, Delete(kind) PROVE ReportPrinted'
  BY <1>2 DEF Delete, Shift
<1>3. ASSUME NEW kind \in Kinds, ReadPage(kind) PROVE ReportPrinted'
  BY <1>3 DEF ReadPage, After
<1>4. ASSUME NEW kind \in Kinds, ListFails(kind) PROVE ReportPrinted'
  BY <1>4 DEF ListFails, After
<1>5. ASSUME NEW e, NEW args \in {"report", "compare", "other"}, Start(e, args) PROVE ReportPrinted'
  BY <1>5 DEF Start
<1>6. ASSUME ReadInput PROVE ReportPrinted'
  BY <1>6 DEF ReadInput
<1>7. ASSUME Connect PROVE ReportPrinted'
  BY <1>7 DEF Connect
<1>8. ASSUME ConnectFails PROVE ReportPrinted'
  BY <1>8 DEF ConnectFails
<1>9. ASSUME PrintMetadata PROVE ReportPrinted'
  BY <1>9 DEF PrintMetadata
<1>10. ASSUME PrintComparison PROVE ReportPrinted'
  BY <1>10 DEF PrintComparison
<1> QED
  BY <1>1, <1>2, <1>3, <1>4, <1>5, <1>6, <1>7, <1>8, <1>9, <1>10 DEF Next

LEMMA InputStep ==
    ASSUME TypeOK, InputIsBackup, Next PROVE InputIsBackup'
<1> USE DEF TypeOK, Kinds, Steps, InputIsBackup, Exit
<1>1. ASSUME NEW kind \in Kinds, Create(kind) PROVE InputIsBackup'
  BY <1>1 DEF Create, command
<1>2. ASSUME NEW kind \in Kinds, Delete(kind) PROVE InputIsBackup'
  BY <1>2 DEF Delete, Shift
<1>3. ASSUME NEW kind \in Kinds, ReadPage(kind) PROVE InputIsBackup'
  BY <1>3 DEF ReadPage, After
<1>4. ASSUME NEW kind \in Kinds, ListFails(kind) PROVE InputIsBackup'
  BY <1>4 DEF ListFails, After
<1>5. ASSUME NEW e, NEW args \in {"report", "compare", "other"}, Start(e, args) PROVE InputIsBackup'
  BY <1>5 DEF Start
<1>6. ASSUME ReadInput PROVE InputIsBackup'
  BY <1>6 DEF ReadInput
<1>7. ASSUME Connect PROVE InputIsBackup'
  BY <1>7 DEF Connect
<1>8. ASSUME ConnectFails PROVE InputIsBackup'
  BY <1>8 DEF ConnectFails
<1>9. ASSUME PrintMetadata PROVE InputIsBackup'
  BY <1>9 DEF PrintMetadata
<1>10. ASSUME PrintComparison PROVE InputIsBackup'
  BY <1>10 DEF PrintComparison
<1> QED
  BY <1>1, <1>2, <1>3, <1>4, <1>5, <1>6, <1>7, <1>8, <1>9, <1>10 DEF Next

LEMMA ExactStep ==
    ASSUME TypeOK, Consistent(cf), ListedCurrent, ExactBackup, Next PROVE ExactBackup'
<1> USE DEF ExactBackup
<1>1. ASSUME NEW kind \in Kinds, Create(kind) PROVE ExactBackup'
  BY <1>1 DEF Create
<1>2. ASSUME NEW kind \in Kinds, Delete(kind) PROVE ExactBackup'
  BY <1>2 DEF Delete
<1>3. ASSUME NEW kind \in Kinds, ReadPage(kind) PROVE ExactBackup'
  BY <1>3 DEF ReadPage
<1>4. ASSUME NEW kind \in Kinds, ListFails(kind) PROVE ExactBackup'
  BY <1>4 DEF ListFails
<1>5. ASSUME NEW e, NEW args \in {"report", "compare", "other"}, Start(e, args) PROVE ExactBackup'
  BY <1>5 DEF Start
<1>6. ASSUME ReadInput PROVE ExactBackup'
  BY <1>6 DEF ReadInput
<1>7. ASSUME Connect PROVE ExactBackup'
  BY <1>7 DEF Connect
<1>8. ASSUME ConnectFails PROVE ExactBackup'
  BY <1>8 DEF ConnectFails
<1>9. ASSUME PrintMetadata PROVE ExactBackup'
  <2>1. CASE failed = {} /\ ~created /\ ~deleted
    <3>1. Metadata(listed) = Metadata(cf)
      BY <1>9, <2>1, CurrentReport DEF PrintMetadata, Ahead, Kinds
    <3> QED
      BY <1>9, <2>1, <3>1 DEF PrintMetadata, TypeOK
  <2>2. CASE ~(failed = {} /\ ~created /\ ~deleted)
    BY <1>9, <2>2 DEF PrintMetadata
  <2> QED
    BY <2>1, <2>2
<1>10. ASSUME PrintComparison PROVE ExactBackup'
  BY <1>10 DEF PrintComparison
<1> QED
  BY <1>1, <1>2, <1>3, <1>4, <1>5, <1>6, <1>7, <1>8, <1>9, <1>10 DEF Next

LEMMA VerdictStep ==
    ASSUME TypeOK, InputIsBackup, VerdictPrinted, Next PROVE VerdictPrinted'
<1> USE DEF TypeOK, Kinds, Steps, VerdictPrinted, Exit
<1>1. ASSUME NEW kind \in Kinds, Create(kind) PROVE VerdictPrinted'
  BY <1>1 DEF Create, command
<1>2. ASSUME NEW kind \in Kinds, Delete(kind) PROVE VerdictPrinted'
  BY <1>2 DEF Delete, Shift
<1>3. ASSUME NEW kind \in Kinds, ReadPage(kind) PROVE VerdictPrinted'
  BY <1>3 DEF ReadPage, After
<1>4. ASSUME NEW kind \in Kinds, ListFails(kind) PROVE VerdictPrinted'
  BY <1>4 DEF ListFails, After
<1>5. ASSUME NEW e, NEW args \in {"report", "compare", "other"}, Start(e, args) PROVE VerdictPrinted'
  BY <1>5 DEF Start
<1>6. ASSUME ReadInput PROVE VerdictPrinted'
  BY <1>6 DEF ReadInput
<1>7. ASSUME Connect PROVE VerdictPrinted'
  BY <1>7 DEF Connect
<1>8. ASSUME ConnectFails PROVE VerdictPrinted'
  BY <1>8 DEF ConnectFails
<1>9. ASSUME PrintMetadata PROVE VerdictPrinted'
  BY <1>9 DEF PrintMetadata
<1>10. ASSUME PrintComparison PROVE VerdictPrinted'
  BY <1>10 DEF PrintComparison, InputIsBackup
<1> QED
  BY <1>1, <1>2, <1>3, <1>4, <1>5, <1>6, <1>7, <1>8, <1>9, <1>10 DEF Next

LEMMA StepIInv == IInv /\ [Next]_vars => IInv'
<1> SUFFICES ASSUME IInv, [Next]_vars PROVE IInv'
  OBVIOUS
<1>1. CASE Next
  BY <1>1, TypeStep, ConsistentStep, ListsStep, CurrentStep, ReportStep, InputStep,
     ExactStep, VerdictStep DEF IInv
<1>2. CASE UNCHANGED vars
  BY <1>2 DEF vars, command, history, IInv, TypeOK, ByKind, InTurn, Ahead, ParentsListed,
              Passed, ListedCurrent, ReportPrinted, InputIsBackup, ExactBackup, VerdictPrinted
<1> QED
  BY <1>1, <1>2

THEOREM Invariant == Spec => []IInv
BY InitIInv, StepIInv, PTL DEF Spec

\* Type correctness, and what a command that has ended leaves.
THEOREM TypeCorrect == Spec => []TypeOK
<1>1. IInv => TypeOK
  BY DEF IInv
<1> QED
  BY <1>1, Invariant, PTL

\* In a report whose lists did not fail, nothing that is counted lacks its place,
\* whatever is deleted while the lists are made: the lists' order is enough.
THEOREM EverythingHasItsPlace == Spec => []NothingDropped
BY PlacesFollow, Invariant, PTL

\* A verdict on an undisturbed backup, reached by an undisturbed comparison, is
\* right: "no difference" is said of an installation with the names and the number
\* of users that were backed up, and of every such one that is listed in the same
\* order, whatever its GUIDs (printComparison).
THEOREM VerdictIsTrue == Spec => []ComparisonTrue
BY VerdictFollows, Invariant, PTL

\* A list whose error was dropped cannot be taken for what was backed up, unless
\* the backup has nothing of that kind (Execute, Compare).
THEOREM DroppedErrorShows == Spec => []FailureShows
BY FailureFollows, Invariant, PTL
=============================================================================
