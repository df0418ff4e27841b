--------------------------- MODULE BackupMetadata ---------------------------
(***************************************************************************)
(* The backup-metadata-generator: a command that velero runs before a      *)
(* backup, to print what a CF installation holds, and an operator after a  *)
(* restore, to compare the installation with such a report.  It lists      *)
(* orgs, spaces, apps and users one after the other and each page by page, *)
(* while users of the CF API create and delete them.  A list fails without *)
(* a trace: its error is dropped and the list counts as empty.             *)
(***************************************************************************)
EXTENDS Integers, FiniteSets

CONSTANTS
    Orgs, Spaces, Apps, Users,   \* GUIDs
    OrgOf, SpaceOf,              \* the org of a space, the space of an app
    Name,                        \* names of orgs, spaces and apps: one may come
                                 \* again with another GUID
    PageSize,                    \* the rows of a page of the CF API
    MaxOps,                      \* bound: things created and deleted
    MaxFaults,                   \* bound: calls that fail
    Malformed,                   \* an input that is not a report
    None

ASSUME BackupMetadataAssumption ==
    /\ OrgOf \in [Spaces -> Orgs]
    /\ SpaceOf \in [Apps -> Spaces]
    /\ IsFiniteSet(Orgs) /\ IsFiniteSet(Spaces) /\ IsFiniteSet(Apps)
    /\ Orgs \cup Spaces \cup Apps \subseteq DOMAIN Name
    /\ PageSize \in Nat \ {0}
    /\ MaxOps \in Nat
    /\ MaxFaults \in Nat
    /\ None \notin Nat \cup {"same", "differs", Malformed}

Kinds == {"orgs", "spaces", "apps", "users"}
Guids(kind) == IF kind = "orgs" THEN Orgs
               ELSE IF kind = "spaces" THEN Spaces
               ELSE IF kind = "apps" THEN Apps ELSE Users

VARIABLES
    cf,       \* what the installation holds: GUIDs by kind
    pc,       \* where the command is
    mode,     \* what it was called for: "report" or "compare"
    listed,   \* the rows of the pages read so far; a failed list is empty
    skipped,  \* the rows that no page of the list shows although they were there
              \* all the time: a deletion has moved them to a page read before
    stdin,    \* the report it read from its standard input
    printed,  \* what it has printed: a report, a verdict, or None
    code,     \* its exit code
    backup,   \* the report in the log of the last backup
    created, deleted, \* history: something was, since the first list
    failed,   \* history: the lists that failed
    reordered, \* something was created since the lists of `backup' began: what
               \* is the same may be listed in another order
    exact,    \* history: what there was when `backup' was made, or None if
              \* something failed or changed meanwhile
    ops, faults

command == <<pc, mode, listed, skipped, stdin, printed, code>>
history == <<created, deleted, failed>>
vars == <<cf, command, backup, history, reordered, exact, ops, faults>>

Empty == [kind \in Kinds |-> {}]
-----------------------------------------------------------------------------
(* The report: buildAppMap, buildSpacesMap and getAllOrgsSummary, maps from  *)
(* the GUID of a parent to the summaries of its children.                    *)

AppMap(apps) ==
    [s \in {SpaceOf[a] : a \in apps} |-> {Name[a] : a \in {b \in apps : SpaceOf[b] = s}}]

\* A map's zero value: no summaries at all.
Lookup(map, guid) == IF guid \in DOMAIN map THEN map[guid] ELSE {}

SpacesMap(appMap, spaces) ==
    [o \in {OrgOf[s] : s \in spaces} |->
        {[name |-> Name[s], apps |-> Lookup(appMap, s)] : s \in {t \in spaces : OrgOf[t] = o}}]

OrgsSummary(orgs, spaces, apps) ==
    LET spacesMap == SpacesMap(AppMap(apps), spaces)
    IN  {[name |-> Name[o], spaces |-> Lookup(spacesMap, o)] : o \in orgs}

Metadata(lists) ==
    [totals |-> [kind \in Kinds |-> Cardinality(lists[kind])],
     orgs |-> OrgsSummary(lists["orgs"], lists["spaces"], lists["apps"])]

\* Mutants: half of a report is compared.
CompareTotals(left, right) == IF left.totals = right.totals THEN "same" ELSE "differs"
CompareOrgs(left, right) == IF left.orgs = right.orgs THEN "same" ELSE "differs"

\* Only what decodes strictly as a report can be compared.
Decodes(input) == input # Malformed

Compare(left, right) == IF left = right THEN "same" ELSE "differs"
-----------------------------------------------------------------------------
(* The CF API.                                                               *)

\* Names are unique among the orgs, in an org and in a space.
NameFree(siblings, guid) == \A other \in siblings : Name[other] # Name[guid]

MayCreate(kind, guid) ==
    /\ guid \notin cf[kind]
    /\ kind = "orgs" => NameFree(cf["orgs"], guid)
    /\ kind = "spaces" => /\ OrgOf[guid] \in cf["orgs"]
                          /\ NameFree({s \in cf["spaces"] : OrgOf[s] = OrgOf[guid]}, guid)
    /\ kind = "apps" => /\ SpaceOf[guid] \in cf["spaces"]
                        /\ NameFree({a \in cf["apps"] : SpaceOf[a] = SpaceOf[guid]}, guid)

\* An org's deletion deletes its spaces first, a space's its apps.
MayDelete(kind, guid) ==
    /\ guid \in cf[kind]
    /\ kind = "orgs" => \A s \in cf["spaces"] : OrgOf[s] # guid
    /\ kind = "spaces" => \A a \in cf["apps"] : SpaceOf[a] # guid

\* The rows a list has passed, and the others; a new row comes after all of them.
Passed(kind) == listed[kind] \cup skipped[kind]
Unread(kind) == cf[kind] \ Passed(kind)

Create(kind) ==
    /\ ops < MaxOps
    /\ \E guid \in Guids(kind) :
          /\ MayCreate(kind, guid)
          /\ pc = kind => guid \notin Passed(kind)
          /\ cf' = [cf EXCEPT ![kind] = @ \cup {guid}]
    /\ ops' = ops + 1
    /\ created' = TRUE /\ reordered' = TRUE
    /\ UNCHANGED <<command, backup, deleted, failed, exact, faults>>

\* A page is a range of positions: when a row goes from a page that has been read,
\* the first row of the next page moves to the one before, where nobody reads it.
Shift(kind, guid) ==
    IF pc = kind /\ guid \in Passed(kind) /\ Unread(kind) # {}
    THEN \E next \in Unread(kind) : skipped' = [skipped EXCEPT ![kind] = @ \cup {next}]
    ELSE UNCHANGED skipped

Delete(kind) ==
    /\ ops < MaxOps
    /\ \E guid \in Guids(kind) :
          /\ MayDelete(kind, guid)
          /\ cf' = [cf EXCEPT ![kind] = @ \ {guid}]
          /\ Shift(kind, guid)
    /\ ops' = ops + 1
    /\ deleted' = TRUE
    /\ UNCHANGED <<pc, mode, listed, stdin, printed, code>>
    /\ UNCHANGED <<backup, created, failed, reordered, exact, faults>>
-----------------------------------------------------------------------------
(* The command.                                                              *)

\* Mutant: main forgets os.Exit.
ExitSilently(c) == pc' = "exited" /\ code' = None

Exit(c) == pc' = "exited" /\ code' = c

Variables == {"CF_API_HOST", "CF_CLIENT", "CF_CLIENT_SECRET"}

\* Main: the environment and the arguments are looked at before anything else.
\* `environment' has the variables that are set to something.
Start(environment, args) ==
    /\ pc = "exited"
    /\ mode' = args
    /\ listed' = Empty
    /\ skipped' = Empty
    /\ stdin' = None
    /\ printed' = None
    /\ failed' = {}
    /\ IF environment = Variables /\ args \in {"report", "compare"}
       THEN pc' = (IF args = "compare" THEN "read" ELSE "connect") /\ code' = None
       ELSE Exit(1)
    /\ UNCHANGED <<cf, backup, created, deleted, reordered, exact, ops, faults>>

\* ReadAll: the input is the backup's report, or something else.
ReadInput ==
    /\ pc = "read"
    /\ \/ /\ backup # None
          /\ stdin' = backup
          /\ pc' = "connect"
          /\ UNCHANGED <<code, faults>>
       \/ /\ stdin' = Malformed
          /\ pc' = "connect"
          /\ UNCHANGED <<code, faults>>
       \/ /\ faults < MaxFaults
          /\ faults' = faults + 1
          /\ Exit(1)
          /\ UNCHANGED stdin
    /\ UNCHANGED <<cf, mode, listed, skipped, printed, backup, history, reordered, exact, ops>>

\* NewClient asks for the API's info document.
Connect ==
    /\ pc = "connect"
    /\ pc' = "orgs"
    /\ UNCHANGED <<cf, mode, listed, skipped, stdin, printed, code>>
    /\ UNCHANGED <<backup, history, reordered, exact, ops, faults>>

ConnectFails ==
    /\ pc = "connect"
    /\ faults < MaxFaults
    /\ faults' = faults + 1
    /\ Exit(1)
    /\ UNCHANGED <<cf, mode, listed, skipped, stdin, printed, backup, history, reordered, exact, ops>>

\* Mutant: the apps are listed before their spaces.
AfterAppsFirst(kind) == IF kind = "orgs" THEN "apps"
                        ELSE IF kind = "apps" THEN "spaces"
                        ELSE IF kind = "spaces" THEN "users" ELSE "print"

\* Execute makes the lists in this order.
After(kind) == IF kind = "orgs" THEN "spaces"
               ELSE IF kind = "spaces" THEN "apps"
               ELSE IF kind = "apps" THEN "users" ELSE "print"

\* The first page of the first list.
FirstPage(kind) == kind = "orgs" /\ listed["orgs"] = {}

FirstPageForgets(kind) ==
    /\ created' = (created /\ ~FirstPage(kind))
    /\ deleted' = (deleted /\ ~FirstPage(kind))

\* The client follows the pages to the last one.
ReadPage(kind) ==
    /\ pc = kind
    /\ \E page \in SUBSET Unread(kind) :
          /\ \/ Cardinality(page) = PageSize
             \/ Cardinality(page) < PageSize /\ page = Unread(kind)
          /\ listed' = [listed EXCEPT ![kind] = @ \cup page]
          /\ pc' = IF page = Unread(kind) THEN After(kind) ELSE kind
    /\ FirstPageForgets(kind)
    /\ UNCHANGED <<cf, mode, skipped, stdin, printed, code, backup, failed, reordered, exact, ops, faults>>

\* Whatever page it is that fails, Orgs, Spaces, Apps and Users return an error and
\* an empty list, and Execute takes the list.
ListFails(kind) ==
    /\ pc = kind
    /\ faults < MaxFaults
    /\ faults' = faults + 1
    /\ failed' = failed \cup {kind}
    /\ listed' = [listed EXCEPT ![kind] = {}]
    /\ skipped' = [skipped EXCEPT ![kind] = {}]
    /\ pc' = After(kind)
    /\ FirstPageForgets(kind)
    /\ UNCHANGED <<cf, mode, stdin, printed, code, backup, reordered, exact, ops>>

\* printMetadata; velero's hook puts the output into the backup's log.
PrintMetadata ==
    /\ pc = "print" /\ mode = "report"
    /\ printed' = Metadata(listed)
    /\ backup' = Metadata(listed)
    /\ reordered' = created
    /\ exact' = IF failed = {} /\ ~created /\ ~deleted THEN cf ELSE None
    /\ Exit(0)
    /\ UNCHANGED <<cf, mode, listed, skipped, stdin, history, ops, faults>>

\* printComparison: what is not a report is an error, after all the lists.  The
\* order of a list counts.
PrintComparison ==
    /\ pc = "print" /\ mode = "compare"
    /\ IF Decodes(stdin)
       THEN /\ Exit(0)
            /\ \/ printed' = Compare(stdin, Metadata(listed))
               \/ reordered /\ printed' = "differs"
       ELSE Exit(1) /\ UNCHANGED printed
    /\ UNCHANGED <<cf, mode, listed, skipped, stdin, backup, history, reordered, exact, ops, faults>>
-----------------------------------------------------------------------------
Consistent(state) ==
    /\ \A s \in state["spaces"] : OrgOf[s] \in state["orgs"]
    /\ \A a \in state["apps"] : SpaceOf[a] \in state["spaces"]
    /\ \A x, y \in state["orgs"] : Name[x] = Name[y] => x = y
    /\ \A x, y \in state["spaces"] : Name[x] = Name[y] /\ OrgOf[x] = OrgOf[y] => x = y
    /\ \A x, y \in state["apps"] : Name[x] = Name[y] /\ SpaceOf[x] = SpaceOf[y] => x = y

Init ==
    /\ \E orgs \in SUBSET Orgs, spaces \in SUBSET Spaces,
          apps \in SUBSET Apps, users \in SUBSET Users :
             cf = [kind \in Kinds |-> IF kind = "orgs" THEN orgs
                                      ELSE IF kind = "spaces" THEN spaces
                                      ELSE IF kind = "apps" THEN apps ELSE users]
    /\ Consistent(cf)
    /\ pc = "exited" /\ mode = "none" /\ listed = Empty /\ skipped = Empty
    /\ stdin = None /\ printed = None /\ code = None /\ backup = None
    /\ created = FALSE /\ deleted = FALSE /\ failed = {} /\ reordered = FALSE /\ exact = None
    /\ ops = 0 /\ faults = 0

Next ==
    \/ \E kind \in Kinds : Create(kind) \/ Delete(kind) \/ ReadPage(kind) \/ ListFails(kind)
    \/ \E environment \in SUBSET Variables, args \in {"report", "compare", "other"} :
          Start(environment, args)
    \/ ReadInput \/ Connect \/ ConnectFails \/ PrintMetadata \/ PrintComparison

Spec == Init /\ [][Next]_vars
-----------------------------------------------------------------------------
Steps == Kinds \cup {"exited", "read", "connect", "print"}

ByKind(state) == DOMAIN state = Kinds /\ \A kind \in Kinds : state[kind] \subseteq Guids(kind)

\* Types; a command that has ended has left an exit code, and one that prints
\* something ends with 0.
TypeOK ==
    /\ ByKind(cf) /\ ByKind(listed) /\ ByKind(skipped)
    /\ pc \in Steps
    /\ mode \in {"none", "report", "compare", "other"}
    /\ code \in {None, 0, 1}
    /\ mode = "none" => pc = "exited"
    /\ pc = "exited" /\ mode # "none" <=> code # None
    /\ printed # None => code = 0
    /\ created \in BOOLEAN /\ deleted \in BOOLEAN /\ reordered \in BOOLEAN /\ failed \subseteq Kinds
    /\ ops \in 0..MaxOps /\ faults \in 0..MaxFaults

\* Orgs are listed before their spaces and spaces before their apps: whatever is
\* deleted between two lists or while one is made, what the totals count has its
\* place in the summary, unless a list failed or something was created meanwhile;
\* only a parent that a deletion of its own kind has moved off the pages takes the
\* place of its children with it (Execute, getAllOrgsSummary).
NothingDropped ==
    pc = "exited" /\ mode = "report" /\ printed # None /\ failed = {} /\ ~created =>
        /\ \A s \in listed["spaces"] : OrgOf[s] \notin skipped["orgs"] =>
              \E o \in printed.orgs :
                 /\ o.name = Name[OrgOf[s]]
                 /\ \E t \in o.spaces : t.name = Name[s]
        /\ \A a \in listed["apps"] :
              SpaceOf[a] \notin skipped["spaces"] /\ OrgOf[SpaceOf[a]] \notin skipped["orgs"] =>
                 \E o \in printed.orgs :
                    /\ o.name = Name[OrgOf[SpaceOf[a]]]
                    /\ \E t \in o.spaces : t.name = Name[SpaceOf[a]] /\ Name[a] \in t.apps
        /\ ~deleted => \A kind \in Kinds : skipped[kind] = {}

\* What two installations must have in common to be taken for the same.
Tree(state) ==
    {[name |-> Name[o],
      spaces |-> {[name |-> Name[s], apps |-> {Name[a] : a \in {b \in state["apps"] : SpaceOf[b] = s}}] :
                  s \in {t \in state["spaces"] : OrgOf[t] = o}}] : o \in state["orgs"]}
Alike(left, right) ==
    Tree(left) = Tree(right) /\ Cardinality(left["users"]) = Cardinality(right["users"])

\* After a backup and a comparison during which nothing failed or changed, "no
\* difference" means that the names and the number of users are what they were,
\* whatever GUIDs the restored things have; and it is what is said of them, unless
\* they may have come in another order (Compare).
ComparisonTrue ==
    pc = "exited" /\ mode = "compare" /\ printed # None /\ exact # None
        /\ failed = {} /\ ~created /\ ~deleted
    => /\ printed = "same" => Alike(exact, cf)
       /\ Alike(exact, cf) /\ ~reordered => printed = "same"

\* The error of a failed list is dropped, but the comparison shows it: it reports
\* a difference unless the backup has none of that kind either.
FailureShows ==
    pc = "exited" /\ mode = "compare" /\ printed = "same" =>
        \A kind \in failed : stdin.totals[kind] = 0
=============================================================================
