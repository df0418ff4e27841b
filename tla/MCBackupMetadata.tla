-------------------------- MODULE MCBackupMetadata --------------------------
EXTENDS BackupMetadata, TLC

\* Two orgs of one name, with a space and an app of the same names each: what is
\* deleted and restored has new GUIDs.  A third org beside them has a space and an
\* app as well, which come before or after the others on the pages.
MCOrgs == {"o1", "o2", "o3"}
MCSpaces == {"s1", "s2", "s3"}
MCApps == {"a1", "a2", "a3"}
MCUsers == {"u1", "u2"}
MCOrgOf == "s1" :> "o1" @@ "s2" :> "o2" @@ "s3" :> "o3"
MCSpaceOf == "a1" :> "s1" @@ "a2" :> "s2" @@ "a3" :> "s3"
MCName == [guid \in {"o1", "o2"} |-> "org"] @@ "o3" :> "other"
              @@ [guid \in MCSpaces |-> "space"] @@ [guid \in MCApps |-> "app"]
=============================================================================
