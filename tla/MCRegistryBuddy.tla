-------------------------- MODULE MCRegistryBuddy --------------------------
EXTENDS RegistryBuddy

\* One file with two time stamps, and a symlink before a file of a FAT zip.
File(time, fat) == [kind |-> "file", mode |-> 420, time |-> time, fat |-> fat]
Link == [kind |-> "symlink", mode |-> 511, time |-> 1, fat |-> FALSE]
MCArchives == {<<>>, <<File(1, FALSE)>>, <<File(2, FALSE)>>, <<Link, File(1, TRUE)>>,
               <<File(1, FALSE), Link>>, <<File(2, FALSE), Link>>}
=============================================================================
