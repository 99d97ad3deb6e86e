------------------------------ MODULE MCFat16 -------------------------------
(***************************************************************************)
(* Fat16 on volumes of a few clusters of two units each.  A directory's    *)
(* first cluster is full with . and .., so every child takes an expansion; *)
(* a file of two units has an empty second cluster.                        *)
(***************************************************************************)
EXTENDS Fat16

\* A directory in the root, one in it, and a file in that; three names for the two
\* entries of the root.
DeepPaths == {<<"a">>, <<"b">>, <<"c">>, <<"a", "b">>, <<"a", "b", "a">>}

\* Reading, appending as the copy test of kernel/main.c does, and making directories.
\* A write without APPEND starts at the beginning of the file and cuts it off behind
\* itself: FileStore, a store of files that grow, does not promise it.
StoreFlags == {{}, {"WRITE", "APPEND", "CREATE"}, {"CREATE", "DIR"}}

\* A text of one unit, and one of three that fills a cluster and begins the next.
ShortAndLong == {<<"x">>, <<"p", "q", "r">>}

Blank == mkfs

=============================================================================
