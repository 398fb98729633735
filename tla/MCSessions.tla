----------------------------- MODULE MCSessions -----------------------------
(***************************************************************************)
(* Small folders and lists in which every special case of the code is      *)
(* there, for TLC.                                                         *)
(***************************************************************************)
EXTENDS Sessions

File(size, old) == [kind |-> "file", size |-> size, old |-> old]
Folder          == [kind |-> "folder", size |-> 0, old |-> FALSE]

\* Two single files at once, one of them new and empty; a file of two blocks
\* beside a path that is not there; a folder with two files to ask about beside
\* an empty list; one with a new file and an empty folder; one the second entry of
\* which has the key of the other job's file.
SmallFetches == {
    << <<File(1, TRUE)>>, <<File(0, FALSE)>> >>,
    << <<File(2, TRUE)>>, NotThere >>,
    << <<File(1, TRUE), File(1, TRUE)>>, <<>> >>,
    << <<File(1, FALSE), Folder>>, NotThere >>,
    << <<File(0, FALSE), File(0, FALSE)>>, <<File(1, TRUE)>> >> }

\* Two single files at once; a folder that ends in an empty one; two files; one
\* the second entry of which has the key of the other job's file.
SmallUploads == {
    << <<File(1, TRUE)>>, <<File(1, FALSE)>> >>,
    << <<File(2, TRUE), Folder>>, <<>> >>,
    << <<File(1, TRUE), File(1, FALSE)>>, <<>> >>,
    << <<Folder, File(1, FALSE)>>, <<File(1, TRUE)>> >> }

\* Two files; a folder that ends in an empty file; no file; one of a bad name.
SmallCopies == {
    <<[kind |-> "file", size |-> 2], [kind |-> "file", size |-> 1]>>,
    <<[kind |-> "folder", size |-> 0], [kind |-> "file", size |-> 0]>>,
    <<[kind |-> "folder", size |-> 0]>>,
    <<[kind |-> "unsafe", size |-> 1]>> }

\* Headers of one byte and of two.
SmallLimits == <<1, 3>>
=============================================================================
