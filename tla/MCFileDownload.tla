--------------------------- MODULE MCFileDownload ---------------------------
EXTENDS FileDownload

OldFile == [kind |-> "file", size |-> 1, old |-> TRUE]

\* A folder of two files that are both here already; a single file.
MCTrees == {<< <<OldFile, OldFile>> >>, << <<OldFile>> >>}
=============================================================================
