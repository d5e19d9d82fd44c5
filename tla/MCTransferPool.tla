--------------------------- MODULE MCTransferPool ---------------------------
EXTENDS TransferPool

\* A directory with a file, and two files beside it.
TreeDirs == {1}
TreeParent == [n \in 1 .. 4 |-> IF n = 2 THEN 1 ELSE 0]
TreeSize == [n \in 1 .. 4 |-> IF n = 2 THEN 1 ELSE 0]
\* Uploads with and without overwriting, and a download to a directory of another name.
AllCalls ==
  [operation : {"upload"}, noClobber : BOOLEAN, matching : {FALSE}]
    \cup [operation : {"download"}, noClobber : {FALSE}, matching : {FALSE}]
=============================================================================
