------------------------------ MODULE MCUpload ------------------------------
EXTENDS Upload

\* An edit makes the file longer, the next one makes it shorter again.
Sizes == [v \in 1 .. 3 |-> IF v = 2 THEN 3 ELSE 2]
\* Resumable uploads with and without verification, and the three kinds of PUT.
AllCalls ==
  [noClobber : {FALSE}, guarded : {FALSE}, tus : {TRUE}, verify : BOOLEAN]
    \cup [noClobber : {FALSE}, guarded : {TRUE}, tus : {TRUE}, verify : {TRUE}]
    \cup [noClobber : BOOLEAN, guarded : {FALSE}, tus : {FALSE}, verify : BOOLEAN]
=============================================================================
