----------------------------- MODULE MCDownload -----------------------------
EXTENDS Download

\* The second version is longer than the first, the third as long as the first.
Sizes == [v \in 1 .. 3 |-> IF v = 2 THEN 3 ELSE 2]
AllCalls == [resume : BOOLEAN, verify : BOOLEAN, noClobber : {FALSE}, expected : {0, 2}]
  \cup [resume : {TRUE}, verify : {TRUE}, noClobber : {TRUE}, expected : {0}]
ResumingCalls == {[resume |-> TRUE, verify |-> TRUE, noClobber |-> FALSE, expected |-> 0]}
AllServers == {{"ETag", "If-Range"}, {"ETag"}, {}}
GoodServer == {{"ETag", "If-Range"}}
=============================================================================
