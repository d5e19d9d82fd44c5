-------------------------- MODULE Download_proofs --------------------------
(***************************************************************************)
(* A download never splices two versions and never delivers one older than *)
(* the call, for every number and size of versions, every server that      *)
(* Download describes and every number of faults.                          *)
(***************************************************************************)
EXTENDS Download, TLAPS

Receiving == {"drop-label", "truncate", "label", "copy", "verify", "tidy", "rename"}
Received == {"verify", "tidy", "rename"}

\* The entity being received was the server's at some time during the call.
GotIsCurrent ==
  /\ started <= version
  /\ pc \in Receiving => started <= got /\ got <= version

\* What the program points between the request and the rename rely on.
PartMatchesPc ==
  /\ pc = "request" /\ offset > 0 =>
       hasPart /\ sidecar # 0 /\ validator = sidecar /\ offset = Len(part)
  /\ pc \in {"drop-part", "drop-sidecar"} => offset = 0
  /\ pc \in {"truncate", "label"} => sidecar = 0
  /\ pc = "label" => hasPart /\ part = <<>>
  /\ pc = "copy" => hasPart /\ IsPrefixOf(part, got) /\ Len(part) < Size[got]
  /\ pc \in Received => hasPart /\ IsPrefixOf(part, got) /\ Len(part) = Size[got]
  /\ pc \in {"copy", "verify", "tidy"} => sidecar = ETag(got)
  /\ pc = "rename" => sidecar \in {0, ETag(got)}

\* A request that named an ETag was answered with that entity.
GotIsExpected ==
  pc \in Receiving /\ options.expected # 0 /\ "ETag" \in server => got = options.expected

\* The inductive invariant.
IInv ==
  /\ TypeOK /\ LabelDescribesPart /\ DeliveredWhole
  /\ GotIsCurrent /\ PartMatchesPc /\ GotIsExpected

-----------------------------------------------------------------------------

\* A prefix that has all bytes of a version is that version.
LEMMA FullPrefix ==
  ASSUME NEW v \in Versions, NEW bytes \in Seq(Versions),
         IsPrefixOf(bytes, v), Len(bytes) = Size[v]
  PROVE  bytes = Whole(v)
  BY DownloadAssumption DEF IsPrefixOf, Whole, Versions

\* Another byte of the same version keeps a short prefix a prefix.
LEMMA LongerPrefix ==
  ASSUME NEW v \in Versions, NEW bytes \in Seq(Versions),
         IsPrefixOf(bytes, v), Len(bytes) < Size[v]
  PROVE  /\ IsPrefixOf(Append(bytes, v), v)
         /\ Append(bytes, v) \in Seq(Versions)
         /\ Len(Append(bytes, v)) = Len(bytes) + 1
  BY DownloadAssumption DEF IsPrefixOf, Versions

LEMMA InitInv == Init => IInv
<1> SUFFICES ASSUME Init PROVE IInv
  OBVIOUS
<1> USE DownloadAssumption DEF Init
<1>1. TypeOK
  <2>1. options \in Options
    OBVIOUS
  <2>2. 1 \in Versions
    BY DEF Versions
  <2>3. part \in Seq(Versions) /\ target \in Seq(Versions)
    OBVIOUS
  <2>4. attempt \in 0 .. Retries /\ faults \in 0 .. MaxFaults /\ offset \in Nat
    OBVIOUS
  <2>5. hasPart \in BOOLEAN
    OBVIOUS
  <2>6. pc \in Labels /\ outcome \in {"none", "done", "failed"}
    BY DEF Labels
  <2>7. version \in Versions /\ started \in Versions /\ got \in Versions
    BY <2>2
  <2>8. sidecar \in Versions \cup {0} /\ validator \in Versions \cup {0}
    OBVIOUS
  <2> QED
    BY <2>1, <2>3, <2>4, <2>5, <2>6, <2>7, <2>8 DEF TypeOK
<1>2. LabelDescribesPart /\ DeliveredWhole
  BY DEF LabelDescribesPart, DeliveredWhole
<1>3. GotIsCurrent /\ PartMatchesPc /\ GotIsExpected
  BY DEF GotIsCurrent, PartMatchesPc, GotIsExpected, Receiving, Received
<1> QED
  BY <1>1, <1>2, <1>3 DEF IInv

\* Every step preserves the invariant.
LEMMA NextInv == IInv /\ [Next]_vars => IInv'
<1> SUFFICES ASSUME IInv, [Next]_vars PROVE IInv'
  OBVIOUS
<1> USE DownloadAssumption
        DEF IInv, TypeOK, LabelDescribesPart, DeliveredWhole, GotIsCurrent, PartMatchesPc,
            GotIsExpected, Versions, Options, Labels, Receiving, Received, Goto, End, files, call
<1>1. CASE Start
  <2>1. options' \in Options
    BY <1>1 DEF Start
  <2>2. pc' \in {"examine", "drop-part"}
    BY <1>1 DEF Start
  <2>3. TypeOK'
    BY <1>1, <2>1, <2>2 DEF Start
  <2>4. LabelDescribesPart' /\ DeliveredWhole'
    BY <1>1 DEF Start
  <2>5. GotIsCurrent' /\ PartMatchesPc' /\ GotIsExpected'
    BY <1>1, <2>2 DEF Start
  <2> QED
    BY <2>3, <2>4, <2>5
<1>2. CASE DropPart
  <2>1. hasPart' \in BOOLEAN
    BY <1>2, Zenon DEF DropPart
  <2>2. TypeOK'
    BY <1>2, <2>1 DEF DropPart
  <2>3. LabelDescribesPart' /\ DeliveredWhole'
    BY <1>2 DEF DropPart
  <2>4. GotIsCurrent' /\ PartMatchesPc' /\ GotIsExpected'
    BY <1>2 DEF DropPart
  <2> QED
    BY <2>2, <2>3, <2>4
<1>3. CASE DropSidecar
  BY <1>3 DEF DropSidecar
<1>4. CASE Examine
  BY <1>4 DEF Examine
<1>5. CASE PreconditionFails \/ Unsatisfiable \/ OtherEntity \/ NotConfirmed
  <2>1. /\ pc' = "idle" /\ outcome' = "failed"
        /\ UNCHANGED <<server, version, files, call, started, faults>>
    BY <1>5 DEF PreconditionFails, Unsatisfiable, OtherEntity, NotConfirmed
  <2> QED
    BY <2>1 DEF ETag
<1>6. CASE Partial
  BY <1>6 DEF Partial, InRange, Matches, ETag
<1>7. CASE FromStart
  BY <1>7 DEF FromStart, Matches, ETag
<1>8. CASE DropLabel
  BY <1>8 DEF DropLabel
<1>9. CASE Truncate
  BY <1>9 DEF Truncate
<1>10. CASE Label
  BY <1>10 DEF Label, ETag, IsPrefixOf
<1>11. CASE Copy
  BY <1>11, LongerPrefix DEF Copy, ETag
<1>12. CASE Verify
  BY <1>12 DEF Verify, ETag
<1>13. CASE Tidy
  BY <1>13 DEF Tidy, ETag
<1>14. CASE Rename
  <2>1. part = Whole(got)
    BY <1>14, FullPrefix DEF Rename
  <2>2. hasPart' \in BOOLEAN
    BY <1>14, Zenon DEF Rename
  <2>3. TypeOK'
    BY <1>14, <2>2 DEF Rename
  <2>4. LabelDescribesPart' /\ DeliveredWhole'
    BY <1>14, <2>1 DEF Rename
  <2>5. GotIsCurrent' /\ PartMatchesPc' /\ GotIsExpected'
    BY <1>14 DEF Rename
  <2> QED
    BY <2>3, <2>4, <2>5
<1>15. CASE Retry
  BY <1>15 DEF Retry, Fault, ETag
<1>16. CASE Fail
  BY <1>16 DEF Fail, Fault, ETag
<1>17. CASE Replace
  BY <1>17 DEF Replace, ETag
<1>18. CASE UNCHANGED vars
  BY <1>18 DEF vars, ETag
<1> QED
  BY <1>1, <1>2, <1>3, <1>4, <1>5, <1>6, <1>7, <1>8, <1>9, <1>10, <1>11, <1>12, <1>13,
     <1>14, <1>15, <1>16, <1>17, <1>18 DEF Next, Step

\* The inductive invariant holds throughout.
THEOREM Invariance == Spec => []IInv
  BY InitInv, NextInv, PTL DEF Spec

\* The state stays well typed.
THEOREM TypeCorrect == Spec => []TypeOK
  BY Invariance, PTL DEF IInv

\* Whenever the process dies, the sidecar describes the bytes beside it.
THEOREM LabelSafe == Spec => []LabelDescribesPart
  BY Invariance, PTL DEF IInv

\* The destination never holds a splice.
THEOREM NoSplice == Spec => []DeliveredWhole
  BY Invariance, PTL DEF IInv

\* Every step of a download is a step of an atomic fetch or changes nothing of it.
LEMMA StepFetches ==
  IInv /\ [Next]_vars => [Fetch!Next]_<<version, started, target>>
<1> SUFFICES ASSUME IInv, [Next]_vars
             PROVE [Fetch!Next]_<<version, started, target>>
  OBVIOUS
<1> USE DEF Fetch!Next, Goto, End, files, call
<1>1. CASE Start
  BY <1>1 DEF Start, Fetch!Begin
<1>2. CASE Replace
  BY <1>2 DEF Replace, Fetch!Replace
<1>3. CASE Rename
  <2>1. got \in started .. version /\ part = Whole(got)
    BY <1>3, FullPrefix
    DEF IInv, TypeOK, GotIsCurrent, PartMatchesPc, Rename, Receiving, Received, Versions
  <2> QED
    BY <1>3, <2>1 DEF Rename, Fetch!Deliver
<1>4. CASE Step /\ ~Rename
  BY <1>4 DEF Step, DropPart, DropSidecar, Examine, PreconditionFails, Unsatisfiable, Partial,
     OtherEntity, FromStart, DropLabel, Truncate, Label, Copy, Verify, NotConfirmed, Tidy
<1>5. CASE Retry \/ Fail
  BY <1>5 DEF Retry, Fail, Fault
<1>6. CASE UNCHANGED vars
  BY <1>6 DEF vars
<1> QED
  BY <1>1, <1>2, <1>3, <1>4, <1>5, <1>6 DEF Next

\* A download that names an ETag installs the version it names.
THEOREM ExpectedDelivered == Spec => DeliveredAsExpected
<1>1. IInv /\ [Next]_vars =>
        [target' # target /\ options.expected # 0 /\ "ETag" \in server =>
           target' = Whole(options.expected)]_vars
  <2> SUFFICES ASSUME IInv, Next, target' # target, options.expected # 0, "ETag" \in server
               PROVE  target' = Whole(options.expected)
    OBVIOUS
  <2>1. CASE Rename
    BY <2>1, FullPrefix
    DEF IInv, TypeOK, PartMatchesPc, GotIsExpected, Rename, Receiving, Received
  <2>2. CASE ~Rename
    BY <2>2 DEF Next, Step, Goto, End, files, call, Start, DropPart, DropSidecar, Examine,
       PreconditionFails, Unsatisfiable, Partial, OtherEntity, FromStart, DropLabel, Truncate,
       Label, Copy, Verify, NotConfirmed, Tidy, Retry, Fail, Fault, Replace
  <2> QED
    BY <2>1, <2>2
<1> QED
  BY <1>1, Invariance, PTL DEF Spec, DeliveredAsExpected

\* A download implements an atomic fetch.
THEOREM Refinement == Spec => FetchSpec
<1>1. Init => Fetch!Init
  BY DEF Init, Fetch!Init
<1> QED
  BY <1>1, Invariance, StepFetches, PTL DEF Spec, FetchSpec, Fetch!Spec
=============================================================================
