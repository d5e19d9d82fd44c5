--------------------------- MODULE Upload_proofs ---------------------------
(***************************************************************************)
(* An upload installs a whole version of the local file, a conditional one *)
(* overwrites nothing but what it names, a saved session is of no use for  *)
(* another version, one that succeeds has delivered the file and left no   *)
(* temporary one, for every number and size of versions, every set of      *)
(* options, every number of retries, faults and other clients' writes.     *)
(***************************************************************************)
EXTENDS Upload, TLAPS

Resuming == {"open", "send", "broken", "rejected", "refresh"}
Streaming == {"send", "broken", "rejected", "refresh"}

TypeServer ==
  /\ remote \in Files /\ temporary \in Files
  /\ upload \in [exists : BOOLEAN, expired : BOOLEAN, size : Nat, bytes : Seq(Versions)]

TypeHistory ==
  /\ local \in Versions /\ session \in Versions \cup {0}
  /\ installs \in Nat /\ delivered \in Seq(Bytes)
  /\ others \in 0 .. MaxOthers /\ faults \in 0 .. MaxFaults

TypeCall ==
  /\ info \in Versions /\ opened \in Versions
  /\ pc \in Labels /\ options \in Options
  /\ expected \in Nat /\ offset \in Nat /\ attempt \in 0 .. Retries /\ putETag \in Nat
  /\ outcome \in {"none", "done", "failed"}

\* No fingerprint is of a version to come, and an unedited file is what was opened.
SourcesArePast ==
  /\ session <= local /\ info <= local
  /\ pc \in Streaming /\ info = local => opened = local

\* What the program points of a resumable upload rely on.
SessionMatchesPc ==
  /\ pc \in {"load", "create", "save"} \cup Resuming =>
       ~options.noClobber /\ expected = 0 /\ putETag = 0
  /\ pc = "create" => session = 0
  /\ pc = "save" => session = 0 /\ upload.bytes = <<>> /\ upload.size = Size[info]
  /\ pc \in Resuming => session = info /\ upload.size = Size[info]

\* What a conditional call relies on: it has not written yet, or what it has
\* written makes its next attempt fail.
GuardHolds ==
  /\ pc \in {"move", "cleanup"} => options.noClobber
  /\ pc = "put" /\ expected # 0 /\ installs > 0 => remote.etag # expected
  /\ pc # "idle" /\ options.noClobber =>
       /\ pc \in {"put", "verify", "move", "cleanup"}
       /\ pc \in {"put", "verify"} => installs = 0
       /\ pc = "move" /\ installs > 0 => temporary = Missing
       /\ expected # 0 => pc = "put" /\ temporary = Missing
       /\ temporary # Missing /\ info = local => temporary.bytes = Whole(info)

\* What verification relies on: under the ETag of the PUT is what was put.
PutHolds ==
  pc = "verify" /\ putETag # 0 /\ ~options.noClobber /\ remote.etag = putETag /\ info = local =>
    remote.bytes = Whole(info)

\* The inductive invariant.
IInv ==
  /\ TypeOK /\ SessionBelongsToSource
  /\ SourcesArePast /\ SessionMatchesPc /\ GuardHolds /\ PutHolds

-----------------------------------------------------------------------------

\* There is an ETag that is not in use, since at most four are.
LEMMA FreshETag ==
  ASSUME TypeOK
  PROVE  /\ NewETag \in Nat \ {0}
         /\ NewETag # remote.etag /\ NewETag # temporary.etag
         /\ NewETag # expected /\ NewETag # putETag
<1> DEFINE used == {remote.etag, temporary.etag, expected, putETag}
<1>1. \E e \in 1 .. 5 : e \notin used
  <2>1. SUFFICES ASSUME \A e \in 1 .. 5 : e \in used PROVE FALSE
    OBVIOUS
  <2>2. 1 \in used /\ 2 \in used /\ 3 \in used /\ 4 \in used /\ 5 \in used
    BY <2>1
  <2> QED
    BY <2>2
<1>2. NewETag \in 1 .. 5 /\ NewETag \notin used
  <2> HIDE DEF used
  <2>1. PICK e \in 1 .. 5 : e \notin used
    BY <1>1
  <2>2. NewETag = CHOOSE n \in 1 .. 5 : n \notin used
    BY DEF NewETag, used
  <2> QED
    BY <2>1, <2>2
<1> QED
  BY <1>2

\* Everything a PUT can store is a file.
LEMMA BodyType ==
  ASSUME TypeOK
  PROVE  Body \in Seq(Bytes) /\ (info = local => Body = Whole(info))
<1>1. Size[info] \in Nat /\ local \in Bytes
  BY UploadAssumption DEF TypeOK, Bytes
<1>2. Body \in Seq(Bytes)
  BY <1>1 DEF Body
<1> QED
  BY <1>2 DEF Body, Whole

\* The smallest values are well typed.
LEMMA LeastValues == 1 \in Versions /\ 0 \in Bytes /\ 0 \in 0 .. Retries /\ Missing \in Files
<1>1. 1 \in Versions /\ 0 \in Bytes /\ 0 \in 0 .. Retries
  BY UploadAssumption DEF Versions, Bytes
<1> QED
  BY <1>1 DEF Missing, Files

\* A call that ends or only goes on is well typed.
LEMMA EndTypes ==
  ASSUME TypeOK, NEW result \in {"done", "failed"}, End(result)
  PROVE  TypeCall'
  BY LeastValues DEF End, Returned, TypeOK, TypeCall, Labels

LEMMA GotoTypes ==
  ASSUME TypeOK, NEW label \in Labels, Goto(label)
  PROVE  TypeCall'
  BY DEF Goto, call, TypeOK, TypeCall

LEMMA AgainTypes ==
  ASSUME TypeOK, Again
  PROVE  TypeCall'
<1>1. CASE End("failed")
  BY <1>1, EndTypes
<1>2. CASE ~End("failed")
  <2>1. attempt' \in 0 .. Retries
    BY <1>2, UploadAssumption DEF Again, TypeOK
  <2> QED
    BY <1>2, <2>1 DEF Again, TypeOK, TypeCall
<1> QED
  BY <1>1, <1>2

\* What is installed is a file, and a fault stays within the bound.
LEMMA InstallTypes ==
  ASSUME TypeOK, NEW bytes \in Seq(Bytes), Install(bytes)
  PROVE  remote' \in Files /\ installs' \in Nat /\ delivered' \in Seq(Bytes)
<1>1. NewETag \in Nat
  BY FreshETag
<1> QED
  BY <1>1 DEF Install, TypeOK, Files

LEMMA LostTypes ==
  ASSUME TypeOK, Lost
  PROVE  faults' \in 0 .. MaxFaults
  BY UploadAssumption DEF Lost, TypeOK

\* The types of the call are preserved.
LEMMA CallNext == TypeOK /\ [Next]_vars => TypeCall'
<1> SUFFICES ASSUME TypeOK, [Next]_vars PROVE TypeCall'
  OBVIOUS
<1>1. CASE Start
  <2>1. options' \in Options
    BY <1>1, UploadAssumption DEF Start
  <2>2. expected' \in Nat
    BY <1>1 DEF Start, TypeOK, Files
  <2>3. pc' \in {"load", "put"}
    BY <1>1 DEF Start
  <2>4. pc' \in Labels
    BY <2>3 DEF Labels
  <2> QED
    BY <1>1, <2>1, <2>2, <2>4, LeastValues DEF Start, TypeOK, TypeCall
<1>2. CASE PutRefused \/ NotVerified \/ MoveAnswered \/ Cleanup \/ Fail
  BY <1>2, EndTypes DEF PutRefused, NotVerified, MoveAnswered, Cleanup, Fail
<1>3. CASE MoveRefused \/ Discard \/ Create \/ Save \/ SendBroken \/ SendRefused
  BY <1>3, GotoTypes DEF MoveRefused, Discard, Create, Save, SendBroken, SendRefused, Labels
<1>4. CASE PutBroken \/ PutCut
  BY <1>4, AgainTypes DEF PutBroken, PutCut, PutUnanswered
<1>5. CASE PutAnswered \/ Verify
  <2>1. Uploaded => TypeCall'
    BY EndTypes, LeastValues DEF Uploaded, TypeOK, TypeCall, Labels
  <2>2. CASE Uploaded
    BY <2>1, <2>2
  <2>3. CASE ~Uploaded
    <3>1. PutAnswered /\ pc' = "verify" /\ putETag' \in Nat
      BY <1>5, <2>3, FreshETag DEF PutAnswered, Verify
    <3> QED
      BY <2>3, <3>1 DEF PutAnswered, TypeOK, TypeCall, Labels
  <2> QED
    BY <2>2, <2>3
<1>6. CASE MoveBroken
  <2>1. CASE Goto("cleanup")
    BY <2>1, GotoTypes DEF Labels
  <2>2. CASE ~Goto("cleanup")
    <3>1. attempt' \in 0 .. Retries
      BY <1>6, <2>2, UploadAssumption DEF MoveBroken, TypeOK
    <3> QED
      BY <1>6, <2>2, <3>1 DEF MoveBroken, TypeOK, TypeCall
  <2> QED
    BY <2>1, <2>2
<1>7. CASE Resume \/ Open
  BY <1>7 DEF Resume, Open, TypeOK, TypeCall, Labels
<1>8. CASE Send
  BY <1>8 DEF Send, TypeOK, TypeCall
<1>9. CASE SaveProgress
  <2>1. CASE End("failed")
    BY <2>1, EndTypes
  <2>2. CASE ~End("failed")
    <3>1. attempt' \in 0 .. Retries
      BY <1>9, <2>2, UploadAssumption DEF SaveProgress, TypeOK
    <3> QED
      BY <1>9, <2>2, <3>1 DEF SaveProgress, TypeOK, TypeCall, Labels
  <2> QED
    BY <2>1, <2>2
<1>10. CASE Refresh
  <2>1. CASE upload.exists
    BY <1>10, <2>1 DEF Refresh, TypeOK, TypeCall, Labels
  <2>2. CASE ~upload.exists
    BY <1>10, <2>2, EndTypes DEF Refresh
  <2> QED
    BY <2>1, <2>2
<1>11. CASE Finish
  BY <1>11, EndTypes, GotoTypes DEF Finish, Labels
<1>12. CASE Edit
  <2>1. local' \in Versions
    BY <1>12, UploadAssumption DEF Edit, Versions, TypeOK
  <2>2. opened' \in Versions
    BY <1>12, <2>1 DEF Edit, TypeOK
  <2> QED
    BY <1>12, <2>2 DEF Edit, TypeOK, TypeCall
<1>13. CASE OtherClient \/ Expire \/ UNCHANGED vars
  BY <1>13 DEF OtherClient, Expire, vars, call, TypeOK, TypeCall
<1> QED
  BY <1>1, <1>2, <1>3, <1>4, <1>5, <1>6, <1>7, <1>8, <1>9, <1>10, <1>11, <1>12, <1>13
  DEF Next, Step

\* The types of the server and of the histories are preserved.
LEMMA ServerNext == TypeOK /\ [Next]_vars => TypeServer' /\ TypeHistory'
<1> SUFFICES ASSUME TypeOK, [Next]_vars PROVE TypeServer' /\ TypeHistory'
  OBVIOUS
<1> USE DEF TypeOK, TypeServer, TypeHistory
<1> DEFINE Uploads == [exists : BOOLEAN, expired : BOOLEAN, size : Nat, bytes : Seq(Versions)]
<1>0. Missing \in Files /\ NewETag \in Nat /\ Body \in Seq(Bytes)
  BY LeastValues, FreshETag, BodyType
<1>1. CASE Start
  BY <1>0, <1>1 DEF Start
<1>2. CASE PutAnswered \/ PutBroken \/ PutCut
  <2>1. UNCHANGED <<local, upload, session, others>> /\ faults' \in 0 .. MaxFaults
    BY <1>2, LostTypes DEF PutAnswered, PutBroken, PutCut, PutUnanswered
  <2>2. Store(Body) \/ UNCHANGED <<remote, temporary, history>>
    BY <1>2 DEF PutAnswered, PutBroken, PutCut, PutUnanswered
  <2>3. CASE UNCHANGED <<remote, temporary, history>>
    BY <2>1, <2>3 DEF history
  <2>4. CASE Store(Body) /\ options.noClobber
    <3>1. temporary' \in Files
      BY <1>0, <2>4 DEF Store, Files
    <3> QED
      BY <2>1, <2>4, <3>1 DEF Store, history
  <2>5. CASE Store(Body) /\ ~options.noClobber
    BY <1>0, <2>1, <2>5, InstallTypes DEF Store
  <2> QED
    BY <2>2, <2>3, <2>4, <2>5
<1>3. CASE PutRefused \/ Verify \/ NotVerified \/ MoveRefused \/ Cleanup
  BY <1>0, <1>3 DEF PutRefused, Verify, NotVerified, MoveRefused, Cleanup, server, history
<1>4. CASE MoveAnswered \/ MoveBroken
  <2>1. UNCHANGED <<local, upload, session, others>> /\ faults' \in 0 .. MaxFaults
    BY <1>4, LostTypes DEF MoveAnswered, MoveBroken
  <2>2. \/ Install(temporary.bytes) /\ temporary' = Missing
        \/ UNCHANGED <<remote, temporary, history>>
    BY <1>4 DEF MoveAnswered, MoveBroken
  <2>3. temporary.bytes \in Seq(Bytes)
    BY DEF Files
  <2> QED
    BY <1>0, <2>1, <2>2, <2>3, InstallTypes DEF history
<1>5. CASE Discard \/ Resume \/ Save \/ Open \/ SendRefused \/ SaveProgress \/ Refresh \/ Finish
  BY <1>5 DEF Discard, Resume, Save, Open, SendRefused, SaveProgress, Refresh, Finish, server,
     history
<1>6. CASE Create
  <2>1. upload' \in Uploads
    BY <1>6, UploadAssumption DEF Create
  <2> QED
    BY <1>6, <2>1 DEF Create, history
<1>7. CASE Send \/ SendBroken
  <2>1. Append(upload.bytes, opened) \in Seq(Versions) \cap Seq(Bytes)
    BY DEF Bytes
  <2>2. UNCHANGED <<local, temporary, session, others>> /\ faults' \in 0 .. MaxFaults
    BY <1>7, LostTypes DEF Send, SendBroken
  <2>3. Receive \/ UNCHANGED <<remote, upload, history>>
    BY <1>7 DEF Send, SendBroken
  <2>4. CASE UNCHANGED <<remote, upload, history>>
    BY <2>2, <2>4 DEF history
  <2>5. CASE Receive
    <3>1. upload' \in Uploads
      BY <2>1, <2>5 DEF Receive
    <3>2. remote' \in Files /\ installs' \in Nat /\ delivered' \in Seq(Bytes)
      BY <2>1, <2>5, InstallTypes DEF Receive, history
    <3> QED
      BY <2>2, <3>1, <3>2
  <2> QED
    BY <2>3, <2>4, <2>5
<1>8. CASE Fail
  BY <1>8, LostTypes DEF Fail, server, history
<1>9. CASE Edit
  <2>1. local' \in Versions
    BY <1>9, UploadAssumption DEF Edit, Versions
  <2> QED
    BY <1>9, <2>1 DEF Edit, server, history
<1>10. CASE OtherClient
  <2>1. \A n \in OtherSizes : [i \in 1 .. n |-> 0] \in Seq(Bytes)
    BY LeastValues, UploadAssumption
  <2>2. \A n \in OtherSizes : [etag |-> NewETag, bytes |-> [i \in 1 .. n |-> 0]] \in Files
    BY <1>0, <2>1 DEF Files
  <2>3. remote' \in Files
    BY <1>0, <1>10, <2>2 DEF OtherClient
  <2>4. others' \in 0 .. MaxOthers
    BY <1>10, UploadAssumption DEF OtherClient
  <2> QED
    BY <1>10, <2>3, <2>4 DEF OtherClient, history
<1>11. CASE Expire
  <2>1. upload' \in Uploads
    BY <1>11 DEF Expire
  <2>2. faults' \in 0 .. MaxFaults
    BY <1>11, LostTypes DEF Expire
  <2> QED
    BY <1>11, <2>1, <2>2 DEF Expire, history
<1>12. CASE UNCHANGED vars
  BY <1>12 DEF vars, server, history
<1> QED
  BY <1>1, <1>2, <1>3, <1>4, <1>5, <1>6, <1>7, <1>8, <1>9, <1>10, <1>11, <1>12 DEF Next, Step

\* The types are preserved.
LEMMA TypeNext == TypeOK /\ [Next]_vars => TypeOK'
  BY ServerNext, CallNext DEF TypeOK, TypeServer, TypeHistory, TypeCall

-----------------------------------------------------------------------------

\* The initial states satisfy the inductive invariant.
LEMMA InitInv == Init => IInv
<1> SUFFICES ASSUME Init PROVE IInv
  OBVIOUS
<1>1. TypeOK
  <2>1. remote \in Files
    <3>1. \A n \in OtherSizes : [i \in 1 .. n |-> 0] \in Seq(Bytes)
      BY LeastValues, UploadAssumption
    <3>2. \A n \in OtherSizes : [etag |-> 1, bytes |-> [i \in 1 .. n |-> 0]] \in Files
      BY <3>1 DEF Files
    <3> QED
      BY <3>2, LeastValues DEF Init
  <2>2. upload \in [exists : BOOLEAN, expired : BOOLEAN, size : Nat, bytes : Seq(Versions)]
    BY DEF Init, NoUpload
  <2>3. others \in 0 .. MaxOthers /\ faults \in 0 .. MaxFaults
    BY UploadAssumption DEF Init
  <2>4. options \in Options
    BY UploadAssumption DEF Init
  <2> QED
    BY <2>1, <2>2, <2>3, <2>4, LeastValues DEF Init, TypeOK, Labels
<1>2. SessionBelongsToSource
  BY DEF Init, SessionBelongsToSource
<1>3. SourcesArePast
  BY DEF Init, SourcesArePast, Streaming
<1>4. SessionMatchesPc /\ GuardHolds /\ PutHolds
  BY DEF Init, SessionMatchesPc, GuardHolds, PutHolds, Resuming
<1> QED
  BY <1>1, <1>2, <1>3, <1>4 DEF IInv

\* What a step of a PUT leaves alone, and where it leads.
LEMMA PutEffect ==
  ASSUME IInv, PutAnswered \/ PutBroken \/ PutCut
  PROVE  /\ pc = "put" /\ UNCHANGED <<local, upload, session>>
         /\ \/ End("done") \/ End("failed")
            \/ /\ UNCHANGED <<options, expected, info, opened, offset>>
               /\ pc' \in {"put", "verify", "move"}
               /\ pc' \in {"put", "move"} => UNCHANGED putETag
               /\ pc' = "verify" => PutAnswered /\ putETag' = NewETag
               /\ pc' = "move" => PutAnswered /\ options.noClobber
         /\ \/ UNCHANGED <<remote, temporary, installs, delivered>>
            \/ Accepted /\ Store(Body)
  BY DEF PutAnswered, PutBroken, PutCut, PutUnanswered, Uploaded, Again, history

\* What a step of a MOVE leaves alone, and where it leads.
LEMMA MoveEffect ==
  ASSUME IInv, MoveAnswered \/ MoveBroken
  PROVE  /\ pc = "move" /\ UNCHANGED <<local, upload, session>>
         /\ \/ End("done")
            \/ /\ UNCHANGED <<options, expected, info, opened, offset, putETag>>
               /\ pc' \in {"move", "cleanup"}
         /\ \/ Movable /\ Install(temporary.bytes) /\ temporary' = Missing
            \/ UNCHANGED <<remote, temporary, installs, delivered>>
  BY DEF MoveAnswered, MoveBroken, Goto, call, history

\* No fingerprint of the future is taken.
LEMMA SourcesNext == IInv /\ [Next]_vars => SourcesArePast'
<1> SUFFICES ASSUME IInv, [Next]_vars PROVE SourcesArePast'
  OBVIOUS
<1>0. /\ session <= local /\ info <= local /\ 1 <= local /\ 0 <= local /\ local <= local
      /\ pc \in Streaming /\ info = local => opened = local
  BY DEF IInv, SourcesArePast, TypeOK, Versions
<1>1. \A result : End(result) /\ UNCHANGED local /\ session' <= local => SourcesArePast'
  BY <1>0 DEF End, Returned, SourcesArePast, Streaming
<1>2. CASE Start
  BY <1>0, <1>2 DEF Start, SourcesArePast, Streaming
<1>3. CASE PutAnswered \/ PutBroken \/ PutCut
  BY <1>0, <1>1, <1>3, PutEffect DEF SourcesArePast, Streaming
<1>4. CASE MoveAnswered \/ MoveBroken
  BY <1>0, <1>1, <1>4, MoveEffect DEF SourcesArePast, Streaming
<1>5. CASE PutRefused \/ NotVerified \/ Cleanup \/ Fail
  BY <1>0, <1>1, <1>5 DEF PutRefused, NotVerified, Cleanup, Fail
<1>6. CASE Verify
  BY <1>0, <1>1, <1>6 DEF Verify, Uploaded, SourcesArePast, Streaming
<1>7. CASE MoveRefused \/ Discard \/ Create \/ Save
  BY <1>0, <1>7 DEF MoveRefused, Discard, Create, Save, Goto, call, SourcesArePast, Streaming
<1>8. CASE Resume \/ Open
  BY <1>0, <1>8 DEF Resume, Open, SourcesArePast, Streaming
<1>9. CASE Send \/ SendBroken \/ SendRefused
  BY <1>0, <1>9 DEF Send, SendBroken, SendRefused, Goto, call, SourcesArePast, Streaming
<1>10. CASE SaveProgress
  BY <1>0, <1>1, <1>10 DEF SaveProgress, SourcesArePast, Streaming
<1>11. CASE Refresh
  BY <1>0, <1>1, <1>11 DEF Refresh, SourcesArePast, Streaming
<1>12. CASE Finish
  BY <1>0, <1>1, <1>12 DEF Finish, Goto, call, SourcesArePast, Streaming
<1>13. CASE Edit
  <2>1. local \in Nat /\ session \in Nat /\ info \in Nat
    BY DEF IInv, TypeOK, Versions
  <2> QED
    BY <1>0, <1>13, <2>1 DEF Edit, SourcesArePast, Streaming
<1>14. CASE OtherClient \/ Expire \/ UNCHANGED vars
  BY <1>0, <1>14 DEF OtherClient, Expire, vars, call, SourcesArePast, Streaming
<1> QED
  BY <1>2, <1>3, <1>4, <1>5, <1>6, <1>7, <1>8, <1>9, <1>10, <1>11, <1>12, <1>13, <1>14
  DEF Next, Step

\* The saved session and the upload on the server keep to the program points.
LEMMA SessionNext == IInv /\ [Next]_vars => SessionMatchesPc'
<1> SUFFICES ASSUME IInv, [Next]_vars PROVE SessionMatchesPc'
  OBVIOUS
<1>0. SessionMatchesPc
  BY DEF IInv
<1>1. \A result : End(result) => SessionMatchesPc'
  BY DEF End, SessionMatchesPc, Resuming
<1>2. CASE Start
  <2>1. pc' = "load" => ~options'.noClobber /\ expected' = 0
    BY <1>2 DEF Start, UsesTUS
  <2> QED
    BY <1>2, <2>1 DEF Start, SessionMatchesPc, Resuming
<1>3. CASE PutAnswered \/ PutBroken \/ PutCut
  BY <1>1, <1>3, PutEffect DEF SessionMatchesPc, Resuming
<1>4. CASE MoveAnswered \/ MoveBroken
  BY <1>1, <1>4, MoveEffect DEF SessionMatchesPc, Resuming
<1>5. CASE PutRefused \/ NotVerified \/ Cleanup \/ Fail
  BY <1>1, <1>5 DEF PutRefused, NotVerified, Cleanup, Fail
<1>6. CASE Verify
  BY <1>1, <1>6 DEF Verify, Uploaded, SessionMatchesPc, Resuming
<1>7. CASE MoveRefused
  BY <1>7 DEF MoveRefused, Goto, SessionMatchesPc, Resuming
<1>8. CASE Discard
  BY <1>0, <1>8 DEF Discard, Goto, call, SessionMatchesPc, Resuming
<1>9. CASE Create
  BY <1>0, <1>9 DEF Create, Goto, call, SessionMatchesPc, Resuming
<1>10. CASE Save
  BY <1>0, <1>10 DEF Save, Goto, call, server, SessionMatchesPc, Resuming
<1>11. CASE Resume
  BY <1>0, <1>11 DEF Resume, Resumable, Usable, server, SessionMatchesPc, Resuming
<1>12. CASE Open
  BY <1>0, <1>12 DEF Open, server, SessionMatchesPc, Resuming
<1>13. CASE Send \/ SendBroken
  <2>1. /\ pc = "send" /\ pc' \in {"send", "broken"}
        /\ UNCHANGED <<session, options, expected, info, putETag>>
    BY <1>13 DEF Send, SendBroken, Goto, call
  <2>2. upload'.size = upload.size
    BY <1>13 DEF Send, SendBroken, Receive, IInv, TypeOK
  <2> QED
    BY <1>0, <2>1, <2>2 DEF SessionMatchesPc, Resuming
<1>14. CASE SendRefused
  BY <1>0, <1>14 DEF SendRefused, Goto, call, server, SessionMatchesPc, Resuming
<1>15. CASE SaveProgress
  BY <1>0, <1>1, <1>15 DEF SaveProgress, server, SessionMatchesPc, Resuming
<1>16. CASE Refresh
  BY <1>0, <1>1, <1>16 DEF Refresh, server, SessionMatchesPc, Resuming
<1>17. CASE Finish
  BY <1>1, <1>17 DEF Finish, Goto, SessionMatchesPc, Resuming
<1>18. CASE Edit
  BY <1>0, <1>18 DEF Edit, server, SessionMatchesPc, Resuming
<1>19. CASE Expire
  <2>1. upload'.size = upload.size /\ upload'.bytes = upload.bytes
    BY <1>19 DEF Expire, IInv, TypeOK
  <2> QED
    BY <1>0, <1>19, <2>1 DEF Expire, call, SessionMatchesPc, Resuming
<1>20. CASE OtherClient \/ UNCHANGED vars
  BY <1>0, <1>20 DEF OtherClient, vars, call, server, SessionMatchesPc, Resuming
<1> QED
  BY <1>2, <1>3, <1>4, <1>5, <1>6, <1>7, <1>8, <1>9, <1>10, <1>11, <1>12, <1>13, <1>14,
     <1>15, <1>16, <1>17, <1>18, <1>19, <1>20 DEF Next, Step

\* What the server holds for a session stays of the session's version.
LEMMA BelongsNext == IInv /\ [Next]_vars => SessionBelongsToSource'
<1> SUFFICES ASSUME IInv, [Next]_vars PROVE SessionBelongsToSource'
  OBVIOUS
<1>0. SessionBelongsToSource /\ session <= local /\ local \in Nat \ {0}
  BY DEF IInv, SourcesArePast, TypeOK, Versions
<1>1. UNCHANGED <<local, upload, session>> => SessionBelongsToSource'
  BY <1>0 DEF SessionBelongsToSource
<1>2. CASE PutAnswered \/ PutBroken \/ PutCut
  BY <1>1, <1>2, PutEffect
<1>3. CASE MoveAnswered \/ MoveBroken
  BY <1>1, <1>3, MoveEffect
<1>4. CASE Start \/ PutRefused \/ Verify \/ NotVerified \/ MoveRefused \/ Cleanup \/ Resume
             \/ Open \/ SendRefused \/ Refresh \/ Fail \/ OtherClient \/ UNCHANGED vars
  BY <1>1, <1>4 DEF Start, PutRefused, Verify, NotVerified, MoveRefused, Cleanup, Resume, Open,
     SendRefused, Refresh, Fail, OtherClient, vars, server
<1>5. CASE Discard \/ Finish
  BY <1>0, <1>5 DEF Discard, Finish, SessionBelongsToSource
<1>6. CASE Create
  BY <1>0, <1>6 DEF Create, SessionBelongsToSource, IInv, SessionMatchesPc
<1>7. CASE Save
  BY <1>7 DEF Save, server, SessionBelongsToSource, IInv, SessionMatchesPc
<1>8. CASE SaveProgress
  <2>1. session' = session
    BY <1>8 DEF SaveProgress, IInv, SessionMatchesPc, Resuming
  <2> QED
    BY <1>1, <1>8, <2>1 DEF SaveProgress, server
<1>9. CASE Send \/ SendBroken
  <2>1. pc = "send" /\ UNCHANGED <<local, session>>
    BY <1>9 DEF Send, SendBroken
  <2>2. CASE UNCHANGED upload
    BY <1>1, <2>1, <2>2
  <2>3. CASE Receive
    <3> SUFFICES ASSUME session = local, NEW i \in 1 .. Len(upload'.bytes)
                 PROVE  upload'.bytes[i] = local
      BY <2>1 DEF SessionBelongsToSource
    <3>1. opened = local
      BY <2>1 DEF IInv, SessionMatchesPc, SourcesArePast, Resuming, Streaming
    <3>2. upload.exists /\ upload'.bytes = Append(upload.bytes, opened)
      BY <2>3 DEF Receive, IInv, TypeOK
    <3>3. upload.bytes \in Seq(Versions) /\ opened \in Versions
      BY DEF IInv, TypeOK
    <3>4. \A k \in 1 .. Len(upload.bytes) : upload.bytes[k] = local
      BY <1>0, <3>2 DEF SessionBelongsToSource
    <3> QED
      BY <3>1, <3>2, <3>3, <3>4
  <2> QED
    BY <1>9, <2>2, <2>3 DEF Send, SendBroken
<1>10. CASE Edit
  BY <1>0, <1>10 DEF Edit, SessionBelongsToSource, IInv, TypeOK
<1>11. CASE Expire
  <2>1. upload'.bytes = upload.bytes /\ (upload'.exists => upload.exists)
    BY <1>11 DEF Expire, IInv, TypeOK
  <2> QED
    BY <1>0, <1>11, <2>1 DEF Expire, SessionBelongsToSource
<1> QED
  BY <1>2, <1>3, <1>4, <1>5, <1>6, <1>7, <1>8, <1>9, <1>10, <1>11 DEF Next, Step

\* A conditional call keeps what it relies on.
LEMMA GuardNext == IInv /\ [Next]_vars => GuardHolds'
<1> SUFFICES ASSUME IInv, [Next]_vars PROVE GuardHolds'
  OBVIOUS
<1>0. GuardHolds /\ installs \in Nat
  BY DEF IInv, TypeOK
<1>1. \A result : End(result) => GuardHolds'
  BY DEF End, GuardHolds
<1>2. CASE Start
  BY <1>2 DEF Start, UsesTUS, GuardHolds
<1>3. CASE PutAnswered \/ PutBroken \/ PutCut
  <2>1. CASE \E result : End(result)
    BY <1>1, <2>1
  <2>2. CASE ~\E result : End(result)
    <3>1. /\ UNCHANGED <<local, options, expected, info>>
          /\ pc = "put" /\ pc' \in {"put", "verify", "move"}
          /\ pc' = "move" => options.noClobber
          /\ pc' \in {"verify", "move"} => PutAnswered
      BY <1>3, <2>2, PutEffect
    <3>2. pc' \in {"verify", "move"} => Accepted
      BY <3>1 DEF PutAnswered
    <3>3. options.noClobber /\ expected # 0 => ~Accepted
      BY <1>0, <3>1 DEF GuardHolds, Accepted, Target, Missing
    <3>4. CASE UNCHANGED <<remote, temporary, installs, delivered>>
      BY <1>0, <3>1, <3>2, <3>3, <3>4 DEF GuardHolds
    <3>5. CASE Accepted /\ Store(Body) /\ options.noClobber
      <4>1. temporary'.bytes = Body /\ UNCHANGED <<remote, installs>>
        BY <3>5 DEF Store, history
      <4>2. info = local => Body = Whole(info)
        BY BodyType DEF IInv
      <4>3. temporary'.bytes = Whole(info) \/ info # local
        BY <4>1, <4>2
      <4>4. Whole(info)' = Whole(info)
        BY <3>1 DEF Whole
      <4> QED
        BY <1>0, <3>1, <3>3, <3>5, <4>1, <4>3, <4>4 DEF GuardHolds
    <3>6. CASE Accepted /\ Store(Body) /\ ~options.noClobber
      <4>1. remote'.etag = NewETag
        BY <3>6 DEF Store, Install
      <4>2. NewETag # expected
        BY FreshETag DEF IInv
      <4> QED
        BY <1>0, <3>1, <3>6, <4>1, <4>2 DEF GuardHolds
    <3> QED
      BY <1>3, <3>4, <3>5, <3>6, PutEffect
  <2> QED
    BY <2>1, <2>2
<1>4. CASE MoveAnswered \/ MoveBroken
  <2>1. CASE End("done")
    BY <1>1, <2>1
  <2>2. CASE ~End("done")
    <3>1. /\ pc = "move" /\ pc' \in {"move", "cleanup"}
          /\ UNCHANGED <<local, options, expected, info>>
          /\ \/ temporary' = Missing
             \/ UNCHANGED <<remote, temporary, installs>>
      BY <1>4, <2>2, MoveEffect
    <3>2. Whole(info)' = Whole(info)
      BY <3>1 DEF Whole
    <3> QED
      BY <1>0, <3>1, <3>2 DEF GuardHolds
  <2> QED
    BY <2>1, <2>2
<1>5. CASE PutRefused \/ NotVerified \/ Cleanup \/ Fail
  BY <1>1, <1>5 DEF PutRefused, NotVerified, Cleanup, Fail
<1>6. CASE Verify \/ MoveRefused
  <2>1. CASE \E result : End(result)
    BY <1>1, <2>1
  <2>2. CASE ~\E result : End(result)
    <3>1. /\ UNCHANGED <<local, remote, temporary, installs, options, expected, info>>
          /\ \/ pc = "verify" /\ options.noClobber /\ pc' = "move"
             \/ pc = "move" /\ pc' = "cleanup"
      BY <1>6, <2>2 DEF Verify, Uploaded, MoveRefused, Goto, call, server, history
    <3>2. Whole(info)' = Whole(info)
      BY <3>1 DEF Whole
    <3> QED
      BY <1>0, <3>1, <3>2 DEF GuardHolds
  <2> QED
    BY <2>1, <2>2
<1>7. CASE Discard \/ Resume \/ Create \/ Save \/ Open \/ Send \/ SendBroken \/ SendRefused
           \/ SaveProgress \/ Refresh \/ Finish
  <2>1. CASE \E result : End(result)
    BY <1>1, <2>1
  <2>2. CASE ~\E result : End(result)
    <3>1. UNCHANGED options /\ pc' \notin {"put", "move", "cleanup"}
          /\ pc \in {"load", "create", "save"} \cup Resuming
      BY <1>7, <2>2 DEF Discard, Resume, Create, Save, Open, Send, SendBroken, SendRefused,
         SaveProgress, Refresh, Finish, Goto, call, Resuming
    <3>2. ~options'.noClobber
      BY <3>1 DEF IInv, SessionMatchesPc
    <3> QED
      BY <3>1, <3>2 DEF GuardHolds
  <2> QED
    BY <2>1, <2>2
<1>8. CASE Edit
  <2>1. info # local'
    BY <1>8 DEF Edit, IInv, SourcesArePast, TypeOK, Versions
  <2> QED
    BY <1>0, <1>8, <2>1 DEF Edit, server, history, GuardHolds
<1>9. CASE OtherClient
  <2>1. remote'.etag # expected \/ expected = 0
    BY <1>9, FreshETag DEF OtherClient, Missing, IInv
  <2>2. UNCHANGED <<local, temporary, pc, options, expected, info, installs>>
    BY <1>9 DEF OtherClient, call, history
  <2>3. Whole(info)' = Whole(info)
    BY <2>2 DEF Whole
  <2> QED
    BY <1>0, <2>1, <2>2, <2>3 DEF GuardHolds
<1>10. CASE Expire \/ UNCHANGED vars
  <2>1. UNCHANGED <<local, remote, temporary, pc, options, expected, info, installs>>
    BY <1>10 DEF Expire, vars, call, server, history
  <2>2. Whole(info)' = Whole(info)
    BY <2>1 DEF Whole
  <2> QED
    BY <1>0, <2>1, <2>2 DEF GuardHolds
<1> QED
  BY <1>2, <1>3, <1>4, <1>5, <1>6, <1>7, <1>8, <1>9, <1>10 DEF Next, Step

\* The answer of a PUT names what was put.
LEMMA PutNext == IInv /\ [Next]_vars => PutHolds'
<1> SUFFICES ASSUME IInv, [Next]_vars, pc' = "verify", putETag' # 0, ~options'.noClobber,
                    remote'.etag = putETag', info' = local'
             PROVE  remote'.bytes = Whole(info')
  BY DEF PutHolds, Whole
<1>0. PutHolds
  BY DEF IInv
<1>1. ~\E result : End(result)
  BY DEF End
<1>2. CASE PutAnswered \/ PutBroken \/ PutCut
  <2>1. UNCHANGED <<local, info, options>> /\ PutAnswered
    BY <1>1, <1>2, PutEffect
  <2>2. remote'.bytes = Body
    BY <2>1 DEF PutAnswered, Store, Install
  <2>3. info = local => Body = Whole(info)
    BY BodyType DEF IInv
  <2> QED
    BY <2>1, <2>2, <2>3
<1>3. CASE MoveAnswered \/ MoveBroken
  BY <1>1, <1>3, MoveEffect
<1>4. CASE Finish
  BY <1>1, <1>4 DEF Finish, Goto, call, IInv, SessionMatchesPc, Resuming
<1>5. CASE Edit
  <2>1. info # local'
    BY <1>5 DEF Edit, IInv, SourcesArePast, TypeOK, Versions
  <2> QED
    BY <1>5, <2>1 DEF Edit
<1>6. CASE OtherClient
  <2>1. remote'.etag # putETag
    BY <1>6, FreshETag DEF OtherClient, Missing, IInv
  <2> QED
    BY <1>6, <2>1 DEF OtherClient, call
<1>7. CASE Expire \/ UNCHANGED vars
  <2>1. UNCHANGED <<local, remote, pc, options, info, putETag>>
    BY <1>7 DEF Expire, vars, call, server
  <2>2. Whole(info)' = Whole(info)
    BY <2>1 DEF Whole
  <2> QED
    BY <1>0, <2>1 DEF PutHolds
<1>8. Next => PutAnswered \/ PutBroken \/ PutCut \/ MoveAnswered \/ MoveBroken \/ Finish \/ Edit
              \/ OtherClient \/ Expire
  BY <1>1 DEF Next, Step, Start, PutRefused, Verify, Uploaded, NotVerified, MoveRefused, Cleanup,
     Discard, Resume, Create, Save, Open, Send, SendBroken, SendRefused, SaveProgress, Refresh,
     Fail, Goto
<1> QED
  BY <1>2, <1>3, <1>4, <1>5, <1>6, <1>7, <1>8

\* Every step preserves the inductive invariant.
LEMMA NextInv == IInv /\ [Next]_vars => IInv'
<1> SUFFICES ASSUME IInv, [Next]_vars PROVE IInv'
  OBVIOUS
<1>1. TypeOK'
  BY TypeNext DEF IInv
<1>2. SessionBelongsToSource' /\ SourcesArePast' /\ SessionMatchesPc'
  BY BelongsNext, SourcesNext, SessionNext
<1>3. GuardHolds' /\ PutHolds'
  BY GuardNext, PutNext
<1> QED
  BY <1>1, <1>2, <1>3 DEF IInv

\* The inductive invariant holds throughout.
THEOREM Invariance == Spec => []IInv
  BY InitInv, NextInv, PTL DEF Spec

\* The state stays well typed.
THEOREM TypeCorrect == Spec => []TypeOK
  BY Invariance, PTL DEF IInv

\* The session that uploadTUS keeps in the credential service never makes an
\* upload of a changed file go on where that of the old one stopped.
THEOREM SessionSafe == Spec => []SessionBelongsToSource
  BY Invariance, PTL DEF IInv

-----------------------------------------------------------------------------

\* The steps that write to the destination.
LEMMA InstallSteps ==
  ASSUME IInv, Next, Installing
  PROVE  \/ pc = "put" /\ ~options.noClobber /\ Accepted /\ Install(Body)
         \/ pc = "move" /\ Movable /\ Install(temporary.bytes)
         \/ pc = "send" /\ Receive /\ offset + 1 = upload.size
            /\ Install(Append(upload.bytes, opened))
<1>0. installs' # installs /\ installs' > installs
  BY DEF Installing, IInv, TypeOK
<1>1. CASE PutAnswered \/ PutBroken \/ PutCut
  <2>1. pc = "put" /\ Accepted /\ Store(Body)
    BY <1>0, <1>1, PutEffect
  <2> QED
    BY <1>0, <2>1 DEF Store, history
<1>2. CASE MoveAnswered \/ MoveBroken
  BY <1>0, <1>2, MoveEffect
<1>3. CASE Send \/ SendBroken
  BY <1>0, <1>3 DEF Send, SendBroken, Receive, history
<1>4. CASE Start
  BY <1>0, <1>4 DEF Start, IInv, TypeOK
<1>5. CASE UNCHANGED installs
  BY <1>0, <1>5
<1>6. PutAnswered \/ PutBroken \/ PutCut \/ MoveAnswered \/ MoveBroken \/ Send \/ SendBroken
      \/ Start \/ UNCHANGED installs
  BY DEF Next, Step, PutRefused, Verify, NotVerified, MoveRefused, Cleanup, Discard, Resume,
     Create, Save, Open, SendRefused, SaveProgress, Refresh, Finish, Fail, Edit, OtherClient,
     Expire, history
<1> QED
  BY <1>1, <1>2, <1>3, <1>4, <1>5, <1>6

\* What is installed while the file is not edited is the whole file.
LEMMA InstallsWhole ==
  ASSUME IInv, Next, Installing, info = local
  PROVE  delivered' = Whole(info)
<1>1. CASE Install(Body)
  BY <1>1, BodyType DEF Install, IInv
<1>2. CASE pc = "move" /\ Movable /\ Install(temporary.bytes)
  BY <1>2 DEF Install, Movable, IInv, GuardHolds
<1>3. CASE pc = "send" /\ Receive /\ offset + 1 = upload.size
           /\ Install(Append(upload.bytes, opened))
  <2>1. session = local /\ upload.size = Size[info] /\ opened = local
    BY <1>3 DEF IInv, SessionMatchesPc, SourcesArePast, Resuming, Streaming
  <2>2. upload.exists /\ Len(upload.bytes) + 1 = Size[info]
    BY <1>3, <2>1 DEF Receive
  <2>3. \A i \in 1 .. Len(upload.bytes) : upload.bytes[i] = info
    BY <2>1, <2>2 DEF IInv, SessionBelongsToSource
  <2>4. upload.bytes \in Seq(Versions) /\ opened \in Versions /\ opened = info
    BY <2>1 DEF IInv, TypeOK
  <2>5. Append(upload.bytes, opened) = Whole(info)
    BY <2>2, <2>3, <2>4 DEF Whole
  <2> QED
    BY <1>3, <2>5 DEF Install
<1> QED
  BY <1>1, <1>2, <1>3, InstallSteps

\* An upload never leaves a mixed or shortened file at the destination.
THEOREM NoMixture == Spec => InstalledWhole
<1>1. IInv /\ [Next]_vars => [Installing /\ info = local => delivered' = Whole(info)]_vars
  BY InstallsWhole
<1> QED
  BY <1>1, Invariance, PTL DEF Spec, InstalledWhole

\* A call that may not overwrite does not, and one that names a version
\* overwrites that version and this only once.
THEOREM NoClobber == Spec => GuardedInstall
<1>1. IInv /\ [Next]_vars =>
        [Installing =>
           /\ options.noClobber => remote = Missing
           /\ expected # 0 => remote.etag = expected
           /\ options.noClobber \/ expected # 0 => installs = 0]_vars
  <2> SUFFICES ASSUME IInv, Next, Installing
               PROVE  /\ options.noClobber => remote = Missing
                      /\ expected # 0 => remote.etag = expected
                      /\ options.noClobber \/ expected # 0 => installs = 0
    OBVIOUS
  <2>0. GuardHolds /\ SessionMatchesPc /\ installs \in Nat
    BY DEF IInv, TypeOK
  <2>1. CASE pc = "put" /\ ~options.noClobber /\ Accepted
    BY <2>0, <2>1 DEF GuardHolds, Accepted, Target
  <2>2. CASE pc = "move" /\ Movable
    BY <2>0, <2>2 DEF GuardHolds, Movable
  <2>3. CASE pc = "send"
    BY <2>0, <2>3 DEF SessionMatchesPc, Resuming
  <2> QED
    BY <2>1, <2>2, <2>3, InstallSteps
<1> QED
  BY <1>1, Invariance, PTL DEF Spec, GuardedInstall

\* A verified PUT that succeeds is what the server has at that moment.
THEOREM VerifiedPut == Spec => VerifiedIsCurrent
<1>1. IInv /\ [Next]_vars =>
        [Succeeding /\ options.verify /\ putETag # 0 /\ ~options.noClobber /\ info = local =>
           remote.bytes = Whole(info)]_vars
  <2> SUFFICES ASSUME IInv, Next, Succeeding, options.verify, putETag # 0, ~options.noClobber,
                      info = local
               PROVE  remote.bytes = Whole(info)
    OBVIOUS
  <2>1. ~Goto("cleanup") /\ ~Goto("verify") /\ ~End("failed") /\ outcome' = "done"
        /\ outcome' # outcome
    BY DEF Succeeding, Goto, End
  <2>2. CASE Verify
    BY <2>2 DEF Verify, Verified, Target, IInv, PutHolds
  <2>3. ~MoveAnswered
    BY DEF MoveAnswered, IInv, GuardHolds
  <2>4. Verify \/ MoveAnswered
    BY <2>1 DEF Next, Step, Start, PutAnswered, PutBroken, PutCut, PutUnanswered, Again,
       PutRefused, NotVerified, MoveRefused, MoveBroken, Cleanup, Discard, Resume, Create, Save,
       Open, Send, SendBroken, SendRefused, SaveProgress, Refresh, Finish, Fail, Edit,
       OtherClient, Expire, Goto, call
  <2> QED
    BY <2>2, <2>3, <2>4
<1> QED
  BY <1>1, Invariance, PTL DEF Spec, VerifiedIsCurrent
-----------------------------------------------------------------------------

Resumables == {"load", "create", "save"} \cup Resuming

\* No call goes on with less than it has sent, and none has a temporary file
\* that does not ask for one.
TransferAdvances ==
  /\ pc # "idle" => session <= info
  /\ pc # "idle" /\ ~options.noClobber => temporary = Missing
  /\ pc \in Resumables => Size[info] > 0
  /\ pc \in {"load", "create", "save"} => offset = 0
  /\ pc \in Resuming => offset <= Len(upload.bytes)
  /\ Len(upload.bytes) <= upload.size

\* A session that is complete has been installed, and so has what is verified
\* where it is to stay.
CompleteIsDelivered ==
  /\ session = local /\ Len(upload.bytes) = upload.size => delivered = Whole(local)
  /\ pc = "verify" /\ ~options.noClobber =>
       /\ info = local => delivered = Whole(info)
       /\ installs > 0 \/ Len(upload.bytes) = Size[info]

DeliverInv == IInv /\ TransferAdvances /\ CompleteIsDelivered

\* The first states have nothing under way.
LEMMA DeliverInit == Init => DeliverInv
<1> SUFFICES ASSUME Init PROVE DeliverInv
  OBVIOUS
<1>1. TransferAdvances
  BY DEF Init, TransferAdvances, Resumables, Resuming, NoUpload
<1>2. CompleteIsDelivered
  BY DEF Init, CompleteIsDelivered, NoUpload
<1> QED
  BY <1>1, <1>2, InitInv DEF DeliverInv

\* Offsets and sizes of the transfer in progress.
LEMMA SizesAre ==
  ASSUME IInv
  PROVE  /\ Size[info] \in Nat /\ upload.bytes \in Seq(Versions) /\ Len(upload.bytes) \in Nat
         /\ upload.size \in Nat /\ offset \in Nat /\ session \in Nat /\ info \in Nat
         /\ local \in Nat \ {0}
  BY UploadAssumption DEF IInv, TypeOK, Versions

\* A byte that the server takes follows all it has.
LEMMA ReceiveAdvances ==
  ASSUME IInv, Receive
  PROVE  /\ upload'.size = upload.size
         /\ upload'.bytes = Append(upload.bytes, opened)
         /\ Len(upload.bytes) = offset /\ Len(upload'.bytes) = offset + 1
<1>1. upload'.size = upload.size /\ upload'.bytes = Append(upload.bytes, opened)
  BY DEF Receive, IInv, TypeOK
<1>2. upload.bytes \in Seq(Versions) /\ opened \in Versions /\ Len(upload.bytes) = offset
  BY DEF Receive, IInv, TypeOK
<1> QED
  BY <1>1, <1>2

\* Every step keeps what a call has sent within what the server has.
LEMMA AdvanceNext == IInv /\ TransferAdvances /\ [Next]_vars => TransferAdvances'
<1> SUFFICES ASSUME IInv, TransferAdvances, [Next]_vars PROVE TransferAdvances'
  OBVIOUS
<1>0. /\ TransferAdvances /\ SourcesArePast
      /\ Size[info] \in Nat /\ Len(upload.bytes) \in Nat /\ upload.size \in Nat /\ offset \in Nat
      /\ session \in Nat /\ info \in Nat
  BY SizesAre DEF IInv
<1>1. ASSUME NEW result, End(result), UNCHANGED upload
      PROVE  TransferAdvances'
  BY <1>0, <1>1 DEF End, TransferAdvances, Resumables, Resuming
<1>2. ASSUME UNCHANGED <<session, info, options, temporary, offset, upload>>,
             pc # "idle", pc' \notin Resumables \/ pc' = pc \/ (pc \in Resuming /\ pc' \in Resuming)
      PROVE  TransferAdvances'
  BY <1>0, <1>2 DEF TransferAdvances, Resumables, Resuming
<1>3. CASE Start
  BY <1>0, <1>3 DEF Start, UsesTUS, TransferAdvances, SourcesArePast, Resumables, Resuming
<1>4. CASE PutAnswered \/ PutBroken \/ PutCut
  <2>1. CASE \E result : End(result)
    BY <1>1, <1>4, <2>1, PutEffect
  <2>2. CASE ~\E result : End(result)
    <3>1. /\ pc = "put" /\ UNCHANGED <<upload, session, options, info, offset>>
          /\ pc' \in {"put", "verify", "move"}
      BY <1>4, <2>2, PutEffect
    <3>2. ~options.noClobber => UNCHANGED temporary
      BY <1>4, PutEffect DEF Store
    <3> QED
      BY <1>0, <3>1, <3>2 DEF TransferAdvances, Resumables, Resuming
  <2> QED
    BY <2>1, <2>2
<1>5. CASE MoveAnswered \/ MoveBroken
  <2>1. CASE End("done")
    BY <1>1, <1>5, <2>1, MoveEffect
  <2>2. CASE ~End("done")
    <3>1. /\ pc = "move" /\ UNCHANGED <<upload, session, options, info, offset>>
          /\ pc' \in {"move", "cleanup"}
          /\ temporary' = Missing \/ UNCHANGED temporary
      BY <1>5, <2>2, MoveEffect
    <3> QED
      BY <1>0, <3>1 DEF TransferAdvances, Resumables, Resuming
  <2> QED
    BY <2>1, <2>2
<1>6. CASE PutRefused \/ NotVerified \/ Cleanup \/ Fail
  BY <1>1, <1>6 DEF PutRefused, NotVerified, Cleanup, Fail, server
<1>7. CASE Verify \/ MoveRefused
  <2>1. CASE \E result : End(result)
    BY <1>1, <1>7, <2>1 DEF Verify, MoveRefused, server
  <2>2. CASE ~\E result : End(result)
    BY <1>2, <1>7, <2>2 DEF Verify, Uploaded, MoveRefused, Goto, call, server, Resumables, Resuming
  <2> QED
    BY <2>1, <2>2
<1>8. CASE Discard
  BY <1>0, <1>8 DEF Discard, Goto, call, server, TransferAdvances, Resumables, Resuming
<1>9. CASE Resume
  BY <1>0, <1>9 DEF Resume, server, TransferAdvances, Resumables, Resuming
<1>10. CASE Create
  BY <1>0, <1>10 DEF Create, Goto, call, TransferAdvances, Resumables, Resuming
<1>11. CASE Save
  BY <1>0, <1>11 DEF Save, Goto, call, server, TransferAdvances, Resumables, Resuming
<1>12. CASE Open \/ SendRefused
  BY <1>2, <1>12 DEF Open, SendRefused, Goto, call, server, Resuming
<1>13. CASE Send \/ SendBroken
  <2>1. /\ pc = "send" /\ HasMore /\ UNCHANGED <<session, options, info, temporary>>
        /\ pc' \in {"send", "broken"}
    BY <1>13 DEF Send, SendBroken, Goto, call
  <2>2. CASE UNCHANGED upload
    <3>1. ~Send
      BY <2>2, ReceiveAdvances, <1>0 DEF Send
    <3> QED
      BY <1>2, <1>13, <2>1, <2>2, <3>1 DEF SendBroken, Goto, call, Resuming
  <2>3. CASE Receive
    <3>1. upload.size = Size[info]
      BY <2>1 DEF IInv, SessionMatchesPc, Resuming
    <3>2. offset' \in {offset, offset + 1}
      BY <1>13 DEF Send, SendBroken, Goto, call
    <3>3. /\ upload'.size = upload.size
          /\ Len(upload.bytes) = offset /\ Len(upload'.bytes) = offset + 1
      BY <2>3, ReceiveAdvances
    <3>4. offset < Size[info]
      BY <2>1 DEF HasMore
    <3>5. offset' <= Len(upload'.bytes) /\ Len(upload'.bytes) <= upload'.size
      BY <1>0, <3>1, <3>2, <3>3, <3>4
    <3> QED
      BY <1>0, <2>1, <3>5 DEF TransferAdvances, Resumables, Resuming
  <2> QED
    BY <1>13, <2>2, <2>3 DEF Send, SendBroken
<1>14. CASE SaveProgress
  <2>1. session' = session /\ UNCHANGED upload /\ UNCHANGED temporary
    BY <1>14 DEF SaveProgress, server, IInv, SessionMatchesPc, Resuming
  <2>2. CASE End("failed")
    BY <1>1, <2>1, <2>2
  <2>3. CASE ~End("failed")
    BY <1>2, <1>14, <2>1, <2>3 DEF SaveProgress, Resuming
  <2> QED
    BY <2>2, <2>3
<1>15. CASE Refresh
  <2>1. CASE upload.exists
    BY <1>0, <1>15, <2>1 DEF Refresh, server, TransferAdvances, Resumables, Resuming
  <2>2. CASE ~upload.exists
    BY <1>1, <1>15, <2>2 DEF Refresh, server
  <2> QED
    BY <2>1, <2>2
<1>16. CASE Finish
  <2>1. CASE End("done")
    BY <1>1, <1>16, <2>1 DEF Finish, server
  <2>2. CASE Goto("verify")
    BY <1>0, <1>16, <2>2 DEF Finish, Goto, call, server, TransferAdvances, Resumables, Resuming
  <2> QED
    BY <1>16, <2>1, <2>2 DEF Finish
<1>17. CASE Edit \/ OtherClient \/ UNCHANGED vars
  BY <1>0, <1>17 DEF Edit, OtherClient, vars, call, server, TransferAdvances, Resumables, Resuming
<1>18. CASE Expire
  <2>1. upload'.bytes = upload.bytes /\ upload'.size = upload.size
    BY <1>18 DEF Expire, IInv, TypeOK
  <2> QED
    BY <1>0, <1>18, <2>1 DEF Expire, call, TransferAdvances, Resumables, Resuming
<1> QED
  BY <1>3, <1>4, <1>5, <1>6, <1>7, <1>8, <1>9, <1>10, <1>11, <1>12, <1>13, <1>14, <1>15, <1>16,
     <1>17, <1>18 DEF Next, Step

\* A step that installs nothing leaves what was installed last.
LEMMA DeliveredKept ==
  ASSUME IInv, [Next]_vars
  PROVE  delivered' = delivered \/ Installing
<1>0. installs \in Nat
  BY DEF IInv, TypeOK
<1>1. \A bytes : Install(bytes) => Installing
  BY <1>0 DEF Install, Installing
<1>2. CASE PutAnswered \/ PutBroken \/ PutCut
  BY <1>1, <1>2, PutEffect DEF Store, history
<1>3. CASE MoveAnswered \/ MoveBroken
  BY <1>1, <1>3, MoveEffect
<1>4. CASE Send \/ SendBroken
  BY <1>1, <1>4 DEF Send, SendBroken, Receive, history
<1>5. PutAnswered \/ PutBroken \/ PutCut \/ MoveAnswered \/ MoveBroken \/ Send \/ SendBroken
      \/ UNCHANGED delivered
  BY DEF Next, Step, Start, PutRefused, Verify, NotVerified, MoveRefused, Cleanup, Discard, Resume,
     Create, Save, Open, SendRefused, SaveProgress, Refresh, Finish, Fail, Edit, OtherClient,
     Expire, history, vars
<1> QED
  BY <1>2, <1>3, <1>4, <1>5

\* A step that installs is one of a call and leaves the file and the session alone.
LEMMA InstallKeeps ==
  ASSUME IInv, Next, Installing
  PROVE  pc # "idle" /\ UNCHANGED <<local, session>>
<1>0. installs' # installs
  BY DEF Installing, IInv, TypeOK
<1>1. CASE PutAnswered \/ PutBroken \/ PutCut
  BY <1>1, PutEffect
<1>2. CASE MoveAnswered \/ MoveBroken
  BY <1>2, MoveEffect
<1>3. CASE Send \/ SendBroken
  BY <1>3 DEF Send, SendBroken
<1>4. CASE Start
  BY <1>4 DEF Start, Installing, IInv, TypeOK
<1>5. PutAnswered \/ PutBroken \/ PutCut \/ MoveAnswered \/ MoveBroken \/ Send \/ SendBroken
      \/ Start
  BY <1>0 DEF Next, Step, PutRefused, Verify, NotVerified, MoveRefused, Cleanup, Discard, Resume,
     Create, Save, Open, SendRefused, SaveProgress, Refresh, Finish, Fail, Edit, OtherClient,
     Expire, history
<1> QED
  BY <1>1, <1>2, <1>3, <1>4, <1>5

\* A complete session stays delivered: what is installed after it is the same file.
LEMMA SessionDelivered ==
  ASSUME DeliverInv, [Next]_vars, session' = local', Len(upload'.bytes) = upload'.size
  PROVE  delivered' = Whole(local)'
<1>0. /\ IInv /\ TransferAdvances /\ CompleteIsDelivered /\ SourcesArePast /\ SessionMatchesPc
      /\ Size[info] \in Nat /\ Len(upload.bytes) \in Nat /\ upload.size \in Nat /\ offset \in Nat
      /\ session \in Nat /\ info \in Nat /\ local \in Nat \ {0}
  BY SizesAre DEF DeliverInv, IInv
<1>1. CASE Installing
  <2>1. Next
    BY <1>0, <1>1 DEF Installing, IInv, TypeOK, vars, history
  <2>2. pc # "idle" /\ UNCHANGED <<local, session>>
    BY <1>0, <1>1, <2>1, InstallKeeps
  <2>3. info = local
    BY <1>0, <2>2 DEF TransferAdvances, SourcesArePast
  <2>4. delivered' = Whole(info)
    BY <1>0, <1>1, <2>1, <2>3, InstallsWhole
  <2> QED
    BY <2>2, <2>3, <2>4 DEF Whole
<1>2. CASE ~Installing
  <2>1. delivered' = delivered
    BY <1>0, <1>2, DeliveredKept
  <2>2. ASSUME UNCHANGED <<local, session>>,
               upload'.bytes = upload.bytes, upload'.size = upload.size
        PROVE  delivered' = Whole(local)'
    BY <1>0, <2>1, <2>2 DEF CompleteIsDelivered, Whole
  <2>3. CASE PutAnswered \/ PutBroken \/ PutCut
    BY <1>0, <2>2, <2>3, PutEffect
  <2>4. CASE MoveAnswered \/ MoveBroken
    BY <1>0, <2>2, <2>4, MoveEffect
  <2>5. CASE Start \/ PutRefused \/ Verify \/ NotVerified \/ MoveRefused \/ Cleanup \/ Resume
             \/ Open \/ SendRefused \/ Refresh \/ Fail \/ OtherClient \/ UNCHANGED vars
    BY <2>2, <2>5 DEF Start, PutRefused, Verify, NotVerified, MoveRefused, Cleanup, Resume, Open,
       SendRefused, Refresh, Fail, OtherClient, vars, server
  <2>6. CASE Discard \/ Finish
    BY <1>0, <2>6 DEF Discard, Finish
  <2>7. CASE Create
    BY <1>0, <2>7 DEF Create, SessionMatchesPc
  <2>8. CASE Save
    <3>1. upload'.bytes = <<>> /\ upload'.size = Size[info] /\ Size[info] > 0
      BY <1>0, <2>8 DEF Save, server, SessionMatchesPc, TransferAdvances, Resumables
    <3> QED
      BY <1>0, <3>1
  <2>9. CASE SaveProgress
    <3>1. session' = session
      BY <1>0, <2>9 DEF SaveProgress, SessionMatchesPc, Resuming
    <3> QED
      BY <2>2, <2>9, <3>1 DEF SaveProgress, server
  <2>10. CASE Send \/ SendBroken
    <3>1. UNCHANGED <<local, session>>
      BY <2>10 DEF Send, SendBroken
    <3>2. CASE UNCHANGED upload
      BY <2>2, <3>1, <3>2
    <3>3. CASE Receive
      <4>1. /\ upload'.size = upload.size
            /\ Len(upload'.bytes) = offset + 1
        BY <1>0, <3>3, ReceiveAdvances
      <4>2. offset + 1 # upload.size
        BY <1>0, <1>2, <3>3 DEF Receive, Install, Installing, IInv, TypeOK
      <4> QED
        BY <4>1, <4>2
    <3> QED
      BY <2>10, <3>2, <3>3 DEF Send, SendBroken
  <2>11. CASE Edit
    BY <1>0, <2>11 DEF Edit, SourcesArePast
  <2>12. CASE Expire
    <3>1. upload'.bytes = upload.bytes /\ upload'.size = upload.size
      BY <1>0, <2>12 DEF Expire, IInv, TypeOK
    <3> QED
      BY <2>2, <2>12, <3>1 DEF Expire
  <2> QED
    BY <2>3, <2>4, <2>5, <2>6, <2>7, <2>8, <2>9, <2>10, <2>11, <2>12 DEF Next, Step
<1> QED
  BY <1>1, <1>2

\* A resumable upload has been delivered when nothing is left to send.
LEMMA AllSent ==
  ASSUME DeliverInv, pc = "send", offset = Size[info]
  PROVE  Len(upload.bytes) = Size[info] /\ (info = local => delivered = Whole(info))
<1>1. session = info /\ upload.size = Size[info]
  BY DEF DeliverInv, IInv, SessionMatchesPc, Resuming
<1>2. offset <= Len(upload.bytes) /\ Len(upload.bytes) <= upload.size
  BY DEF DeliverInv, TransferAdvances, Resuming
<1>3. Len(upload.bytes) = Size[info]
  BY <1>1, <1>2, SizesAre DEF DeliverInv
<1> QED
  BY <1>1, <1>3 DEF DeliverInv, CompleteIsDelivered

\* What is verified where it is to stay has been delivered.
LEMMA VerifyDelivered ==
  ASSUME DeliverInv, [Next]_vars, pc' = "verify", ~options'.noClobber
  PROVE  /\ info' = local' => delivered' = Whole(info)'
         /\ installs' > 0 \/ Len(upload'.bytes) = Size[info']
<1>0. /\ IInv /\ CompleteIsDelivered /\ SourcesArePast
      /\ installs \in Nat /\ info \in Nat /\ local \in Nat
  BY SizesAre DEF DeliverInv, IInv, TypeOK
<1>1. ~\E result : End(result)
  BY DEF End
<1>2. CASE PutAnswered \/ PutBroken \/ PutCut
  <2>1. UNCHANGED <<local, info, options>> /\ PutAnswered
    BY <1>0, <1>1, <1>2, PutEffect
  <2>2. delivered' = Body /\ installs' = installs + 1
    BY <2>1 DEF PutAnswered, Store, Install
  <2>3. info = local => Body = Whole(info)
    BY <1>0, BodyType DEF IInv
  <2> QED
    BY <1>0, <2>1, <2>2, <2>3 DEF Whole
<1>3. CASE MoveAnswered \/ MoveBroken
  BY <1>0, <1>1, <1>3, MoveEffect
<1>4. CASE Finish
  <2>1. UNCHANGED <<local, info, delivered, upload>> /\ pc = "send" /\ offset = Size[info]
    BY <1>1, <1>4 DEF Finish, Goto, call, history, server
  <2> QED
    BY <2>1, AllSent DEF Whole
<1>5. CASE Edit
  <2>1. info # local'
    BY <1>0, <1>5 DEF Edit, SourcesArePast
  <2> QED
    BY <1>0, <1>5, <2>1 DEF Edit, server, history, CompleteIsDelivered
<1>6. CASE OtherClient \/ Expire \/ UNCHANGED vars
  <2>1. UNCHANGED <<local, pc, options, info, delivered, installs>>
    BY <1>6 DEF OtherClient, Expire, vars, call, history
  <2>2. upload'.bytes = upload.bytes
    BY <1>0, <1>6 DEF OtherClient, Expire, vars, server, IInv, TypeOK
  <2> QED
    BY <1>0, <2>1, <2>2 DEF CompleteIsDelivered, Whole
<1>8. Next => PutAnswered \/ PutBroken \/ PutCut \/ MoveAnswered \/ MoveBroken \/ Finish \/ Edit
              \/ OtherClient \/ Expire
  BY <1>1 DEF Next, Step, Start, PutRefused, Verify, Uploaded, NotVerified, MoveRefused, Cleanup,
     Discard, Resume, Create, Save, Open, Send, SendBroken, SendRefused, SaveProgress, Refresh,
     Fail, Goto
<1> QED
  BY <1>2, <1>3, <1>4, <1>5, <1>6, <1>8

\* Every step preserves what is delivered, with what that depends on.
LEMMA DeliverNext == DeliverInv /\ [Next]_vars => DeliverInv'
<1> SUFFICES ASSUME DeliverInv, [Next]_vars PROVE DeliverInv'
  OBVIOUS
<1>1. IInv' /\ TransferAdvances'
  BY NextInv, AdvanceNext DEF DeliverInv
<1>2. CompleteIsDelivered'
  BY SessionDelivered, VerifyDelivered DEF CompleteIsDelivered
<1> QED
  BY <1>1, <1>2 DEF DeliverInv

\* Whatever calls and others do, a complete session has been installed.
THEOREM Deliveries == Spec => []DeliverInv
  BY DeliverInit, DeliverNext, PTL DEF Spec

\* The steps with which a call succeeds.
LEMMA SuccessSteps ==
  ASSUME Next, Succeeding
  PROVE  /\ UNCHANGED <<local, upload>>
         /\ \/ pc = "put" /\ PutAnswered /\ ~options.noClobber
            \/ pc = "verify" /\ Verify /\ ~options.noClobber /\ UNCHANGED <<installs, delivered>>
            \/ pc = "move" /\ MoveAnswered
            \/ pc = "send" /\ Finish /\ UNCHANGED <<installs, delivered>>
<1>1. ~Goto("cleanup") /\ ~Goto("verify") /\ ~Goto("create") /\ ~Goto("save") /\ ~Goto("open")
      /\ ~Goto("broken") /\ ~Goto("rejected") /\ ~End("failed") /\ outcome' # outcome
      /\ outcome' = "done"
  BY DEF Succeeding, Goto, End
<1>2. PutAnswered \/ Verify \/ MoveAnswered \/ Finish
  BY <1>1 DEF Next, Step, Start, PutBroken, PutCut, PutUnanswered, Again,
     PutRefused, NotVerified, MoveRefused, MoveBroken, Cleanup, Discard, Resume, Create, Save,
     Open, Send, SendBroken, SendRefused, SaveProgress, Refresh, Fail, Edit,
     OtherClient, Expire, Goto, call
<1> QED
  BY <1>1, <1>2 DEF PutAnswered, Uploaded, Verify, MoveAnswered, Finish, server, history

\* A call says it succeeded only if the file as it is was installed, by this call
\* or by one before it that sent the last byte of a resumable upload and was
\* interrupted; even though others may have written and sessions may have expired.
THEOREM DeliveredOnSuccess == Spec => SuccessDelivers
<1>1. DeliverInv /\ [Next]_vars =>
        [Succeeding /\ info = local =>
           /\ delivered = Whole(info) \/ delivered' = Whole(info)
           /\ installs' = 0 => pc \in {"send", "verify"} /\ Len(upload.bytes) = Size[info]]_vars
  <2> SUFFICES ASSUME DeliverInv, Next, Succeeding, info = local
               PROVE  /\ delivered = Whole(info) \/ delivered' = Whole(info)
                      /\ installs' = 0 => pc \in {"send", "verify"} /\ Len(upload.bytes) = Size[info]
    OBVIOUS
  <2>0. IInv /\ CompleteIsDelivered /\ GuardHolds /\ installs \in Nat
    BY DEF DeliverInv, IInv, TypeOK
  <2>1. CASE pc = "put" /\ PutAnswered /\ ~options.noClobber
    <3>1. Install(Body) /\ Body = Whole(info)
      BY <2>0, <2>1, BodyType DEF PutAnswered, Store, IInv
    <3> QED
      BY <2>0, <3>1 DEF Install
  <2>2. CASE pc = "verify" /\ ~options.noClobber /\ UNCHANGED <<installs, delivered>>
    BY <2>0, <2>2 DEF CompleteIsDelivered
  <2>3. CASE pc = "move" /\ MoveAnswered
    <3>1. Install(temporary.bytes) /\ temporary.bytes = Whole(info)
      BY <2>0, <2>3 DEF MoveAnswered, Movable, GuardHolds
    <3> QED
      BY <2>0, <3>1 DEF Install
  <2>4. CASE pc = "send" /\ Finish
    BY <2>4, AllSent DEF Finish
  <2> QED
    BY <2>1, <2>2, <2>3, <2>4, SuccessSteps
<1> QED
  BY <1>1, Deliveries, PTL DEF Spec, SuccessDelivers

\* The temporary file of a call that may not overwrite is gone when it ends, but
\* after a fault in its last step and after a PUT that failed.
THEOREM NoTemporaryLeft == Spec => TemporariesRemoved
<1>1. DeliverInv /\ [Next]_vars =>
        [pc # "idle" /\ pc' = "idle" /\ temporary' # Missing =>
           faults' # faults \/ pc \in {"put", "verify"}]_vars
  <2> SUFFICES ASSUME DeliverInv, Next, pc # "idle", pc' = "idle",
                      pc \notin {"put", "verify"}, faults' = faults
               PROVE  temporary' = Missing
    OBVIOUS
  <2>1. ~Lost
    BY DEF Lost, DeliverInv, IInv, TypeOK
  <2>2. MoveAnswered \/ Cleanup \/ SaveProgress \/ Refresh \/ Finish
    BY <2>1 DEF Next, Step, Start, PutAnswered, PutBroken, PutCut, PutUnanswered, PutRefused, Verify,
       NotVerified, MoveRefused, MoveBroken, Discard, Resume, Create, Save, Open, Send, SendBroken,
       SendRefused, Fail, Edit, OtherClient, Expire, Goto, call
  <2>3. CASE MoveAnswered \/ Cleanup
    BY <2>3 DEF MoveAnswered, Cleanup
  <2>4. CASE SaveProgress \/ Refresh \/ Finish
    <3>1. UNCHANGED temporary /\ ~options.noClobber
      BY <2>4 DEF SaveProgress, Refresh, Finish, server, DeliverInv, IInv, SessionMatchesPc, Resuming
    <3> QED
      BY <3>1 DEF DeliverInv, TransferAdvances
  <2> QED
    BY <2>2, <2>3, <2>4
<1> QED
  BY <1>1, Deliveries, PTL DEF Spec, TemporariesRemoved
=============================================================================
