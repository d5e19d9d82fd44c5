------------------------------ MODULE MCEvents ------------------------------
(* An instance of Events: three types of events and every kind of request. *)
EXTENDS Events

MCTypes == {"share-created", "file-locked", "backchannel-logout"}
MCRequests ==
  [mode : {"jsonl"}, maxWait : {-1, 0, 1}, once : BOOLEAN,
   types : {{}, {"share-created"}}]
  \cup [mode : {"json"}, maxWait : {0}, once : BOOLEAN, types : {{}}]
  \cup [mode : {"human"}, maxWait : {0}, once : {FALSE}, types : {{""}, {"file-locked"}}]
=============================================================================
