---------------------------- MODULE AtomicFetch ----------------------------
(***************************************************************************)
(* What a download promises: at one instant the local file becomes one     *)
(* whole version of the remote file, and a version that the server had at  *)
(* that time or after the command started, never an older or a mixed one.  *)
(***************************************************************************)
EXTENDS Naturals

CONSTANTS
  Whole(_)     \* the bytes of a version

VARIABLES
  version,     \* the version the server has
  started,     \* the version it had when the command started
  target       \* the local file

Begin == started' = version /\ UNCHANGED <<version, target>>

Replace == version' = version + 1 /\ UNCHANGED <<started, target>>

Deliver ==
  /\ \E v \in started .. version : target' = Whole(v)
  /\ UNCHANGED <<version, started>>

Init == version = 1 /\ started = 1 /\ target = <<>>
Next == Begin \/ Replace \/ Deliver
Spec == Init /\ [][Next]_<<version, started, target>>
=============================================================================
