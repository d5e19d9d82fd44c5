------------------------------ MODULE Requests ------------------------------
(***************************************************************************)
(* httpapi.Client.Do and the commands that are a series of its requests.   *)
(* Every request, a POST too, is repeated after a transport error, a 429   *)
(* or a 5xx until Retries are used up; a long Retry-After or a cancelled   *)
(* context ends the command earlier, and so does an answer that refuses.   *)
(*                                                                         *)
(* A command is the sequence of steps it has still to make; a step is one  *)
(* request, or a decision without one.  A fault is a request or an answer  *)
(* that is lost, a refusal out of the blue, or the death of the process.   *)
(* A request whose answer is lost may have been carried out.  How long one *)
(* waits between two attempts is left out.                                 *)
(***************************************************************************)
EXTENDS Naturals, Sequences

CONSTANTS
  Retries,         \* config.Retries
  MaxFaults,       \* bound on faults
  MaxRuns          \* bound on how often the user starts the command

ASSUME RequestsAssumption == Retries \in Nat /\ MaxFaults \in Nat /\ MaxRuns \in Nat

VARIABLES
  call,            \* the command and its options; the user may repeat it
  todo,            \* the steps it has still to make, << >> when none runs
  attempt,         \* of the first of them
  seen,            \* what the answers said, by step
  outcome,         \* how the command ended; "none" before and while it runs
  carried,         \* history: the changing steps the server carried out
  unsure,          \* history: one of them was not answered
  faults, runs     \* used-up bounds

control == <<call, todo, attempt, seen, outcome, carried, unsure, faults, runs>>

RequestsInit ==
  /\ todo = <<>> /\ attempt = 0 /\ seen = <<>> /\ outcome = "none"
  /\ carried = <<>> /\ unsure = FALSE
  /\ faults = 0 /\ runs = 0

At(step) == todo # <<>> /\ Head(todo) = step

Learn(step, answer) ==
  seen' = [s \in DOMAIN seen \cup {step} |-> IF s = step THEN answer ELSE seen[s]]

\* The next step; a step may call for more, which come first.
Continue(more) ==
  /\ todo' = more \o Tail(todo) /\ attempt' = 0
  /\ outcome' = IF Len(todo) = 1 /\ more = <<>> THEN "done" ELSE outcome
  /\ UNCHANGED <<call, runs>>

Proceed == Continue(<<>>)

\* The command is done, whatever it had still to do.
Finish ==
  /\ todo' = <<>> /\ attempt' = 0 /\ outcome' = "done"
  /\ UNCHANGED <<call, seen, carried, unsure, faults, runs>>

Fail(error) ==
  /\ todo' = <<>> /\ attempt' = 0 /\ outcome' = error
  /\ UNCHANGED <<call, seen, runs>>

Fault == faults < MaxFaults /\ faults' = faults + 1

\* No usable answer: the next attempt, or the error that ends the command.
Again(error) ==
  /\ Fault
  /\ \/ /\ attempt < Retries /\ attempt' = attempt + 1
        /\ UNCHANGED <<call, todo, seen, outcome, runs>>
     \/ Fail(error)

-----------------------------------------------------------------------------
(* One attempt of a request.  able: the server does what is asked.  The    *)
(* caller says what becomes of the server: effect, or nothing.             *)

Answered(step, answer, more) ==
  /\ Learn(step, answer)
  /\ Continue(more)
  /\ UNCHANGED <<unsure, faults>>

Refused(error) == Fail(error) /\ UNCHANGED <<carried, unsure, faults>>

\* A request that only reads, and what it calls for.
AskThen(step, able, answer, more, error) ==
  /\ At(step)
  /\ \/ able /\ Answered(step, answer, more) /\ UNCHANGED carried
     \/ ~able /\ Refused(error)
     \/ Again(error) /\ UNCHANGED <<carried, unsure>>

Ask(step, able, answer, error) == AskThen(step, able, answer, <<>>, error)

\* A request that changes something.
Change(step, able, effect, nothing, answer, error) ==
  /\ At(step)
  /\ \/ able /\ effect /\ carried' = Append(carried, step) /\ Answered(step, answer, <<>>)
     \/ able /\ effect /\ carried' = Append(carried, step) /\ unsure' = TRUE /\ Again(error)
     \/ ~able /\ nothing /\ Refused(error)
     \/ nothing /\ Again(error) /\ UNCHANGED <<carried, unsure>>

\* A decision the command makes by itself.
Decide(step, good, error) ==
  /\ At(step)
  /\ IF good
     THEN Proceed /\ UNCHANGED <<seen, carried, unsure, faults>>
     ELSE Refused(error)

-----------------------------------------------------------------------------

\* The user starts the command, or starts it again.
Run(script) ==
  /\ todo = <<>> /\ runs < MaxRuns /\ runs' = runs + 1
  /\ todo' = script /\ attempt' = 0 /\ seen' = <<>>
  /\ outcome' = IF script = <<>> THEN "done" ELSE "none"
  /\ carried' = <<>> /\ unsure' = FALSE
  /\ UNCHANGED <<call, faults>>

\* The process dies; the request it has sent may still be carried out.
Die ==
  /\ todo # <<>> /\ Fault
  /\ todo' = <<>> /\ attempt' = 0 /\ outcome' = "died"
  /\ UNCHANGED <<call, seen, carried, unsure, runs>>
=============================================================================
