------------------------------- MODULE Events -------------------------------
(***************************************************************************)
(* `ocis event watch` (internal/app/event_service.go): it reads a stream   *)
(* of server-sent events, reconnects while it may, and ends with the first *)
(* matching event (--once), at its deadline (--max-wait), when the server  *)
(* ends the session or when it is interrupted.  The server publishes       *)
(* events whether or not anybody listens, replays none, and may break a    *)
(* connection between any two lines.                                       *)
(***************************************************************************)
EXTENDS Integers, Sequences

CONSTANTS
  Types,       \* the types of events, backchannel-logout among them
  Requests,    \* the requests: [mode, maxWait, once, types]
  Retries,     \* the global --retries
  MaxEvents,   \* bound: events remembered at a time (see Forget), not events published
  MaxLines     \* bound: lines on the wire

Logout == "backchannel-logout"

ASSUME EventsAssumption ==
  /\ Logout \in Types /\ "" \notin Types
  /\ Retries \in Nat /\ MaxEvents \in Nat /\ MaxLines \in Nat
  /\ Requests \subseteq [mode : {"human", "json", "jsonl"}, maxWait : Int,
                         once : BOOLEAN, types : SUBSET (Types \cup {""})]

VARIABLES
  \* the watch
  pc, request, attempt, received, serverDelay, shown, outcome,
  \* its decoder: the number of the event being put together (0: none), the last retry: field
  event, retryDelay,
  \* its context: the deadline has passed, the user has pressed Ctrl-C
  expired, canceled,
  \* the connection: the lines not read yet, and whether the server holds it
  wire, open,
  \* the server: the types of the events published
  published,
  \* history: events cut off, connections without an event since the last one (counted up to
  \* Retries + 2), any event at all
  torn, fruitless, heard

watch == <<pc, request, attempt, received, serverDelay, shown, outcome>>
decoder == <<event, retryDelay>>
context == <<expired, canceled>>
connection == <<wire, open>>
history == <<fruitless, heard>>
vars == <<watch, decoder, context, connection, published, torn, history>>

Delays == {"none", "short", "long"}   \* "long": more than retry.MaxDelay, 30 s
Line(field, value) == [field |-> field, value |-> value]
Blank == Line("", 0)

(* ------------------------------- the server ---------------------------- *)

\* An event happens: those who are connected get its lines, the others never will.
\* (What happens after the watch has ended is left out.)
Publish(type) ==
  /\ pc # "ended" /\ Len(published) < MaxEvents
  /\ published' = Append(published, type)
  /\ IF open /\ Len(wire) + 2 <= MaxLines
       THEN wire' = wire \o <<Line("data", Len(published) + 1), Blank>>
       ELSE ~open /\ UNCHANGED wire
  /\ UNCHANGED <<watch, decoder, context, open, torn, history>>

\* The server asks for a delay before the next connection.
AskDelay(delay) ==
  /\ open /\ Len(wire) < MaxLines
  /\ wire' = Append(wire, Line("retry", delay))
  /\ UNCHANGED <<watch, decoder, context, open, published, torn, history>>

EventsOf(lines) == {lines[i].value : i \in {j \in DOMAIN lines : lines[j].field = "data"}}

\* The connection breaks after some of the lines under way.
Break ==
  /\ open /\ open' = FALSE
  /\ \E n \in 0 .. Len(wire) :
       /\ wire' = SubSeq(wire, 1, n)
       /\ torn' = torn \cup EventsOf(SubSeq(wire, n + 1, Len(wire)))
            \cup IF n < Len(wire) /\ wire[n + 1] = Blank
                   THEN IF n = 0 THEN {event} \ {0} ELSE {wire[n].value} ELSE {}
  /\ UNCHANGED <<watch, decoder, context, published, history>>

\* Not a step of the system: what no later step depends on is forgotten, and the
\* events are numbered anew.  So there may be events for ever in finitely many states.
Forget ==
  /\ pc # "ended" /\ published # <<>> /\ wire = <<>> /\ event = 0
  /\ published' = <<>> /\ shown' = <<>> /\ torn' = {}
  /\ UNCHANGED <<pc, request, attempt, received, serverDelay, outcome, decoder, context,
                 connection, history>>

(* ------------------------------- the watch ----------------------------- *)

ContextDone == expired \/ canceled

\* eventWatchContextError: what a watch says whose context ended.
ContextError == IF canceled THEN "canceled" ELSE "no match"

\* The watch ends and leaves its connection.
End(result) ==
  /\ pc' = "ended" /\ outcome' = result
  /\ open' = FALSE /\ wire' = <<>> /\ event' = 0

Accepts(r) ==
  /\ r.mode # "json" /\ r.maxWait >= 0
  /\ r.maxWait > 0 => r.once
  /\ "" \notin r.types

\* A request is refused or the watch begins with the capabilities of the server.
Start ==
  /\ pc = "idle"
  /\ \E r \in Requests :
       /\ request' = r
       /\ IF Accepts(r) THEN pc' = "check" /\ outcome' = outcome
                        ELSE pc' = "ended" /\ outcome' = "usage"
  /\ UNCHANGED <<attempt, received, serverDelay, shown, decoder, context, connection,
                 published, torn, history>>

\* The capabilities, asked for under the context of the command: --max-wait does not run yet.
Check ==
  /\ pc = "check"
  /\ \/ ~canceled /\ pc' = "connect" /\ UNCHANGED <<outcome, connection, event>>
     \/ ~canceled /\ \E failure \in {"error", "unsupported"} : End(failure)
     \/ canceled /\ End("canceled")
  /\ UNCHANGED <<request, attempt, received, serverDelay, shown, retryDelay, context,
                 published, torn, history>>

\* Mutants of Attempt: the count is never reset, or always.
AttemptEver == attempt
AttemptAnew == 0

\* Which attempt failed: an event received starts the count again.
Attempt == IF received THEN 0 ELSE attempt

\* The connection failed or is over: end, or wait and go on.
Disconnected ==
  /\ attempt' = Attempt
  /\ fruitless' = IF received THEN 0
                  ELSE IF fruitless <= Retries + 1 THEN fruitless + 1 ELSE fruitless
  /\ IF Attempt >= Retries
       THEN End("disconnected")
       ELSE pc' = "wait" /\ event' = 0 /\ UNCHANGED <<outcome, connection>>
  /\ UNCHANGED <<request, received, serverDelay, shown, retryDelay, context, published,
                 torn, heard>>

\* Watch: one connection, without retries of its own and without a timeout.
Connect ==
  /\ pc = "connect"
  /\ \/ ~ContextDone /\ Disconnected
     \/ /\ ~ContextDone /\ pc' = "stream"
        /\ open' = TRUE /\ wire' = <<>> /\ event' = 0 /\ retryDelay' = "none"
        /\ UNCHANGED <<request, attempt, received, serverDelay, shown, outcome, context,
                       published, torn, history>>
     \/ /\ ContextDone /\ End(ContextError)
        /\ UNCHANGED <<request, attempt, received, serverDelay, shown, retryDelay, context,
                       published, torn, history>>

Selected(n) == request.types = {} \/ published[n] \in request.types

\* The handler of an event.
Handle(n) ==
  /\ received' = TRUE /\ heard' = TRUE /\ fruitless' = 0
  /\ serverDelay' = IF retryDelay = "none" THEN serverDelay ELSE retryDelay
  /\ \/ /\ published[n] = Logout
        /\ End("logout") /\ UNCHANGED shown
     \/ /\ published[n] # Logout /\ ~Selected(n)
        /\ event' = 0 /\ wire' = Tail(wire) /\ UNCHANGED <<pc, outcome, open, shown>>
     \/ /\ published[n] # Logout /\ Selected(n)
        /\ End("not written") /\ UNCHANGED shown
     \/ /\ published[n] # Logout /\ Selected(n)
        /\ shown' = Append(shown, n)
        /\ IF request.once
             THEN End("done")
             ELSE event' = 0 /\ wire' = Tail(wire) /\ UNCHANGED <<pc, outcome, open>>
  /\ UNCHANGED <<request, attempt, retryDelay, context, published, torn>>

\* decode: one line of the stream; a blank one hands the event over.
Read ==
  /\ pc = "stream" /\ ~ContextDone /\ wire # <<>>
  /\ IF Head(wire) = Blank /\ event # 0
       THEN Handle(event)
       ELSE /\ wire' = Tail(wire)
            /\ event' = IF Head(wire).field = "data" THEN Head(wire).value ELSE event
            /\ retryDelay' = IF Head(wire).field = "retry" THEN Head(wire).value ELSE retryDelay
            /\ UNCHANGED <<watch, context, open, published, torn, history>>

\* Mutant: an event without its blank line is handed over as well.
EndOfStreamWithRest ==
  /\ pc = "stream" /\ ~ContextDone /\ wire = <<>> /\ ~open
  /\ Disconnected \/ (event # 0 /\ Selected(event) /\ shown' = Append(shown, event)
       /\ event' = 0 /\ UNCHANGED <<pc, request, attempt, received, serverDelay, outcome,
            retryDelay, context, connection, published, torn, history>>)

\* The stream is over: what has no blank line after it is discarded.
EndOfStream ==
  /\ pc = "stream" /\ ~ContextDone /\ wire = <<>> /\ ~open
  /\ Disconnected

\* The context of a stream ends: the read fails.
StreamCanceled ==
  /\ pc = "stream" /\ ContextDone
  /\ End(ContextError)
  /\ UNCHANGED <<request, attempt, received, serverDelay, shown, retryDelay, context,
                 published, torn, history>>

\* retry.Wait and the next turn of the loop.
Wait ==
  /\ pc = "wait"
  /\ \/ /\ ContextDone /\ End(ContextError)
        /\ UNCHANGED <<attempt, received, serverDelay>>
     \/ /\ ~ContextDone /\ serverDelay = "long" /\ End("delay too long")
        /\ UNCHANGED <<attempt, received, serverDelay>>
     \/ /\ ~ContextDone /\ serverDelay # "long"
        /\ pc' = "connect" /\ attempt' = attempt + 1
        /\ received' = FALSE /\ serverDelay' = "none"
        /\ UNCHANGED <<outcome, connection, event>>
  /\ UNCHANGED <<request, shown, retryDelay, context, published, torn, history>>

(* ------------------------------ its context ---------------------------- *)

\* --max-wait runs from the first connection on.
Expire ==
  /\ pc \in {"connect", "stream", "wait"} /\ request.maxWait > 0
  /\ ~expired /\ expired' = TRUE
  /\ UNCHANGED <<watch, decoder, canceled, connection, published, torn, history>>

Interrupt ==
  /\ pc \notin {"idle", "ended"} /\ ~canceled /\ canceled' = TRUE
  /\ UNCHANGED <<watch, decoder, expired, connection, published, torn, history>>

NoRequest == [mode |-> "human", maxWait |-> 0, once |-> FALSE, types |-> {}]

Init ==
  /\ pc = "idle" /\ request = NoRequest /\ attempt = 0 /\ received = FALSE
  /\ serverDelay = "none" /\ shown = <<>> /\ outcome = "none"
  /\ event = 0 /\ retryDelay = "none" /\ expired = FALSE /\ canceled = FALSE
  /\ wire = <<>> /\ open = FALSE /\ published = <<>>
  /\ torn = {} /\ fruitless = 0 /\ heard = FALSE

Client == Start \/ Check \/ Connect \/ Read \/ EndOfStream \/ StreamCanceled \/ Wait
Server == (\E type \in Types : Publish(type)) \/ (\E delay \in {"short", "long"} : AskDelay(delay)) \/ Break
\* The watch has ended.
Ended == pc = "ended" /\ UNCHANGED vars

Next == Client \/ Server \/ Forget \/ Expire \/ Interrupt \/ Ended

\* The command runs and its timer with it; nothing is asked of server, network and user.
Spec == Init /\ [][Next]_vars /\ WF_vars(Client) /\ WF_vars(Expire)

(* ------------------------------ properties ----------------------------- *)

\* What is shown is what was asked for: whole events of the selected types, each
\* once and in their order, across all reconnections.
ShownRight ==
  /\ \A i \in DOMAIN shown : /\ shown[i] \in 1 .. Len(published)
                             /\ Selected(shown[i]) /\ published[shown[i]] # Logout
                             /\ shown[i] \notin torn
  /\ \A i, j \in DOMAIN shown : i < j => shown[i] < shown[j]

\* How a watch ends is what happened: --once with its one event, "no matching event"
\* without any and at the deadline, "disconnected" when just the allowed reconnections
\* have brought nothing since the last event.
EndRight ==
  /\ request.once => Len(shown) = (IF outcome = "done" THEN 1 ELSE 0)
  /\ outcome = "done" => request.once
  /\ outcome = "no match" => shown = <<>> /\ expired /\ ~canceled
  /\ outcome = "disconnected" => fruitless = Retries + (IF heard THEN 0 ELSE 1)
  /\ outcome = "logout" => \E n \in DOMAIN published : published[n] = Logout /\ n \notin torn

WatchIsHonest == ShownRight /\ EndRight

\* A watch ends by itself, but for two ways to go on for ever, and with --max-wait without
\* any: it sits on a stream that stays open, or events keep coming, each of which starts the
\* count of reconnections again, selected or not.  Connections that break or are refused
\* without an event, and streams that end in the middle of one, do not keep it going.
WatchEnds ==
  \/ <>(pc = "ended")
  \/ <>[](request.maxWait = 0) /\ (<>[](pc = "stream" /\ open) \/ []<>received)
=============================================================================
