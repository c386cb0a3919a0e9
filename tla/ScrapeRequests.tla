--------------------------- MODULE ScrapeRequests ---------------------------
(***************************************************************************)
(* The stream pagescrape takes its work from: scrape requests of one page, *)
(* and the schedule that puts a deferred request back on the stream.  The  *)
(* broker delivers a request until it is acknowledged; a schedule belongs  *)
(* to the page, so a later one takes the place of an earlier one.          *)
(*                                                                         *)
(* A message carries its request and the time since that request was first *)
(* deferred, which no action but the clock's changes.                      *)
(***************************************************************************)
EXTENDS Integers

CONSTANTS
    Requests,    \* requests to scrape the page
    Copies,      \* names of the messages one request may have at a time
    Window,      \* ScrapeDeferralWindow, in ticks of the clock
    None

ASSUME CopiesAssumption == Copies \subseteq Nat
ASSUME WindowAssumption == Window \in Nat

VARIABLES
    messages,    \* requests on the stream, not acknowledged yet
    ready,       \* those the broker may deliver now
    age,         \* time since the request of a message was first deferred
    schedule     \* the deferred request waiting to come back, or None

requestVars == <<messages, ready, age, schedule>>

Messages == [request : Requests, copy : Copies]
NotDeferred == -1
Ages == NotDeferred .. Window + 1

RequestsTypeOK ==
    /\ messages \subseteq Messages
    /\ ready \subseteq messages
    /\ age \in [Messages -> Ages]
    /\ schedule \in {None} \cup [request : Requests, age : Ages, due : BOOLEAN]

RequestsInit ==
    /\ messages = {} /\ ready = {} /\ schedule = None
    /\ age = [m \in Messages |-> NotDeferred]

\* ScrapeRequestPublisher.Publish, AskToScrape, and the broker's schedule: a
\* message under a name no worker still holds (the bound of the model).
Put(r, deferredFor, taken) ==
    \E m \in Messages \ (messages \cup taken) :
        /\ m.request = r
        /\ \A other \in Messages \ (messages \cup taken) :
              other.request = r => m.copy <= other.copy
        /\ messages' = messages \cup {m}
        /\ ready' = ready \cup {m}
        /\ age' = [age EXCEPT ![m] = deferredFor]

Deliver(m) ==
    /\ m \in ready
    /\ ready' = ready \ {m}
    /\ UNCHANGED <<messages, age, schedule>>

\* PendingMessage.Acknowledge: the message is gone, whoever has it meanwhile (its
\* age goes with the last of them).
Acknowledge(m, others) ==
    /\ messages' = messages \ {m}
    /\ ready' = ready \ {m}
    /\ age' = IF m \in others THEN age ELSE [age EXCEPT ![m] = NotDeferred]
    /\ UNCHANGED schedule

\* PendingMessage.Return: delivered again after a pause, unless it is gone.
ReturnAll(ms) ==
    /\ ready' = ready \cup (ms \cap messages)
    /\ UNCHANGED <<messages, age, schedule>>

\* The ack wait of a message ends while its worker is still at it.
AckWaitEnds(m) == m \in messages \ ready /\ ReturnAll({m})

\* ScheduleScrape: the later schedule of a page replaces the earlier one.
ScheduleScrape(r, deferredFor) ==
    schedule' = [request |-> r, age |-> deferredFor, due |-> FALSE]

\* The time a schedule was given has come: the broker puts its request on the
\* stream and forgets the schedule.
ScheduleFires(taken) ==
    /\ schedule # None /\ schedule.due
    /\ Put(schedule.request, schedule.age, taken)
    /\ schedule' = None

Older(a) == IF a \in 0 .. Window THEN a + 1 ELSE a

\* Time passes for every deferred request; a fetch is deferred for a tick.
Tick ==
    /\ age' = [m \in Messages |-> Older(age[m])]
    /\ schedule' = IF schedule = None THEN None
                   ELSE [schedule EXCEPT !.age = Older(@), !.due = TRUE]
    /\ UNCHANGED <<messages, ready>>
=============================================================================
