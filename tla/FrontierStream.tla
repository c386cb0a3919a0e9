--------------------------- MODULE FrontierStream ---------------------------
(***************************************************************************)
(* The work-queue stream the crawler keeps its frontier in: page visits    *)
(* that wait to be paid, published under the digest of order and URL       *)
(* (pendingpagevisits/jetstream/publisher.go), delivered to one consumer   *)
(* at a time, redelivered when returned or when their ack wait ends, and   *)
(* gone once acknowledged.  The stream drops a publication whose digest it *)
(* saw within its duplicate window.                                        *)
(*                                                                         *)
(* The model is of one crawl order; a message is named by its URL and by   *)
(* how many messages of that URL came before it.                           *)
(***************************************************************************)
EXTENDS Naturals

CONSTANTS
    URLs,       \* pages the order may come across
    MaxCopies   \* bound of the model: messages one URL may get

VARIABLES
    messages,   \* page visits on the stream
    ready,      \* those the stream may deliver now
    recent,     \* URLs whose digest is within the duplicate window
    copies      \* messages each URL has had so far

stream == <<messages, ready, recent, copies>>

PageVisits == [url : URLs, copy : 1 .. MaxCopies, depth : Nat]

StreamTypeOK ==
    /\ messages \subseteq PageVisits
    /\ ready \subseteq messages
    /\ recent \subseteq URLs
    /\ copies \in [URLs -> 0 .. MaxCopies]

StreamInit ==
    /\ messages = {}
    /\ ready = {}
    /\ recent = {}
    /\ copies = [u \in URLs |-> 0]

----------------------------------------------------------------------------
\* Publisher.Publish: a duplicate is accepted and dropped.
PutDuplicate(url) == url \in recent /\ UNCHANGED stream

PutNew(url, depth) ==
    LET visit == [url |-> url, copy |-> copies[url] + 1, depth |-> depth]
    IN  /\ url \notin recent
        /\ copies[url] < MaxCopies
        /\ messages' = messages \cup {visit}
        /\ ready' = ready \cup {visit}
        /\ recent' = recent \cup {url}
        /\ copies' = [copies EXCEPT ![url] = @ + 1]

Put(url, depth) == PutDuplicate(url) \/ PutNew(url, depth)

Deliver(m) ==
    /\ m \in ready
    /\ ready' = ready \ {m}
    /\ UNCHANGED <<messages, recent, copies>>

\* PendingMessage.Return and ReturnAfter: the message comes back after a pause.
Return(m) ==
    /\ ready' = ready \cup ({m} \cap messages)
    /\ UNCHANGED <<messages, recent, copies>>

\* PendingMessage.Acknowledge: a work queue removes the message, whoever was
\* delivered it meanwhile.
Acknowledge(m) ==
    /\ messages' = messages \ {m}
    /\ ready' = ready \ {m}
    /\ UNCHANGED <<recent, copies>>

\* The ack wait of a delivered message ends without an answer.
AckWaitEnds(m) == m \in messages \ ready /\ Return(m)

\* The duplicate window forgets a digest.  (A URL that used up MaxCopies stays
\* in it, so that the bound of the model never blocks a publication.)
WindowPasses(url) ==
    /\ url \in recent
    /\ copies[url] < MaxCopies
    /\ recent' = recent \ {url}
    /\ UNCHANGED <<messages, ready, copies>>
=============================================================================
