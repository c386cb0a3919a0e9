--------------------------- MODULE ScrapePipeline ---------------------------
(***************************************************************************)
(* The path of one page through the scraping services: requests of callers *)
(* (webresearchmcp's page calls, which wait for the outcome and refuse a   *)
(* deferral, and publishers like webarchivescrape, which do neither) reach *)
(* the workers of pagescrape; a fetched page is offered to every corpus, a *)
(* failed scrape is reported; the corpora take the offer in and send       *)
(* receipts, which pagescrape carries to whoever listens for the page.     *)
(*                                                                         *)
(* What the origin answers, what a corpus makes of a page and whether a    *)
(* recalled markdown is fresh enough are choices.  A publication that      *)
(* fails, a lost acknowledgement or announcement, an ack wait that ends    *)
(* while the worker is still at it, and a crash each are a disruption.     *)
(* The limits of the streams (MaxMsgs, MaxBytes, MaxAge) are not reached.  *)
(***************************************************************************)
EXTENDS ScrapeRequests, Sequences

CONSTANTS
    Calls,          \* requests of page calls: they give up on a deferral
    Workers,        \* scrapes in flight (ScrapeIntakeConcurrency)
    Corpora,        \* consumers of the page offers
    Markdown,       \* the corpus page calls read from, if it is deployed
    MaxDisruptions  \* bound of the model

ASSUME CallsAssumption == Calls \subseteq Requests
ASSUME DisruptionsAssumption == MaxDisruptions \in Nat

VARIABLES
    work,        \* what each worker of pagescrape is at, or None
    settled,     \* requests whose offer or failure the offers stream took
    superseded,  \* requests whose schedule another request's replaced
    offers,      \* offered pages a corpus has not acknowledged yet
    intake,      \* what each corpus is taking in, or None
    held,        \* the request whose page the markdown corpus holds, or None
    refused,     \* some scrape failed, or the markdown corpus rejected it
    receipts,    \* receipts of the corpora on their way to pagescrape
    inbox,       \* outcomes a call's listener has not read yet
    call,        \* the stage of each page call
    seen,        \* what each call last saw the corpus hold
    answer,      \* the outcome each call answered with, or None
    asked,       \* requests that were put on the stream
    unheard,     \* an outcome was lost between its service and the listener
    disruptions

workVars == <<work, settled, superseded>>
corpusVars == <<offers, intake, held, refused>>
feedVars == <<receipts, inbox, unheard>>
callVars == <<call, seen, answer, asked>>
vars == <<requestVars, workVars, corpusVars, feedVars, callVars, disruptions>>

Stages == {"offering", "deferring", "failing", "announcing", "done"}
IntakeStages == {"kept", "rejected", "reported"}
CallStages == {"idle", "recalled", "listening", "waiting", "fetched", "ended"}
Offers == [corpus : Corpora, request : Requests]
Outcomes == {"kept", "rejected", "failed"}
Receipts == [corpus : Corpora \cup {Markdown}, outcome : Outcomes]
Answers == {"FetchNotNeeded", "PageFetched", "PageNotReadable", "FetchUnfinished", "Error"}

ASSUME NoneAssumption ==
    /\ None \notin Requests /\ None \notin Answers /\ None \notin Workers
    /\ None \notin [request : Requests, age : Ages, due : BOOLEAN]

Init ==
    /\ RequestsInit
    /\ work = [w \in Workers |-> None]
    /\ settled = {} /\ superseded = {}
    /\ offers = {} /\ intake = [c \in Corpora |-> None]
    /\ held = None /\ refused = FALSE
    /\ receipts = <<>> /\ inbox = [c \in Calls |-> <<>>] /\ unheard = FALSE
    /\ call = [c \in Calls |-> "idle"]
    /\ seen = [c \in Calls |-> None]
    /\ answer = [c \in Calls |-> None]
    /\ asked = {} /\ disruptions = 0

Disrupts == disruptions < MaxDisruptions /\ disruptions' = disruptions + 1
Undisturbed == UNCHANGED disruptions

\* Messages a worker has in its hands, whatever the broker made of them.
HandsBut(u) == {work[w].message : w \in {v \in Workers \ {u} : work[v] # None}}
InHand == HandsBut(None)

----------------------------------------------------------------------------
\* The workers of pagescrape: ScrapeRequestConsumer.processOne.

At(w, stage) == work[w] # None /\ work[w].stage = stage

Proceed(w, stage) == work' = [work EXCEPT ![w].stage = stage]

\* The worker fetches the page of a request it is delivered: the origin answers
\* with the page, with a deferral, or with anything else.
TakeRequest(w, m) ==
    /\ work[w] = None
    /\ Deliver(m)
    /\ \E stage \in {"offering", "deferring", "failing"} :
          work' = [work EXCEPT ![w] = [message |-> m, stage |-> stage]]
    /\ UNCHANGED <<settled, superseded, corpusVars, feedVars, callVars>> /\ Undisturbed

\* A mutant: a request whose publication failed is acknowledged all the same.
DropRequest(w) ==
    /\ work[w] # None /\ work[w].stage \in {"offering", "deferring", "failing"}
    /\ work[w].stage = "deferring" => work[w].message.request \notin Calls
    /\ Acknowledge(work[w].message, HandsBut(w))
    /\ work' = [work EXCEPT ![w] = None]
    /\ Disrupts
    /\ UNCHANGED <<settled, superseded, corpusVars, feedVars, callVars>>

\* The request goes back to the broker: a publication it needed failed.
ReturnRequest(w) ==
    /\ work[w] # None /\ work[w].stage \in {"offering", "deferring", "failing"}
    /\ work[w].stage = "deferring" => work[w].message.request \notin Calls
    /\ ReturnAll({work[w].message})
    /\ work' = [work EXCEPT ![w] = None]
    /\ Disrupts
    /\ UNCHANGED <<settled, superseded, corpusVars, feedVars, callVars>>

\* One publication reaches the consumer of every corpus.  (A second offer of a
\* fetch still waiting is like that offer's redelivery.)
OfferPage(w) ==
    /\ At(w, "offering")
    /\ LET r == work[w].message.request IN
          /\ offers' = offers \cup {[corpus |-> c, request |-> r] : c \in Corpora}
          /\ settled' = settled \cup {r}
    /\ Proceed(w, "done")
    /\ UNCHANGED <<requestVars, superseded, intake, held, refused, feedVars, callVars>>
    /\ Undisturbed

\* A mutant: every deferral writes DeferredSince anew.
DeferredAnew(m) == 0

DeferredFor(m) == IF age[m] = NotDeferred THEN 0 ELSE age[m]

\* deferScrape, for a request that may not, or no longer, be deferred.
GiveUp(w) ==
    /\ At(w, "deferring")
    /\ LET m == work[w].message IN m.request \in Calls \/ DeferredFor(m) > Window
    /\ Proceed(w, "failing")
    /\ UNCHANGED <<requestVars, settled, superseded, corpusVars, feedVars, callVars>>
    /\ Undisturbed

Defer(w) ==
    /\ At(w, "deferring")
    /\ LET m == work[w].message
           replaced == IF schedule = None THEN {} ELSE {schedule.request} IN
          /\ m.request \notin Calls /\ DeferredFor(m) <= Window
          /\ ScheduleScrape(m.request, DeferredFor(m))
          /\ superseded' = superseded \cup (replaced \ {m.request})
    /\ Proceed(w, "done")
    /\ UNCHANGED <<messages, ready, age, settled, corpusVars, feedVars, callVars>>
    /\ Undisturbed

\* reportFailure: on the stream first, then to whoever listens.
ReportFailure(w) ==
    /\ At(w, "failing")
    /\ settled' = settled \cup {work[w].message.request}
    /\ refused' = TRUE
    /\ Proceed(w, "announcing")
    /\ UNCHANGED <<requestVars, superseded, offers, intake, held, feedVars, callVars>>
    /\ Undisturbed

Listening == {c \in Calls : call[c] \in {"listening", "waiting"}}

\* Core NATS delivers to the listeners there are; nothing is kept for later.
Tell(outcome) ==
    inbox' = [c \in Calls |-> IF c \in Listening THEN Append(inbox[c], outcome)
                              ELSE inbox[c]]

NoCorpus == [corpus |-> Markdown, outcome |-> "failed"]

AnnounceScrapeFailure(w) ==
    /\ At(w, "announcing")
    /\ \/ Tell(NoCorpus) /\ UNCHANGED unheard /\ Undisturbed
       \/ unheard' = TRUE /\ UNCHANGED inbox /\ Disrupts
    /\ Proceed(w, "done")
    /\ UNCHANGED <<requestVars, settled, superseded, corpusVars, receipts, callVars>>

AcknowledgeRequest(w) ==
    /\ At(w, "done")
    /\ \/ Acknowledge(work[w].message, HandsBut(w)) /\ Undisturbed
       \/ ReturnAll({work[w].message}) /\ Disrupts
    /\ work' = [work EXCEPT ![w] = None]
    /\ UNCHANGED <<settled, superseded, corpusVars, feedVars, callVars>>

\* A scrape that takes longer than the ack wait is delivered a second time.
Overdue(m) ==
    /\ AckWaitEnds(m) /\ Disrupts
    /\ UNCHANGED <<workVars, corpusVars, feedVars, callVars>>

\* pagescrape restarts: its scrapes come back, receipts it had not carried do not.
Crash ==
    /\ ReturnAll(InHand)
    /\ work' = [w \in Workers |-> None]
    /\ receipts' = <<>>
    /\ unheard' = (unheard \/ receipts # <<>>)
    /\ Disrupts
    /\ UNCHANGED <<settled, superseded, corpusVars, inbox, callVars>>

\* A deferred request is due again.
ComesBack ==
    /\ ScheduleFires(InHand)
    /\ UNCHANGED <<workVars, corpusVars, feedVars, callVars>> /\ Undisturbed

TimePasses ==
    /\ Tick
    /\ UNCHANGED <<workVars, corpusVars, feedVars, callVars>> /\ Undisturbed

\* CarryIntakeReceipts.
CarryReceipt ==
    /\ receipts # <<>>
    /\ receipts' = Tail(receipts)
    /\ \/ Tell(Head(receipts)) /\ UNCHANGED unheard /\ Undisturbed
       \/ unheard' = TRUE /\ UNCHANGED inbox /\ Disrupts
    /\ UNCHANGED <<requestVars, workVars, corpusVars, callVars>>

----------------------------------------------------------------------------
\* The corpora: OfferedPageConsumer.takeIn of each.

AtIntake(c, stage) == intake[c] # None /\ intake[c].stage = stage

Keep(c, offer) ==
    /\ intake' = [intake EXCEPT ![c] = [offer |-> offer, stage |-> "kept"]]
    /\ held' = IF c = Markdown THEN offer.request ELSE held

Reject(c, offer) ==
    /\ c = Markdown
    /\ intake' = [intake EXCEPT ![c] = [offer |-> offer, stage |-> "rejected"]]
    /\ refused' = TRUE

\* The corpus derives what it keeps from the offered page and stores it, in the
\* place of what it held of the page; or there is nothing to keep, which is told
\* apart only where a call reads from it.  (An offer whose store fails goes back
\* and changes nothing.)
TakeIn(c, offer) ==
    /\ intake[c] = None
    /\ offer \in offers /\ offer.corpus = c
    /\ \/ Keep(c, offer) /\ UNCHANGED refused
       \/ Reject(c, offer) /\ UNCHANGED held
    /\ UNCHANGED <<requestVars, workVars, offers, feedVars, callVars>> /\ Undisturbed

\* ReportKeptPage and ReportRejectedPage.
SendReceipt(c) ==
    /\ AtIntake(c, "kept") \/ AtIntake(c, "rejected")
    /\ \/ /\ receipts' = Append(receipts, [corpus |-> c, outcome |-> intake[c].stage])
          /\ UNCHANGED unheard /\ Undisturbed
       \/ unheard' = TRUE /\ UNCHANGED receipts /\ Disrupts
    /\ intake' = [intake EXCEPT ![c].stage = "reported"]
    /\ UNCHANGED <<requestVars, workVars, offers, held, refused, inbox, callVars>>

\* A mutant: the offer may be acknowledged before its receipt is sent.
AcknowledgeEarly(c) ==
    /\ intake[c] # None
    /\ offers' = offers \ {intake[c].offer}
    /\ intake' = [intake EXCEPT ![c] = None]
    /\ UNCHANGED <<requestVars, workVars, held, refused, feedVars, callVars>>
    /\ Undisturbed

AcknowledgeOffer(c) ==
    /\ AtIntake(c, "reported")
    /\ offers' = offers \ {intake[c].offer}
    /\ intake' = [intake EXCEPT ![c] = None]
    /\ UNCHANGED <<requestVars, workVars, held, refused, feedVars, callVars>>
    /\ Undisturbed

\* The corpus crashes or its acknowledgement is lost: the offer comes again.
OfferComesBack(c) ==
    /\ intake[c] # None
    /\ intake' = [intake EXCEPT ![c] = None]
    /\ Disrupts
    /\ UNCHANGED <<requestVars, workVars, offers, held, refused, feedVars, callVars>>

----------------------------------------------------------------------------
\* Those who ask: PageReader.PageAnswerFor, and publishers that do not wait.

Ends(c, outcome) ==
    /\ call' = [call EXCEPT ![c] = "ended"]
    /\ answer' = [answer EXCEPT ![c] = outcome]
    /\ inbox' = [inbox EXCEPT ![c] = <<>>]

\* The call recalls the markdown; none, or one that is too old, needs a fetch.
Recall(c) ==
    /\ call[c] = "idle"
    /\ seen' = [seen EXCEPT ![c] = held]
    /\ \/ held # None /\ Ends(c, "FetchNotNeeded")
       \/ call' = [call EXCEPT ![c] = "recalled"] /\ UNCHANGED <<inbox, answer>>
    /\ UNCHANGED <<requestVars, workVars, corpusVars, receipts, unheard, asked>>
    /\ Undisturbed

RecallFails(c) ==
    /\ call[c] \in {"idle", "fetched"}
    /\ Ends(c, "Error") /\ Disrupts
    /\ UNCHANGED <<requestVars, workVars, corpusVars, receipts, unheard, seen, asked>>

\* ListenerFor returns once the broker confirmed the subscription.
Listen(c) ==
    /\ call[c] = "recalled"
    /\ call' = [call EXCEPT ![c] = "listening"]
    /\ UNCHANGED <<requestVars, workVars, corpusVars, feedVars, seen, answer, asked>>
    /\ Undisturbed

\* AskToScrape; a publication that fails is only observed.
AskToScrape(c) ==
    /\ call[c] = "listening"
    /\ call' = [call EXCEPT ![c] = "waiting"]
    /\ \/ /\ Put(c, NotDeferred, InHand)
          /\ asked' = asked \cup {c} /\ UNCHANGED schedule /\ Undisturbed
       \/ UNCHANGED <<requestVars, asked>> /\ Disrupts
    /\ UNCHANGED <<workVars, corpusVars, feedVars, seen, answer>>

\* A mutant: the receipt of any corpus decides.
DecidesAny(outcome) == TRUE

\* Only the outcome of the corpus the call reads from decides.
Decides(outcome) == outcome.corpus = Markdown

\* AwaitedFetchOutcome reads one outcome: another corpus' is passed over.
Hear(c) ==
    /\ call[c] = "waiting" /\ inbox[c] # <<>>
    /\ LET outcome == Head(inbox[c]) IN
          \/ /\ Decides(outcome) /\ outcome.outcome = "kept"
             /\ call' = [call EXCEPT ![c] = "fetched"]
             /\ inbox' = [inbox EXCEPT ![c] = <<>>] /\ UNCHANGED answer
          \/ Decides(outcome) /\ outcome.outcome # "kept" /\ Ends(c, "PageNotReadable")
          \/ /\ ~Decides(outcome)
             /\ inbox' = [inbox EXCEPT ![c] = Tail(@)] /\ UNCHANGED <<call, answer>>
    /\ UNCHANGED <<requestVars, workVars, corpusVars, receipts, unheard, seen, asked>>
    /\ Undisturbed

\* A fetched page is recalled a second time.
RecallFetched(c) ==
    /\ call[c] = "fetched"
    /\ seen' = [seen EXCEPT ![c] = held]
    /\ Ends(c, "PageFetched")
    /\ UNCHANGED <<requestVars, workVars, corpusVars, receipts, unheard, asked>>
    /\ Undisturbed

\* The subscription fails, or FetchWait is over: the call answers with what it
\* saw before it asked.
WaitEnds(c) ==
    /\ call[c] \in {"recalled", "waiting"}
    /\ Ends(c, "FetchUnfinished")
    /\ UNCHANGED <<requestVars, workVars, corpusVars, receipts, unheard, seen, asked>>
    /\ Undisturbed

PublishRequest(r) ==
    /\ r \in Requests \ (Calls \cup asked)
    /\ Put(r, NotDeferred, InHand)
    /\ asked' = asked \cup {r}
    /\ UNCHANGED <<schedule, workVars, corpusVars, feedVars, call, seen, answer>>
    /\ Undisturbed

----------------------------------------------------------------------------
Scrape(w) ==
    \/ OfferPage(w) \/ GiveUp(w) \/ Defer(w) \/ ReportFailure(w)
    \/ AnnounceScrapeFailure(w) \/ AcknowledgeRequest(w)

TakeOfferIn(c) ==
    \/ \E o \in offers : TakeIn(c, o)
    \/ SendReceipt(c) \/ AcknowledgeOffer(c)

Delivered(r) ==
    \E w \in Workers, m \in ready : m.request = r /\ TakeRequest(w, m)

Next ==
    \/ \E w \in Workers : Scrape(w) \/ ReturnRequest(w)
    \/ \E r \in Requests : Delivered(r)
    \/ \E m \in messages \ ready : Overdue(m)
    \/ Crash \/ ComesBack \/ TimePasses \/ CarryReceipt
    \/ \E c \in Corpora : TakeOfferIn(c) \/ OfferComesBack(c)
    \/ \E c \in Calls :
          \/ Recall(c) \/ RecallFails(c) \/ Listen(c) \/ AskToScrape(c)
          \/ Hear(c) \/ RecallFetched(c) \/ WaitEnds(c)
    \/ \E r \in Requests : PublishRequest(r)

Spec == Init /\ [][Next]_vars

\* The broker delivers what is ready in the order it was put, so that a request
\* that may be delivered is delivered in the end; workers, schedules and the
\* clock do not stop.
Fairness ==
    /\ \A r \in Requests : SF_vars(Delivered(r))
    /\ \A w \in Workers : WF_vars(Scrape(w))
    /\ WF_vars(ComesBack) /\ WF_vars(TimePasses)

FairSpec == Spec /\ Fairness

----------------------------------------------------------------------------
WorkTypeOK ==
    /\ work \in [Workers -> {None} \cup [message : Messages, stage : Stages]]
    /\ settled \subseteq Requests /\ superseded \subseteq Requests

CorpusTypeOK ==
    /\ offers \subseteq Offers
    /\ intake \in [Corpora -> {None} \cup [offer : Offers, stage : IntakeStages]]
    /\ held \in {None} \cup Requests /\ refused \in BOOLEAN

FeedTypeOK ==
    /\ receipts \in Seq(Receipts) /\ inbox \in [Calls -> Seq(Receipts)]
    /\ unheard \in BOOLEAN

CallTypeOK ==
    /\ call \in [Calls -> CallStages]
    /\ seen \in [Calls -> {None} \cup Requests]
    /\ answer \in [Calls -> {None} \cup Answers]
    /\ asked \subseteq Requests

TypeOK ==
    /\ RequestsTypeOK /\ WorkTypeOK /\ CorpusTypeOK /\ FeedTypeOK /\ CallTypeOK
    /\ disruptions \in 0 .. MaxDisruptions

Waiting(r) ==
    \/ \E m \in messages : m.request = r
    \/ schedule # None /\ schedule.request = r

\* A request put on the stream is there, or waits in the schedule of its page,
\* until the offers stream has taken a page or a failure for it: no failed
\* publication, lost acknowledgement or restart of pagescrape drops it.  Only
\* another deferral of the same page may take its place.
NothingLost ==
    \A r \in asked : r \in settled \cup superseded \/ Waiting(r)

\* A message of the request that no worker is about to acknowledge.
Live(r) ==
    \E m \in messages :
        /\ m.request = r
        /\ \A w \in Workers : At(w, "done") => work[w].message # m

\* The page was offered to the corpus a call reads, which sent no receipt yet.
Offered(r) ==
    LET offer == [corpus |-> Markdown, request |-> r] IN
    /\ offer \in offers
    /\ ~(AtIntake(Markdown, "reported") /\ intake[Markdown].offer = offer)

AnyDecides(outcomes) == \E i \in DOMAIN outcomes : Decides(outcomes[i])

\* An outcome that ends the wait of the call is there, or carried to it.
Told(c) == AnyDecides(receipts) \/ AnyDecides(inbox[c])

\* A page call never waits for nothing: while it waits for a scrape the broker
\* took, that scrape is still to be done, or its page is offered, or an outcome
\* that ends the wait is on its way, across returned and redelivered messages and
\* restarts, unless the feed lost a publication.
OwnOutcomeIsHeard ==
    \A c \in Calls \cap asked : call[c] = "waiting" /\ ~unheard =>
        Live(c) \/ Offered(c) \/ Told(c)

\* Whatever the origin answers, every request ends: with an offer, a failure, or
\* (a deferral that goes on for longer than the window) the failure that says so.
EveryRequestSettles ==
    \A r \in Requests : r \in asked ~> r \in settled \cup superseded

\* A page call keeps the promise of PageReading: it answers once, "fetched" with
\* markdown, and "not readable" only of a page that was refused.
PageRead == INSTANCE PageReading WITH Fetches <- Requests

ImplementsPageReading == PageRead!Spec

\* "A page call SHALL answer with the markdown the corpus holds when it stops
\* waiting" (webresearchmcp's specification.md:35): the code does not keep it.
AnswersWhatTheCorpusHolds ==
    [][\A c \in Calls : call[c] = "waiting" /\ call'[c] = "ended" => seen'[c] = held]_vars
=============================================================================
