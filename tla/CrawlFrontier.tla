--------------------------- MODULE CrawlFrontier ---------------------------
(***************************************************************************)
(* One crawl order worked off by crawler instances that share the frontier *)
(* stream and the records beside it: which message took a URL, how many    *)
(* pages of a host are taken, which URLs hold one, how often a URL was     *)
(* deferred or tried, and which pages were visited within the recrawl      *)
(* grace.  A worker is one slot of one instance's page visit intake        *)
(* (page_visit_consumer.go, page_visitor.go); between any two of its calls *)
(* to the broker or to the origin the others move, the instance may crash, *)
(* and its message may be redelivered.                                     *)
(*                                                                         *)
(* Each record revision is one step, which RecordRevision justifies.       *)
(***************************************************************************)
EXTENDS FrontierStream, FiniteSets

CONSTANTS
    Seeds,            \* the order's seed URLs
    Hosts, HostOf,    \* the host of each URL
    Links,            \* what each page links to
    Target,           \* where each URL redirects, if its origin says so
    InScope,          \* URLs the profile's patterns and scope let in
    MaxDepth,         \* the profile's depth
    MaxPagesPerHost,  \* the profile's host page limit
    UnlimitedPages,   \* whether the profile sets none (UnlimitedPagesPerHost)
    MaxAttempts,      \* maxPerURL.Attempts
    MaxDeferrals,     \* maxPerURL.Deferrals
    Answers,          \* what a fetch of each URL may come to
    Workers,          \* page visit intakes of all instances
    MaxDisruptions    \* bound of the model: crashes and broker failures

\* What a fetch comes to.  "barred" stands for the answers of an origin that
\* end the visit (not modified, access refused, no readable HTML), "rejected"
\* for those that end it without the origin answering about the page.
AnswerKinds == {"page", "redirected", "barred", "rejected", "deferred", "failed"}

ASSUME GraphAssumption ==
    /\ Seeds \subseteq URLs
    /\ InScope \subseteq URLs
    /\ HostOf \in [URLs -> Hosts]
    /\ Links \in [URLs -> SUBSET URLs]
    /\ Target \in [URLs -> URLs]
    /\ Answers \in [URLs -> SUBSET AnswerKinds]
ASSUME BoundsAssumption ==
    /\ {MaxDepth, MaxPagesPerHost, MaxAttempts, MaxDeferrals, MaxDisruptions} \subseteq Nat
    /\ MaxCopies \in Nat \ {0}
    /\ UnlimitedPages \in BOOLEAN
ASSUME FiniteAssumption == IsFiniteSet(URLs) /\ IsFiniteSet(Workers)

VARIABLES
    order,       \* how far the order's own intake has come
    unseeded,    \* seeds that intake still has to put on the frontier
    taker,       \* which message of each URL took its page visit; 0 is none
    pages,       \* pages taken of each host
    held,        \* URLs that hold a page of their host
    deferrals,   \* deferrals each URL used
    attempts,    \* attempts each URL used
    visited,     \* URLs whose recorded visit is younger than the grace
    work,        \* what each worker is doing
    fetches,     \* how often each URL was fetched
    settled,     \* what became of each URL
    disruptions  \* crashes and broker failures so far

records == <<taker, pages, held, deferrals, attempts, visited>>
intake == <<order, unseeded>>
account == <<fetches, settled>>
vars == <<stream, intake, records, work, account, disruptions>>

Stages == {"claim", "take", "hold", "visit", "fetch", "record", "publish",
           "put", "defer", "retry"}

\* The page visits a concluded visit puts on the frontier.
Found == [url : URLs, depth : Nat]

Idle == [stage |-> "idle"]

Job == [stage : Stages, message : PageVisits, answer : AnswerKinds \cup {"none"},
        left : SUBSET Found]

Outcomes == {"published", "unpublished", "disposed", "redirected"}

TypeOK ==
    /\ StreamTypeOK
    /\ order \in {"sent", "seeding", "accepted"}
    /\ unseeded \subseteq Seeds
    /\ taker \in [URLs -> 0 .. MaxCopies]
    /\ pages \in [Hosts -> 0 .. MaxPagesPerHost]
    /\ held \subseteq URLs
    /\ deferrals \in [URLs -> 0 .. MaxDeferrals]
    /\ attempts \in [URLs -> 0 .. MaxAttempts]
    /\ visited \subseteq URLs
    /\ work \in [Workers -> Job \cup {Idle}]
    /\ fetches \in [URLs -> Nat]
    /\ settled \in [URLs -> SUBSET Outcomes]
    /\ disruptions \in 0 .. MaxDisruptions

Init ==
    /\ StreamInit
    /\ order = "sent"
    /\ unseeded = {}
    /\ taker = [u \in URLs |-> 0]
    /\ pages = [h \in Hosts |-> 0]
    /\ held = {}
    /\ deferrals = [u \in URLs |-> 0]
    /\ attempts = [u \in URLs |-> 0]
    /\ visited = {}
    /\ work = [w \in Workers |-> Idle]
    /\ fetches = [u \in URLs |-> 0]
    /\ settled = [u \in URLs |-> {}]
    /\ disruptions = 0

----------------------------------------------------------------------------
\* AcceptedOrder.Admits.
Admits(url, depth) == depth <= MaxDepth /\ url \in InScope

Disrupted == disruptions < MaxDisruptions /\ disruptions' = disruptions + 1

Calm == UNCHANGED disruptions

At(w, stage) == work[w].stage = stage

MessageOf(w) == work[w].message
URLOf(w) == work[w].message.url
HostOfJob(w) == HostOf[URLOf(w)]

Go(w, stage) == work' = [work EXCEPT ![w].stage = stage]

\* The worker is done with its message and takes the next one.
Leave(w) == work' = [work EXCEPT ![w] = Idle]

\* The page visit ends with an outcome: the message is acknowledged, and stays
\* delivered if the acknowledgement is lost.
Settle(w, outcomes) ==
    /\ settled' = [settled EXCEPT ![URLOf(w)] = @ \cup outcomes]
    /\ Leave(w)
    /\ \/ Acknowledge(MessageOf(w)) /\ Calm
       \/ UNCHANGED stream /\ Disrupted

\* returnPageVisit, and the return after a pause.
GiveBack(w) == Return(MessageOf(w)) /\ Leave(w)

----------------------------------------------------------------------------
(* Order intake: acceptOrder. *)

KeepOrder ==
    /\ order = "sent"
    /\ order' = "seeding"
    /\ unseeded' = Seeds
    /\ UNCHANGED <<stream, records, work, account, disruptions>>

PutSeed(url) ==
    /\ order = "seeding"
    /\ url \in unseeded
    /\ Put(url, 0)
    /\ unseeded' = unseeded \ {url}
    /\ UNCHANGED <<order, records, work, account, disruptions>>

AcknowledgeOrder ==
    /\ order = "seeding"
    /\ unseeded = {}
    /\ order' = "accepted"
    /\ UNCHANGED <<stream, unseeded, records, work, account, disruptions>>

\* A seed does not publish, the instance crashes, or the acknowledgement is
\* lost: the order is redelivered and seeded again.
OrderComesBack ==
    /\ order = "seeding"
    /\ Disrupted
    /\ order' = "sent"
    /\ unseeded' = {}
    /\ UNCHANGED <<stream, records, work, account>>

----------------------------------------------------------------------------
(* Page visit intake: payPageVisit. *)

TakeMessage(w, m) ==
    /\ At(w, "idle")
    /\ Deliver(m)
    /\ work' = [work EXCEPT ![w] = [stage |-> "claim", message |-> m,
                                    answer |-> "none", left |-> {}]]
    /\ UNCHANGED <<intake, records, account, disruptions>>

\* Mutated form of Takes: the standing taker is not compared.
TakesAlways(m) == TRUE

\* TakePageVisit: the first message of a URL takes it, and takes it again.
Takes(m) == taker[m.url] \in {0, m.copy}

Claim(w) ==
    /\ At(w, "claim")
    /\ Takes(MessageOf(w))
    /\ taker' = [taker EXCEPT ![URLOf(w)] = MessageOf(w).copy]
    /\ Go(w, "take")
    /\ UNCHANGED <<stream, intake, pages, held, deferrals, attempts, visited, account, disruptions>>

\* dropPageVisitTakenByAnother.
DropTaken(w) ==
    /\ At(w, "claim")
    /\ ~Takes(MessageOf(w))
    /\ Settle(w, {})
    /\ UNCHANGED <<intake, records, fetches>>

\* AdmitsAnotherPageOfHost, in the three calls it makes.
NeedsPage(w) == ~UnlimitedPages /\ URLOf(w) \notin held

NeedNoPage(w) ==
    /\ At(w, "take")
    /\ ~NeedsPage(w)
    /\ Go(w, "visit")
    /\ UNCHANGED <<stream, intake, records, account, disruptions>>

\* Mutated form of HostHasPages: a limit checked one page late.
HostHasOneMore(h) == pages[h] <= MaxPagesPerHost

HostHasPages(h) == pages[h] < MaxPagesPerHost

TakeHostPage(w) ==
    /\ At(w, "take")
    /\ NeedsPage(w)
    /\ HostHasPages(HostOfJob(w))
    /\ pages' = [pages EXCEPT ![HostOfJob(w)] = @ + 1]
    /\ Go(w, "hold")
    /\ UNCHANGED <<stream, intake, taker, held, deferrals, attempts, visited, account, disruptions>>

HoldHostPage(w) ==
    /\ At(w, "hold")
    /\ held' = held \cup {URLOf(w)}
    /\ Go(w, "visit")
    /\ UNCHANGED <<stream, intake, taker, pages, deferrals, attempts, visited, account, disruptions>>

\* Mutated form of HostExhausted: the message is returned, not dropped.
HostExhaustedReturns(w) ==
    /\ At(w, "take")
    /\ NeedsPage(w)
    /\ ~HostHasPages(HostOfJob(w))
    /\ GiveBack(w)
    /\ UNCHANGED <<intake, records, account, disruptions>>

HostExhausted(w) ==
    /\ At(w, "take")
    /\ NeedsPage(w)
    /\ ~HostHasPages(HostOfJob(w))
    /\ Settle(w, {"disposed"})
    /\ UNCHANGED <<intake, records, fetches>>

----------------------------------------------------------------------------
(* The visit itself: VisitPage. *)

SkipNotDue(w) ==
    /\ At(w, "visit")
    /\ URLOf(w) \in visited
    /\ Settle(w, {"disposed"})
    /\ UNCHANGED <<intake, records, fetches>>

\* A visit record that cannot be read counts as never visited.
FindDue(w) ==
    /\ At(w, "visit")
    /\ \/ URLOf(w) \notin visited /\ Calm
       \/ Disrupted
    /\ Go(w, "fetch")
    /\ UNCHANGED <<stream, intake, records, account>>

\* originAnsweredAboutPage.
OriginAnswered(answer) == answer \in {"page", "redirected", "barred"}

StageAfter(answer) ==
    CASE OriginAnswered(answer) -> "record"
      [] answer = "deferred"    -> "defer"
      [] answer = "failed"      -> "retry"
      [] answer = "rejected"    -> "put"

\* What completePageVisit will put on the frontier: the links the profile
\* admits one deeper, or the redirect target at the same depth.
FoundBy(m, answer) ==
    LET candidates ==
            CASE answer = "page" ->
                    {[url |-> v, depth |-> m.depth + 1] : v \in Links[m.url]}
              [] answer = "redirected" -> {[url |-> Target[m.url], depth |-> m.depth]}
              [] OTHER -> {}
    IN  {f \in candidates : Admits(f.url, f.depth)}

Fetch(w, answer) ==
    /\ At(w, "fetch")
    /\ answer \in Answers[URLOf(w)]
    /\ fetches' = [fetches EXCEPT ![URLOf(w)] = @ + 1]
    /\ work' = [work EXCEPT ![w].stage = StageAfter(answer), ![w].answer = answer,
                            ![w].left = FoundBy(MessageOf(w), answer)]
    /\ UNCHANGED <<stream, intake, records, settled, disruptions>>

\* RecordPageVisit: a record that is not written goes to the observer alone.
RecordVisit(w) ==
    /\ At(w, "record")
    /\ \/ visited' = visited \cup {URLOf(w)} /\ Calm
       \/ UNCHANGED visited /\ Disrupted
    /\ Go(w, IF work[w].answer = "page" THEN "publish" ELSE "put")
    /\ UNCHANGED <<stream, intake, taker, pages, held, deferrals, attempts, account>>

\* publishCrawledPage: a page that is not published goes to the observer alone.
PublishPage(w) ==
    /\ At(w, "publish")
    /\ \/ settled' = [settled EXCEPT ![URLOf(w)] = @ \cup {"published"}] /\ Calm
       \/ settled' = [settled EXCEPT ![URLOf(w)] = @ \cup {"unpublished"}] /\ Disrupted
    /\ Go(w, "put")
    /\ UNCHANGED <<stream, intake, records, fetches>>

----------------------------------------------------------------------------
(* What the visit came to: carryOutConclusion. *)

\* putDiscoveredURLsOnFrontier and putRedirectTargetOnFrontier.
PutFound(w, f) ==
    /\ At(w, "put")
    /\ f \in work[w].left
    /\ Put(f.url, f.depth)
    /\ work' = [work EXCEPT ![w].left = @ \ {f}]
    /\ UNCHANGED <<intake, records, account, disruptions>>

OutcomeOf(answer) ==
    CASE answer = "page"       -> {}
      [] answer = "redirected" -> {"redirected"}
      [] OTHER                 -> {"disposed"}

Complete(w) ==
    /\ At(w, "put")
    /\ work[w].left = {}
    /\ Settle(w, OutcomeOf(work[w].answer))
    /\ UNCHANGED <<intake, records, fetches>>

Defer(w) ==
    /\ At(w, "defer")
    /\ deferrals[URLOf(w)] < MaxDeferrals
    /\ deferrals' = [deferrals EXCEPT ![URLOf(w)] = @ + 1]
    /\ GiveBack(w)
    /\ UNCHANGED <<intake, taker, pages, held, attempts, visited, account, disruptions>>

DeferralsExhausted(w) ==
    /\ At(w, "defer")
    /\ deferrals[URLOf(w)] >= MaxDeferrals
    /\ Settle(w, {"disposed"})
    /\ UNCHANGED <<intake, records, fetches>>

\* Mutated form of Retry: an attempt not counted.
RetryUncounted(w) ==
    /\ At(w, "retry")
    /\ attempts[URLOf(w)] < MaxAttempts
    /\ GiveBack(w)
    /\ UNCHANGED <<intake, records, account, disruptions>>

Retry(w) ==
    /\ At(w, "retry")
    /\ attempts[URLOf(w)] < MaxAttempts
    /\ attempts' = [attempts EXCEPT ![URLOf(w)] = @ + 1]
    /\ GiveBack(w)
    /\ UNCHANGED <<intake, taker, pages, held, deferrals, visited, account, disruptions>>

RetriesExhausted(w) ==
    /\ At(w, "retry")
    /\ attempts[URLOf(w)] >= MaxAttempts
    /\ Settle(w, {"disposed"})
    /\ UNCHANGED <<intake, records, fetches>>

----------------------------------------------------------------------------
(* What goes wrong. *)

\* Mutated form of StepFails: the message is acknowledged, not returned.
StepFailsForGood(w) ==
    /\ work[w].stage \in {"claim", "take", "hold", "put", "defer", "retry"}
    /\ At(w, "put") => work[w].left # {}
    /\ Disrupted
    /\ Acknowledge(MessageOf(w))
    /\ Leave(w)
    /\ UNCHANGED <<intake, records, account>>

\* A record or the frontier cannot be read or written: returnPageVisit.
StepFails(w) ==
    /\ work[w].stage \in {"claim", "take", "hold", "put", "defer", "retry"}
    /\ At(w, "put") => work[w].left # {}
    /\ Disrupted
    /\ GiveBack(w)
    /\ UNCHANGED <<intake, records, account>>

\* The instance dies between two calls; its message stays delivered.
Crash(w) ==
    /\ ~At(w, "idle")
    /\ Disrupted
    /\ Leave(w)
    /\ UNCHANGED <<stream, intake, records, account>>

WorkedOn(m) == \E w \in Workers : ~At(w, "idle") /\ MessageOf(w) = m

\* A message nobody works on any more is redelivered once its ack wait ends.
Redeliver(m) ==
    /\ ~WorkedOn(m)
    /\ AckWaitEnds(m)
    /\ UNCHANGED <<intake, records, work, account, disruptions>>

\* A visit outlasts the ack wait: its message is redelivered under it.
Overrun(m) ==
    /\ WorkedOn(m)
    /\ AckWaitEnds(m)
    /\ Disrupted
    /\ UNCHANGED <<intake, records, work, account>>

ForgetDigest(url) ==
    /\ WindowPasses(url)
    /\ UNCHANGED <<intake, records, work, account, disruptions>>

\* The recrawl grace of a recorded visit ends.
GraceEnds(url) ==
    /\ url \in visited
    /\ visited' = visited \ {url}
    /\ UNCHANGED <<stream, intake, taker, pages, held, deferrals, attempts, work, account, disruptions>>

----------------------------------------------------------------------------
OrderStep == KeepOrder \/ (\E u \in URLs : PutSeed(u)) \/ AcknowledgeOrder

WorkerStep(w) ==
    \/ Claim(w) \/ DropTaken(w)
    \/ NeedNoPage(w) \/ TakeHostPage(w) \/ HoldHostPage(w) \/ HostExhausted(w)
    \/ SkipNotDue(w) \/ FindDue(w)
    \/ \E answer \in AnswerKinds : Fetch(w, answer)
    \/ RecordVisit(w) \/ PublishPage(w)
    \/ At(w, "put") /\ \E f \in work[w].left : PutFound(w, f)
    \/ Complete(w)
    \/ Defer(w) \/ DeferralsExhausted(w) \/ Retry(w) \/ RetriesExhausted(w)

Delivery(w) == \E m \in messages : TakeMessage(w, m)

Redelivery == \E m \in messages : Redeliver(m)

\* Nothing is left to do; only an order can start the crawler again.
Done == order = "accepted" /\ messages = {} /\ \A w \in Workers : At(w, "idle")

Rest == Done /\ UNCHANGED vars

Next ==
    \/ OrderStep
    \/ \E w \in Workers : Delivery(w) \/ WorkerStep(w) \/ StepFails(w) \/ Crash(w)
    \/ Redelivery
    \/ \E m \in messages : Overrun(m)
    \/ \E u \in URLs : ForgetDigest(u) \/ GraceEnds(u)
    \/ OrderComesBack
    \/ Rest

Spec == Init /\ [][Next]_vars

\* A broker call and a fetch have deadlines, a slot that is free takes the next
\* message, and a message nobody answers is redelivered.
FairSpec ==
    /\ Spec
    /\ WF_vars(OrderStep)
    /\ WF_vars(Redelivery)
    /\ \A w \in Workers : WF_vars(Delivery(w)) /\ WF_vars(WorkerStep(w))

----------------------------------------------------------------------------
OnFrontier(u) == \E m \in messages : m.url = u

\* A worker past its claim pays the visit.
Pays(w) == ~At(w, "idle") /\ ~At(w, "claim")

\* However often messages are redelivered and whatever crashes between the
\* calls of AdmitsAnotherPageOfHost, a run fetches no more pages of a host
\* than the profile allows.
FetchedWithinHostLimit ==
    ~UnlimitedPages => \A h \in Hosts :
        Cardinality({u \in URLs : HostOf[u] = h /\ fetches[u] > 0}) <= MaxPagesPerHost

\* The visit of a URL belongs to one of its messages for good: two workers
\* that pay it at once were both delivered that message (takenBy).
OneMessagePaysAVisit ==
    \A v, w \in Workers :
        Pays(v) /\ Pays(w) /\ URLOf(v) = URLOf(w) => MessageOf(v) = MessageOf(w)

\* A URL once put on the frontier stays there until something became of it: no
\* crash, drop or lost call removes its last message before.
NothingForgotten == \A u \in URLs : copies[u] > 0 => OnFrontier(u) \/ settled[u] # {}

\* A URL is fetched again only for a deferral or an attempt it was allowed, or
\* because something went wrong.
EveryRefetchHasACause ==
    \A u \in URLs : fetches[u] <= 1 + deferrals[u] + attempts[u] + disruptions

\* The run ends: the order is accepted and its frontier is empty for good.
RunEnds == <>[]Done

----------------------------------------------------------------------------
(* What the specification and the tests say, and the code does not keep. *)

\* doc/specification.md:39-41: every URL a run admits reaches a terminal
\* outcome, published as a crawled page or disposed.
EveryURLPublishedOrDisposed ==
    Done => \A u \in URLs : copies[u] > 0 =>
                settled[u] \cap {"published", "disposed", "redirected"} # {}

\* doc/specification.md:56-57: a run survives the restart of any instance, so
\* the links of a seed that was published are on the frontier in the end.
RestartKeepsLinks ==
    Done => \A u \in Seeds : "published" \in settled[u] =>
                \A v \in Links[u] : Admits(v, 1) => copies[v] > 0

\* doc/specification.md:39: every URL is visited by exactly one instance.
OneWorkerPaysAVisit ==
    \A v, w \in Workers : Pays(v) /\ Pays(w) /\ URLOf(v) = URLOf(w) => v = w

\* page_visit_limits_test.go: a page visit takes one page of its host however
\* often it is redelivered.
EachVisitTakesOnePage ==
    Done => \A h \in Hosts : pages[h] = Cardinality({u \in held : HostOf[u] = h})
=============================================================================
