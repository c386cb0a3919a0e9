---------------------------- MODULE CrawlProofs ----------------------------
(***************************************************************************)
(* Proofs about CrawlFrontier for any link graph, any number of workers    *)
(* and any bounds, under crashes, redeliveries and lost calls: its types,  *)
(* the host page limit, that one message pays the visit of a URL, that no  *)
(* URL is forgotten, and that none is fetched again without a cause.       *)
(***************************************************************************)
EXTENDS CrawlFrontier, FiniteSetTheorems, TLAPS

\* Putting a page visit on the stream keeps the stream's types
\* (Publisher.Publish).
LEMMA PutType ==
    ASSUME StreamTypeOK, NEW url \in URLs, NEW depth \in Nat, Put(url, depth)
    PROVE  StreamTypeOK'
<1>1. CASE PutDuplicate(url) BY <1>1 DEF PutDuplicate, stream, StreamTypeOK
<1>2. CASE PutNew(url, depth)
    <2>1. copies[url] + 1 \in 1 .. MaxCopies
        BY <1>2, BoundsAssumption DEF PutNew, StreamTypeOK
    <2>2. [url |-> url, copy |-> copies[url] + 1, depth |-> depth] \in PageVisits
        BY <2>1 DEF PageVisits
    <2> QED BY <1>2, <2>1, <2>2 DEF PutNew, StreamTypeOK
<1> QED BY <1>1, <1>2 DEF Put

\* Delivering, returning and acknowledging keep the stream's types.
LEMMA HandlingType ==
    ASSUME StreamTypeOK, NEW m,
           Deliver(m) \/ Return(m) \/ Acknowledge(m) \/ UNCHANGED stream
    PROVE  StreamTypeOK'
BY DEF StreamTypeOK, Deliver, Return, Acknowledge, stream

\* A worker's message is a page visit of one of the order's URLs.
LEMMA JobType ==
    ASSUME TypeOK, NEW w \in Workers, ~At(w, "idle")
    PROVE  /\ work[w] \in Job
           /\ MessageOf(w) \in PageVisits
           /\ URLOf(w) \in URLs
           /\ HostOfJob(w) \in Hosts
           /\ MessageOf(w).depth \in Nat
           /\ MessageOf(w).copy \in 1 .. MaxCopies
BY GraphAssumption DEF TypeOK, Job, Idle, At, MessageOf, URLOf, HostOfJob, PageVisits

\* A worker that moves to another stage of its visit still has a job.
LEMMA GoType ==
    ASSUME TypeOK, NEW w \in Workers, ~At(w, "idle"), NEW s \in Stages, Go(w, s)
    PROVE  work' \in [Workers -> Job \cup {Idle}]
<1>1. work[w] \in Job BY JobType
<1>2. [work[w] EXCEPT !.stage = s] \in Job BY <1>1 DEF Job
<1> QED BY <1>2 DEF TypeOK, Go

\* A worker that leaves its message is idle.
LEMMA LeaveType ==
    ASSUME TypeOK, NEW w \in Workers, Leave(w)
    PROVE  work' \in [Workers -> Job \cup {Idle}]
BY DEF TypeOK, Leave

\* An outcome given to a visit is one of the outcomes (Settle stands for the
\* observer's count and the acknowledgement).
LEMMA SettleType ==
    ASSUME TypeOK, NEW w \in Workers, ~At(w, "idle"),
           NEW o \in SUBSET Outcomes, Settle(w, o)
    PROVE  /\ StreamTypeOK'
           /\ work' \in [Workers -> Job \cup {Idle}]
           /\ settled' \in [URLs -> SUBSET Outcomes]
           /\ disruptions' \in 0 .. MaxDisruptions
<1>1. StreamTypeOK' BY HandlingType DEF Settle, TypeOK
<1>2. work' \in [Workers -> Job \cup {Idle}] BY LeaveType DEF Settle
<1>3. settled' \in [URLs -> SUBSET Outcomes] BY JobType DEF Settle, TypeOK
<1>4. disruptions' \in 0 .. MaxDisruptions
    BY BoundsAssumption DEF Settle, TypeOK, Calm, Disrupted
<1> QED BY <1>1, <1>2, <1>3, <1>4

\* The links and the redirect target a visit finds are page visits of known
\* URLs.
LEMMA FoundType ==
    ASSUME NEW m \in PageVisits, NEW answer \in AnswerKinds
    PROVE  FoundBy(m, answer) \subseteq Found
<1>1. \A v \in Links[m.url] : [url |-> v, depth |-> m.depth + 1] \in Found
    BY GraphAssumption DEF PageVisits, Found
<1>2. [url |-> Target[m.url], depth |-> m.depth] \in Found
    BY GraphAssumption DEF PageVisits, Found
<1> QED BY <1>1, <1>2 DEF FoundBy

\* Every fetch answer leads to a stage.
LEMMA StageAfterType ==
    ASSUME NEW answer \in AnswerKinds
    PROVE  StageAfter(answer) \in Stages
BY DEF StageAfter, Stages, AnswerKinds, OriginAnswered

----------------------------------------------------------------------------
\* The initial state is typed.
LEMMA InitType == Init => TypeOK
BY BoundsAssumption DEF Init, StreamInit, TypeOK, StreamTypeOK, Idle

\* The order intake keeps the types.
LEMMA OrderType ==
    ASSUME TypeOK, OrderStep \/ OrderComesBack
    PROVE  TypeOK'
<1>1. CASE KeepOrder BY <1>1 DEF KeepOrder, TypeOK, records, account, stream, StreamTypeOK
<1>2. ASSUME NEW u \in URLs, PutSeed(u) PROVE TypeOK'
    <2>1. StreamTypeOK' BY <1>2, PutType DEF PutSeed, TypeOK
    <2> QED BY <1>2, <2>1 DEF PutSeed, TypeOK, records, account
<1>3. CASE AcknowledgeOrder
    BY <1>3 DEF AcknowledgeOrder, TypeOK, records, account, stream, StreamTypeOK
<1>4. CASE OrderComesBack
    BY <1>4, BoundsAssumption
    DEF OrderComesBack, Disrupted, TypeOK, records, account, stream, StreamTypeOK
<1> QED BY <1>1, <1>2, <1>3, <1>4 DEF OrderStep

\* Taking, claiming and being admitted keep the types.
LEMMA ClaimType ==
    ASSUME TypeOK, NEW w \in Workers,
           \/ Delivery(w) \/ Claim(w) \/ NeedNoPage(w) \/ TakeHostPage(w) \/ HoldHostPage(w)
    PROVE  TypeOK'
<1> USE DEF records, account, intake
<1>1. ASSUME NEW m \in messages, TakeMessage(w, m) PROVE TypeOK'
    <2>1. StreamTypeOK' BY <1>1, HandlingType DEF TakeMessage, TypeOK
    <2>2. m \in PageVisits BY DEF TypeOK, StreamTypeOK
    <2>3. [stage |-> "claim", message |-> m, answer |-> "none", left |-> {}] \in Job
        BY <2>2 DEF Job, Stages
    <2> QED BY <1>1, <2>1, <2>3 DEF TakeMessage, TypeOK
<1>2. CASE Claim(w)
    <2>1. ~At(w, "idle") BY <1>2 DEF Claim, At
    <2>2. work' \in [Workers -> Job \cup {Idle}] BY <1>2, <2>1, GoType DEF Claim, Stages
    <2>3. taker' \in [URLs -> 0 .. MaxCopies]
        BY <1>2, <2>1, JobType, BoundsAssumption DEF Claim, TypeOK
    <2> QED BY <1>2, <2>2, <2>3 DEF Claim, TypeOK, stream, StreamTypeOK
<1>3. CASE NeedNoPage(w)
    <2>1. ~At(w, "idle") BY <1>3 DEF NeedNoPage, At
    <2>2. work' \in [Workers -> Job \cup {Idle}] BY <1>3, <2>1, GoType DEF NeedNoPage, Stages
    <2> QED BY <1>3, <2>2 DEF NeedNoPage, TypeOK, stream, StreamTypeOK
<1>4. CASE TakeHostPage(w)
    <2>1. ~At(w, "idle") BY <1>4 DEF TakeHostPage, At
    <2>2. work' \in [Workers -> Job \cup {Idle}] BY <1>4, <2>1, GoType DEF TakeHostPage, Stages
    <2>3. pages' \in [Hosts -> 0 .. MaxPagesPerHost]
        BY <1>4, <2>1, JobType, BoundsAssumption DEF TakeHostPage, TypeOK, HostHasPages
    <2> QED BY <1>4, <2>2, <2>3 DEF TakeHostPage, TypeOK, stream, StreamTypeOK
<1>5. CASE HoldHostPage(w)
    <2>1. ~At(w, "idle") BY <1>5 DEF HoldHostPage, At
    <2>2. work' \in [Workers -> Job \cup {Idle}] BY <1>5, <2>1, GoType DEF HoldHostPage, Stages
    <2> QED BY <1>5, <2>1, <2>2, JobType DEF HoldHostPage, TypeOK, stream, StreamTypeOK
<1> QED BY <1>1, <1>2, <1>3, <1>4, <1>5 DEF Delivery

\* The steps that end a visit with an outcome keep the types.
LEMMA EndingType ==
    ASSUME TypeOK, NEW w \in Workers,
           \/ DropTaken(w) \/ HostExhausted(w) \/ SkipNotDue(w) \/ Complete(w)
           \/ DeferralsExhausted(w) \/ RetriesExhausted(w)
    PROVE  TypeOK'
<1> DEFINE Ends == DropTaken(w) \/ HostExhausted(w) \/ SkipNotDue(w) \/ Complete(w)
                   \/ DeferralsExhausted(w) \/ RetriesExhausted(w)
<1>1. ~At(w, "idle")
    BY DEF DropTaken, HostExhausted, SkipNotDue, Complete, DeferralsExhausted,
        RetriesExhausted, At
<1>2. PICK o \in SUBSET Outcomes : Settle(w, o)
    <2>1. {} \in SUBSET Outcomes /\ {"disposed"} \in SUBSET Outcomes BY DEF Outcomes
    <2>2. OutcomeOf(work[w].answer) \in SUBSET Outcomes BY DEF OutcomeOf, Outcomes
    <2> QED BY <2>1, <2>2 DEF DropTaken, HostExhausted, SkipNotDue, Complete,
            DeferralsExhausted, RetriesExhausted
<1>3. UNCHANGED <<intake, records, fetches>>
    BY DEF DropTaken, HostExhausted, SkipNotDue, Complete, DeferralsExhausted,
        RetriesExhausted
<1> QED BY <1>1, <1>2, <1>3, SettleType DEF TypeOK, intake, records

\* The visit itself keeps the types.
LEMMA VisitType ==
    ASSUME TypeOK, NEW w \in Workers,
           \/ FindDue(w) \/ (\E answer \in AnswerKinds : Fetch(w, answer))
           \/ RecordVisit(w) \/ PublishPage(w)
    PROVE  TypeOK'
<1> USE DEF records, intake, account
<1>1. CASE FindDue(w)
    <2>1. ~At(w, "idle") BY <1>1 DEF FindDue, At
    <2>2. work' \in [Workers -> Job \cup {Idle}] BY <1>1, <2>1, GoType DEF FindDue, Stages
    <2>3. disruptions' \in 0 .. MaxDisruptions
        BY <1>1, BoundsAssumption DEF FindDue, Calm, Disrupted, TypeOK
    <2> QED BY <1>1, <2>2, <2>3 DEF FindDue, TypeOK, stream, StreamTypeOK
<1>2. ASSUME NEW answer \in AnswerKinds, Fetch(w, answer) PROVE TypeOK'
    <2>1. ~At(w, "idle") BY <1>2 DEF Fetch, At
    <2>2. work[w] \in Job /\ MessageOf(w) \in PageVisits /\ URLOf(w) \in URLs
        BY <2>1, JobType
    <2>3. FoundBy(MessageOf(w), answer) \in SUBSET Found BY <2>2, FoundType
    <2>4. [work[w] EXCEPT !.stage = StageAfter(answer), !.answer = answer,
                          !.left = FoundBy(MessageOf(w), answer)] \in Job
        BY <2>2, <2>3, StageAfterType DEF Job
    <2>5. work' \in [Workers -> Job \cup {Idle}] BY <1>2, <2>4 DEF Fetch, TypeOK
    <2>6. fetches' = [fetches EXCEPT ![URLOf(w)] = @ + 1] BY <1>2 DEF Fetch
    <2>7. fetches' \in [URLs -> Nat] BY <2>2, <2>6 DEF TypeOK
    <2> QED BY <1>2, <2>5, <2>7 DEF Fetch, TypeOK, stream, StreamTypeOK
<1>3. CASE RecordVisit(w)
    <2>1. ~At(w, "idle") BY <1>3 DEF RecordVisit, At
    <2>2. work' \in [Workers -> Job \cup {Idle}] BY <1>3, <2>1, GoType DEF RecordVisit, Stages
    <2>3. visited' \subseteq URLs BY <1>3, <2>1, JobType DEF RecordVisit, TypeOK
    <2>4. disruptions' \in 0 .. MaxDisruptions
        BY <1>3, BoundsAssumption DEF RecordVisit, Calm, Disrupted, TypeOK
    <2> QED BY <1>3, <2>2, <2>3, <2>4 DEF RecordVisit, TypeOK, stream, StreamTypeOK
<1>4. CASE PublishPage(w)
    <2>1. ~At(w, "idle") BY <1>4 DEF PublishPage, At
    <2>2. work' \in [Workers -> Job \cup {Idle}] BY <1>4, <2>1, GoType DEF PublishPage, Stages
    <2>3. settled' \in [URLs -> SUBSET Outcomes]
        BY <1>4, <2>1, JobType DEF PublishPage, TypeOK, Outcomes
    <2>4. disruptions' \in 0 .. MaxDisruptions
        BY <1>4, BoundsAssumption DEF PublishPage, Calm, Disrupted, TypeOK
    <2> QED BY <1>4, <2>2, <2>3, <2>4 DEF PublishPage, TypeOK, stream, StreamTypeOK
<1> QED BY <1>1, <1>2, <1>3, <1>4

\* What follows a visit, and what goes wrong, keeps the types.
LEMMA AfterVisitType ==
    ASSUME TypeOK, NEW w \in Workers,
           \/ At(w, "put") /\ \E f \in work[w].left : PutFound(w, f)
           \/ Defer(w) \/ Retry(w) \/ StepFails(w) \/ Crash(w)
    PROVE  TypeOK'
<1> USE DEF records, intake, account
<1>1. ASSUME At(w, "put"), NEW f \in work[w].left, PutFound(w, f) PROVE TypeOK'
    <2>1. work[w] \in Job BY <1>1, JobType DEF At
    <2>2. f.url \in URLs /\ f.depth \in Nat BY <2>1 DEF Job, Found
    <2>3. StreamTypeOK' BY <1>1, <2>2, PutType DEF PutFound, TypeOK
    <2>4. [work[w] EXCEPT !.left = @ \ {f}] \in Job BY <2>1 DEF Job
    <2>5. work' \in [Workers -> Job \cup {Idle}] BY <1>1, <2>4 DEF PutFound, TypeOK
    <2> QED BY <1>1, <2>3, <2>5 DEF PutFound, TypeOK
<1>2. ASSUME GiveBack(w) PROVE StreamTypeOK' /\ work' \in [Workers -> Job \cup {Idle}]
    BY <1>2, HandlingType, LeaveType DEF GiveBack, TypeOK
<1>3. CASE Defer(w)
    <2>1. ~At(w, "idle") BY <1>3 DEF Defer, At
    <2>2. URLOf(w) \in URLs BY <2>1, JobType
    <2>3. deferrals' = [deferrals EXCEPT ![URLOf(w)] = @ + 1] BY <1>3 DEF Defer
    <2>4. deferrals' \in [URLs -> 0 .. MaxDeferrals]
        BY <1>3, <2>2, <2>3, BoundsAssumption DEF Defer, TypeOK
    <2> QED BY <1>2, <1>3, <2>4 DEF Defer, TypeOK
<1>4. CASE Retry(w)
    <2>1. ~At(w, "idle") BY <1>4 DEF Retry, At
    <2>2. URLOf(w) \in URLs BY <2>1, JobType
    <2>3. attempts' = [attempts EXCEPT ![URLOf(w)] = @ + 1] BY <1>4 DEF Retry
    <2>4. attempts' \in [URLs -> 0 .. MaxAttempts]
        BY <1>4, <2>2, <2>3, BoundsAssumption DEF Retry, TypeOK
    <2> QED BY <1>2, <1>4, <2>4 DEF Retry, TypeOK
<1>5. CASE StepFails(w)
    BY <1>2, <1>5, BoundsAssumption DEF StepFails, Disrupted, TypeOK
<1>6. CASE Crash(w)
    BY <1>6, LeaveType, BoundsAssumption DEF Crash, Disrupted, TypeOK, stream, StreamTypeOK
<1> QED BY <1>1, <1>3, <1>4, <1>5, <1>6

\* Redelivery and the passing of time keep the types.
LEMMA TimeType ==
    ASSUME TypeOK,
           \/ Redelivery \/ (\E m \in messages : Overrun(m))
           \/ (\E u \in URLs : ForgetDigest(u) \/ GraceEnds(u)) \/ UNCHANGED vars
    PROVE  TypeOK'
<1> USE DEF records, intake, account
<1>1. ASSUME NEW m \in messages, Redeliver(m) \/ Overrun(m) PROVE TypeOK'
    <2>1. StreamTypeOK' BY <1>1, HandlingType DEF Redeliver, Overrun, AckWaitEnds, TypeOK
    <2>2. disruptions' \in 0 .. MaxDisruptions
        BY <1>1, BoundsAssumption DEF Redeliver, Overrun, Disrupted, TypeOK
    <2> QED BY <1>1, <2>1, <2>2 DEF Redeliver, Overrun, TypeOK
<1>2. ASSUME NEW u \in URLs, ForgetDigest(u) PROVE TypeOK'
    BY <1>2 DEF ForgetDigest, WindowPasses, TypeOK, StreamTypeOK
<1>3. ASSUME NEW u \in URLs, GraceEnds(u) PROVE TypeOK'
    BY <1>3 DEF GraceEnds, TypeOK, stream, StreamTypeOK
<1>4. CASE UNCHANGED vars BY <1>4 DEF vars, TypeOK, stream, StreamTypeOK
<1> QED BY <1>1, <1>2, <1>3, <1>4 DEF Redelivery

\* Every step keeps the types.
LEMMA NextType == TypeOK /\ [Next]_vars => TypeOK'
BY OrderType, ClaimType, EndingType, VisitType, AfterVisitType, TimeType
DEF Next, WorkerStep, Rest

\* The frontier, the records and the workers keep their types; in particular no
\* URL is deferred or tried, and no host's pages are taken, beyond the limits
\* of the order (page_visit_limits.go).
THEOREM CrawlTypeCorrect == Spec => []TypeOK
<1> QED BY InitType, NextType, PTL DEF Spec

----------------------------------------------------------------------------
(* The host page limit. *)

\* The stages in which a worker may have fetched its page or is about to.
Paying == {"visit", "fetch", "record", "publish", "put", "defer", "retry"}

HeldOf(h) == {u \in held : HostOf[u] = h}

\* Workers that took a page of a host and have not yet held it for their URL.
Holding(h) == {w \in Workers : At(w, "hold") /\ HostOfJob(w) = h}

FetchedWereHeld == \A u \in URLs : fetches[u] > 0 => u \in held

PayersHold == \A w \in Workers : work[w].stage \in Paying => URLOf(w) \in held

\* Each page held, and each page about to be, was taken; a page taken twice for
\* one URL, or for a worker that crashed, only adds to the count.
HeldWereTaken ==
    \A h \in Hosts : Cardinality(HeldOf(h)) + Cardinality(Holding(h)) <= pages[h]

\* The inductive invariant, for an order with a host page limit.
HostInv == TypeOK /\ FetchedWereHeld /\ PayersHold /\ HeldWereTaken

\* What a worker's step leaves behind when it takes and holds no page: its
\* message and its right to pay, or no right at all.
Quiet(w, x) ==
    /\ work' = [work EXCEPT ![w] = x]
    /\ x.stage # "hold"
    /\ x.stage \in Paying => URLOf(w) \in held /\ x.message = work[w].message
    /\ UNCHANGED <<held, pages>>

\* The pages held and the workers that hold one are finitely many.
LEMMA HoldersFinite ==
    ASSUME TypeOK, NEW h \in Hosts
    PROVE  /\ IsFiniteSet(HeldOf(h)) /\ Cardinality(HeldOf(h)) \in Nat
           /\ IsFiniteSet(Holding(h)) /\ Cardinality(Holding(h)) \in Nat
<1>1. HeldOf(h) \subseteq URLs /\ Holding(h) \subseteq Workers BY DEF HeldOf, Holding, TypeOK
<1> QED BY <1>1, FiniteAssumption, FS_Subset, FS_CardinalityType

\* A quiet step keeps who may pay and what is counted.
LEMMA QuietKeeps ==
    ASSUME HostInv, NEW w \in Workers, NEW x, Quiet(w, x)
    PROVE  PayersHold' /\ HeldWereTaken'
<1> USE DEF HostInv
<1>1. PayersHold'
    BY DEF PayersHold, Quiet, TypeOK, URLOf
<1>2. ASSUME NEW h \in Hosts
      PROVE  Cardinality(HeldOf(h)') + Cardinality(Holding(h)') <= pages'[h]
    <2>1. HeldOf(h)' = HeldOf(h) BY DEF HeldOf, Quiet
    <2>2. Holding(h)' \subseteq Holding(h)
        BY DEF Holding, Quiet, At, HostOfJob, URLOf, TypeOK
    <2>3. /\ Cardinality(Holding(h)') \in Nat
          /\ Cardinality(Holding(h)') <= Cardinality(Holding(h))
        BY <2>2, HoldersFinite, FS_Subset, FS_CardinalityType
    <2>4. pages[h] \in Nat /\ pages' = pages
        BY BoundsAssumption DEF TypeOK, Quiet
    <2> QED BY <2>1, <2>3, <2>4, HoldersFinite DEF HeldWereTaken
<1> QED BY <1>1, <1>2 DEF HeldWereTaken

\* The worker's record after a step that moves it to another stage.
LEMMA GoIsQuiet ==
    ASSUME HostInv, NEW w \in Workers, ~At(w, "idle"), NEW s \in Stages \ {"hold"}, Go(w, s),
           UNCHANGED <<held, pages>>, s \in Paying => URLOf(w) \in held
    PROVE  Quiet(w, [work[w] EXCEPT !.stage = s])
<1>1. work[w] \in Job BY JobType DEF HostInv
<1>2. /\ [work[w] EXCEPT !.stage = s].stage = s
      /\ [work[w] EXCEPT !.stage = s].message = work[w].message
    BY <1>1 DEF Job
<1> QED BY <1>2 DEF Quiet, Go

\* A worker that leaves its message may pay nothing.
LEMMA LeaveIsQuiet ==
    ASSUME NEW w \in Workers, Leave(w), UNCHANGED <<held, pages>>
    PROVE  Quiet(w, Idle)
BY DEF Quiet, Leave, Idle, Paying

\* A visit's steps other than taking and holding the host page are quiet, and
\* only a worker whose URL holds a page fetches (VisitPage runs after
\* takePageVisit).
LEMMA WorkerKeepsHostInv ==
    ASSUME HostInv, ~UnlimitedPages, NEW w \in Workers,
           \/ Delivery(w) \/ StepFails(w) \/ Crash(w)
           \/ WorkerStep(w) /\ ~TakeHostPage(w) /\ ~HoldHostPage(w)
    PROVE  FetchedWereHeld' /\ PayersHold' /\ HeldWereTaken'
<1> USE DEF HostInv, records
<1> DEFINE Kept == FetchedWereHeld' /\ PayersHold' /\ HeldWereTaken'
<1>1. ASSUME NEW x, Quiet(w, x), UNCHANGED fetches PROVE Kept
    BY <1>1, QuietKeeps DEF FetchedWereHeld, Quiet
<1>2. ASSUME Leave(w), UNCHANGED <<held, pages, fetches>> PROVE Kept
    BY <1>1, <1>2, LeaveIsQuiet
<1>3. ASSUME NEW s \in Stages \ {"hold"}, ~At(w, "idle"), Go(w, s),
             UNCHANGED <<held, pages, fetches>>, s \in Paying => URLOf(w) \in held
      PROVE  Kept
    BY <1>1, <1>3, GoIsQuiet
<1>4. CASE Delivery(w)
    <2>1. PICK m \in messages : TakeMessage(w, m) BY <1>4 DEF Delivery
    <2>2. Quiet(w, [stage |-> "claim", message |-> m, answer |-> "none", left |-> {}])
        BY <2>1 DEF TakeMessage, Quiet, Paying
    <2> QED BY <1>1, <2>1, <2>2 DEF TakeMessage, account
<1>5. CASE Claim(w)
    BY <1>3, <1>5 DEF Claim, At, Stages, Paying, account
<1>6. CASE NeedNoPage(w)
    BY <1>3, <1>6 DEF NeedNoPage, NeedsPage, At, Stages, account
<1>7. CASE DropTaken(w) \/ HostExhausted(w) \/ SkipNotDue(w) \/ Complete(w)
           \/ DeferralsExhausted(w) \/ RetriesExhausted(w)
    BY <1>2, <1>7 DEF DropTaken, HostExhausted, SkipNotDue, Complete,
        DeferralsExhausted, RetriesExhausted, Settle
<1>8. CASE Defer(w) \/ Retry(w) \/ StepFails(w) \/ Crash(w)
    BY <1>2, <1>8 DEF Defer, Retry, StepFails, Crash, GiveBack, account
<1>9. CASE FindDue(w)
    <2>1. URLOf(w) \in held BY <1>9 DEF FindDue, At, PayersHold, Paying
    <2> QED BY <1>3, <1>9, <2>1 DEF FindDue, At, Stages, account
<1>10. CASE RecordVisit(w)
    <2>1. URLOf(w) \in held BY <1>10 DEF RecordVisit, At, PayersHold, Paying
    <2> QED BY <1>3, <1>10, <2>1 DEF RecordVisit, At, Stages, account
<1>11. CASE PublishPage(w)
    <2>1. URLOf(w) \in held BY <1>11 DEF PublishPage, At, PayersHold, Paying
    <2> QED BY <1>3, <1>11, <2>1 DEF PublishPage, At, Stages
<1>12. ASSUME At(w, "put"), NEW f \in work[w].left, PutFound(w, f) PROVE Kept
    <2>1. URLOf(w) \in held BY <1>12 DEF At, PayersHold, Paying
    <2>2. work[w] \in Job BY <1>12, JobType DEF At
    <2>3. Quiet(w, [work[w] EXCEPT !.left = @ \ {f}])
        BY <1>12, <2>1, <2>2 DEF PutFound, Quiet, At, Job
    <2> QED BY <1>1, <1>12, <2>3 DEF PutFound, account
<1>13. ASSUME NEW answer \in AnswerKinds, Fetch(w, answer) PROVE Kept
    <2> DEFINE x == [work[w] EXCEPT !.stage = StageAfter(answer), !.answer = answer,
                                    !.left = FoundBy(MessageOf(w), answer)]
    <2>1. URLOf(w) \in held BY <1>13 DEF Fetch, At, PayersHold, Paying
    <2>2. work[w] \in Job /\ URLOf(w) \in URLs BY <1>13, JobType DEF Fetch, At
    <2>3. StageAfter(answer) # "hold" BY DEF StageAfter, AnswerKinds, OriginAnswered
    <2>4. x.stage = StageAfter(answer) /\ x.message = work[w].message BY <2>2 DEF Job
    <2>5. Quiet(w, x) BY <1>13, <2>1, <2>3, <2>4 DEF Fetch, Quiet
    <2>6. FetchedWereHeld'
        <3>1. fetches' = [fetches EXCEPT ![URLOf(w)] = @ + 1] /\ held' = held
            BY <1>13 DEF Fetch
        <3> QED BY <2>1, <2>2, <3>1 DEF FetchedWereHeld, TypeOK
    <2> QED BY <2>5, <2>6, QuietKeeps
<1> QED
    BY <1>4, <1>5, <1>6, <1>7, <1>8, <1>9, <1>10, <1>11, <1>12, <1>13 DEF WorkerStep

\* Taking a page of the host counts it for the worker that will hold it
\* (takePageOfHost).
LEMMA TakeKeepsHostInv ==
    ASSUME HostInv, NEW w \in Workers, TakeHostPage(w)
    PROVE  FetchedWereHeld' /\ PayersHold' /\ HeldWereTaken'
<1> USE DEF HostInv
<1>1. work[w] \in Job /\ HostOfJob(w) \in Hosts BY JobType DEF TakeHostPage, At
<1>2. /\ work[w].stage = "take" /\ Go(w, "hold") /\ held' = held /\ fetches' = fetches
      /\ pages' = [pages EXCEPT ![HostOfJob(w)] = @ + 1]
    BY DEF TakeHostPage, At, account
<1>3. FetchedWereHeld' BY <1>2 DEF FetchedWereHeld
<1>4. \A v \in Workers : work'[v].message = work[v].message
    BY <1>1, <1>2 DEF Go, TypeOK, Job
<1>5. /\ \A v \in Workers : v # w => work'[v].stage = work[v].stage
      /\ work'[w].stage = "hold"
    BY <1>1, <1>2 DEF Go, TypeOK, Job
<1>6. PayersHold' BY <1>2, <1>4, <1>5 DEF PayersHold, URLOf, Paying
<1>7. ASSUME NEW h \in Hosts
      PROVE  Cardinality(HeldOf(h)') + Cardinality(Holding(h)') <= pages'[h]
    <2>1. HeldOf(h)' = HeldOf(h) BY <1>2 DEF HeldOf
    <2>2. pages[h] \in Nat /\ Cardinality(HeldOf(h)) + Cardinality(Holding(h)) <= pages[h]
        BY BoundsAssumption DEF TypeOK, HeldWereTaken
    <2>3. CASE h = HostOfJob(w)
        <3>1. w \notin Holding(h) BY <1>2 DEF Holding, At
        <3>2. Holding(h)' = Holding(h) \cup {w}
            BY <1>4, <1>5, <2>3 DEF Holding, At, HostOfJob, URLOf
        <3>3. Cardinality(Holding(h)') = Cardinality(Holding(h)) + 1
            BY <3>1, <3>2, HoldersFinite, FS_AddElement
        <3>4. pages'[h] = pages[h] + 1 BY <1>2, <2>3 DEF TypeOK
        <3> QED BY <2>1, <2>2, <3>3, <3>4, HoldersFinite
    <2>4. CASE h # HostOfJob(w)
        <3>1. Holding(h)' = Holding(h)
            BY <1>2, <1>4, <1>5, <2>4 DEF Holding, At, HostOfJob, URLOf
        <3>2. pages'[h] = pages[h] BY <1>2, <2>4 DEF TypeOK
        <3> QED BY <2>1, <2>2, <3>1, <3>2
    <2> QED BY <2>3, <2>4
<1> QED BY <1>3, <1>6, <1>7 DEF HeldWereTaken

\* Holding the page moves it from the worker to its URL (holdPageOfHost), and
\* leaves a page nobody holds if the URL already held one.
LEMMA HoldKeepsHostInv ==
    ASSUME HostInv, NEW w \in Workers, HoldHostPage(w)
    PROVE  FetchedWereHeld' /\ PayersHold' /\ HeldWereTaken'
<1> USE DEF HostInv
<1>1. work[w] \in Job /\ HostOfJob(w) \in Hosts /\ URLOf(w) \in URLs
    BY JobType DEF HoldHostPage, At
<1>2. /\ work[w].stage = "hold" /\ Go(w, "visit") /\ fetches' = fetches /\ pages' = pages
      /\ held' = held \cup {URLOf(w)}
    BY DEF HoldHostPage, At, account
<1>3. FetchedWereHeld' BY <1>2 DEF FetchedWereHeld
<1>4. \A v \in Workers : work'[v].message = work[v].message
    BY <1>1, <1>2 DEF Go, TypeOK, Job
<1>5. /\ \A v \in Workers : v # w => work'[v].stage = work[v].stage
      /\ work'[w].stage = "visit"
    BY <1>1, <1>2 DEF Go, TypeOK, Job
<1>6. PayersHold' BY <1>2, <1>4, <1>5 DEF PayersHold, URLOf, Paying
<1>7. ASSUME NEW h \in Hosts
      PROVE  Cardinality(HeldOf(h)') + Cardinality(Holding(h)') <= pages'[h]
    <2>1. pages[h] \in Nat /\ Cardinality(HeldOf(h)) + Cardinality(Holding(h)) <= pages[h]
        BY BoundsAssumption DEF TypeOK, HeldWereTaken
    <2>2. CASE h = HostOfJob(w)
        <3>1. w \in Holding(h) BY <1>2, <2>2 DEF Holding, At
        <3>2. Holding(h)' = Holding(h) \ {w}
            BY <1>4, <1>5, <2>2 DEF Holding, At, HostOfJob, URLOf
        <3>3. Cardinality(Holding(h)') = Cardinality(Holding(h)) - 1
            BY <3>1, <3>2, HoldersFinite, FS_RemoveElement
        <3>4. HeldOf(h)' = HeldOf(h) \cup {URLOf(w)}
            BY <1>1, <1>2, <2>2 DEF HeldOf, HostOfJob
        <3>5. \/ Cardinality(HeldOf(h)') = Cardinality(HeldOf(h))
              \/ Cardinality(HeldOf(h)') = Cardinality(HeldOf(h)) + 1
            BY <3>4, HoldersFinite, FS_AddElement
        <3> QED BY <1>2, <2>1, <3>3, <3>5, HoldersFinite
    <2>3. CASE h # HostOfJob(w)
        <3>1. Holding(h)' = Holding(h)
            BY <1>2, <1>4, <1>5, <2>3 DEF Holding, At, HostOfJob, URLOf
        <3>2. HeldOf(h)' = HeldOf(h) BY <1>2, <2>3 DEF HeldOf, HostOfJob
        <3> QED BY <1>2, <2>1, <3>1, <3>2
    <2> QED BY <2>2, <2>3
<1> QED BY <1>3, <1>6, <1>7 DEF HeldWereTaken

\* The order intake, redelivery and time touch neither the pages nor the
\* workers.
LEMMA RestKeepsHostInv ==
    ASSUME HostInv, UNCHANGED <<held, pages, work, fetches>>
    PROVE  FetchedWereHeld' /\ PayersHold' /\ HeldWereTaken'
BY DEF HostInv, FetchedWereHeld, PayersHold, HeldWereTaken, HeldOf, Holding, At, HostOfJob, URLOf

\* Every step keeps the invariant.
LEMMA NextHostInv == ~UnlimitedPages /\ HostInv /\ [Next]_vars => HostInv'
<1> SUFFICES ASSUME ~UnlimitedPages, HostInv, [Next]_vars PROVE HostInv' OBVIOUS
<1>1. TypeOK' BY NextType DEF HostInv
<1>2. ASSUME NEW w \in Workers, Delivery(w) \/ WorkerStep(w) \/ StepFails(w) \/ Crash(w)
      PROVE  FetchedWereHeld' /\ PayersHold' /\ HeldWereTaken'
    BY <1>2, WorkerKeepsHostInv, TakeKeepsHostInv, HoldKeepsHostInv
<1>3. ASSUME \/ OrderStep \/ OrderComesBack \/ Redelivery \/ UNCHANGED vars
             \/ \E m \in messages : Overrun(m)
             \/ \E u \in URLs : ForgetDigest(u) \/ GraceEnds(u)
      PROVE  FetchedWereHeld' /\ PayersHold' /\ HeldWereTaken'
    <2>1. UNCHANGED <<held, pages, work, fetches>>
        BY <1>3 DEF OrderStep, OrderComesBack, KeepOrder, PutSeed, AcknowledgeOrder,
            Redelivery, Redeliver, Overrun, ForgetDigest, GraceEnds, vars, records, account
    <2> QED BY <2>1, RestKeepsHostInv
<1>4. FetchedWereHeld' /\ PayersHold' /\ HeldWereTaken'
    <2>1. CASE UNCHANGED vars BY <1>3, <2>1
    <2>2. CASE Next BY <1>2, <1>3, <2>2 DEF Next, Rest
    <2> QED BY <2>1, <2>2
<1> QED BY <1>1, <1>4 DEF HostInv

\* Before the run nothing is fetched or held.
LEMMA InitHostInv == Init => HostInv
<1> SUFFICES ASSUME Init PROVE HostInv OBVIOUS
<1>1. TypeOK BY InitType
<1>2. FetchedWereHeld /\ PayersHold
    BY DEF Init, FetchedWereHeld, PayersHold, Paying, Idle
<1>3. HeldWereTaken
    <2> SUFFICES ASSUME NEW h \in Hosts
                 PROVE  Cardinality(HeldOf(h)) + Cardinality(Holding(h)) <= pages[h]
        BY DEF HeldWereTaken
    <2>1. HeldOf(h) = {} /\ Holding(h) = {} BY DEF Init, HeldOf, Holding, At, Idle
    <2> QED BY <2>1, FS_EmptySet DEF Init
<1> QED BY <1>1, <1>2, <1>3 DEF HostInv

\* A run never fetches more pages of a host than the profile allows, however
\* many workers pay its visits, however messages are redelivered, and wherever
\* workers crash between taking a page and holding it
\* (AdmitsAnotherPageOfHost).
THEOREM HostLimitIsKept == Spec => []FetchedWithinHostLimit
<1>1. HostInv => FetchedWithinHostLimit
    <2> SUFFICES ASSUME HostInv, NEW h \in Hosts
                 PROVE  Cardinality({u \in URLs : HostOf[u] = h /\ fetches[u] > 0})
                            <= MaxPagesPerHost
        BY DEF FetchedWithinHostLimit
    <2> DEFINE Fetched == {u \in URLs : HostOf[u] = h /\ fetches[u] > 0}
    <2> USE DEF HostInv
    <2>1. Fetched \subseteq HeldOf(h) BY DEF HeldOf, FetchedWereHeld
    <2>2. Cardinality(Fetched) <= Cardinality(HeldOf(h)) /\ Cardinality(Fetched) \in Nat
        BY <2>1, HoldersFinite, FS_Subset, FS_CardinalityType
    <2>3. Cardinality(HeldOf(h)) + Cardinality(Holding(h)) <= pages[h]
          /\ pages[h] \in 0 .. MaxPagesPerHost
        BY DEF HeldWereTaken, TypeOK
    <2> HIDE DEF Fetched
    <2> QED BY <2>2, <2>3, HoldersFinite, BoundsAssumption DEF Fetched
<1>2. UnlimitedPages => FetchedWithinHostLimit BY DEF FetchedWithinHostLimit
<1>3. CASE UnlimitedPages
    <2>1. FetchedWithinHostLimit BY <1>2, <1>3
    <2>2. Spec => []FetchedWithinHostLimit
        <3>1. FetchedWithinHostLimit /\ [Next]_vars => FetchedWithinHostLimit'
            BY <1>3 DEF FetchedWithinHostLimit
        <3>2. Init => FetchedWithinHostLimit BY <2>1
        <3> QED BY <3>1, <3>2, PTL DEF Spec
    <2> QED BY <2>2
<1>4. CASE ~UnlimitedPages
    <2>1. Init => HostInv BY InitHostInv
    <2>2. HostInv /\ [Next]_vars => HostInv' BY <1>4, NextHostInv
    <2> QED BY <1>1, <2>1, <2>2, PTL DEF Spec
<1> QED BY <1>3, <1>4

----------------------------------------------------------------------------
(* What any step of a visit does to the messages, to the takers of the visits  *)
(* and to what is counted.                                                   *)

\* The stages in which a fetch is still to come.
Before == {"claim", "take", "hold", "visit", "fetch"}

\* Page visits on the stream, and those workers have in hand.
InPlay == messages \cup {MessageOf(w) : w \in {v \in Workers : ~At(v, "idle")}}

\* What a URL may be fetched for.
Causes(u) == 1 + deferrals[u] + attempts[u] + disruptions

CausesStand == \A u \in URLs : Causes(u) <= Causes(u)'
EveryCauseCounted == \A u \in URLs : Causes(u) + 1 <= Causes(u)'
CauseFor(w) == \A u \in URLs : u = URLOf(w) => Causes(u) + 1 <= Causes(u)'

OutcomesStand == \A u \in URLs : settled[u] # {} => settled'[u] # {}

\* At most one page visit is put on the stream.
Additions ==
    \/ UNCHANGED <<messages, ready, copies>>
    \/ \E u \in URLs, d \in Nat : PutNew(u, d)

\* A worker that took its visit goes on with it.
GoesOn(w, x) ==
    /\ ~At(w, "idle") /\ ~At(w, "claim")
    /\ work' = [work EXCEPT ![w] = x]
    /\ x.message = MessageOf(w) /\ x.stage \notin {"idle", "claim"}
    /\ x.stage \in Before => work[w].stage \in Before
    /\ x.stage = "put" /\ x.answer = "page" => settled'[URLOf(w)] # {}
    /\ Additions /\ OutcomesStand /\ CausesStand /\ UNCHANGED <<taker, fetches>>

\* It acknowledges its message, with an outcome or because another took the URL.
Finishes(w) ==
    /\ ~At(w, "idle") /\ Leave(w) /\ Acknowledge(MessageOf(w))
    /\ settled'[URLOf(w)] # {} \/ (At(w, "claim") /\ ~Takes(MessageOf(w)))
    /\ OutcomesStand /\ CausesStand /\ UNCHANGED <<taker, fetches>>

\* It crashes, or its acknowledgement is lost.
Drops(w) ==
    /\ ~At(w, "idle") /\ Leave(w) /\ UNCHANGED stream
    /\ OutcomesStand /\ EveryCauseCounted /\ UNCHANGED <<taker, fetches>>

\* It returns its message: for a deferral, an attempt or a failed step.
GivesBack(w) ==
    /\ ~At(w, "idle") /\ GiveBack(w)
    /\ OutcomesStand /\ CausesStand /\ CauseFor(w) /\ UNCHANGED <<taker, fetches>>

\* The order intake, redelivery and time.
Elsewhere ==
    /\ UNCHANGED <<work, taker, fetches, settled>> /\ CausesStand
    /\ \/ Additions
       \/ \E m \in messages : Return(m) /\ (WorkedOn(m) => EveryCauseCounted)

\* A page is published, or not, before its links are put on the frontier.
SettledBeforeLinks ==
    \A w \in Workers :
        At(w, "put") /\ work[w].answer = "page" => settled[URLOf(w)] # {}

WorkerAdvances(w) ==
    \/ \E m \in messages : TakeMessage(w, m)
    \/ Claim(w) \/ (\E x : GoesOn(w, x)) \/ (\E a \in AnswerKinds : Fetch(w, a))
    \/ Finishes(w) \/ Drops(w) \/ GivesBack(w)

\* A disruption is a cause for every URL, and calm takes none away.
LEMMA CausesCount ==
    ASSUME TypeOK, UNCHANGED <<deferrals, attempts>>, Calm \/ Disrupted
    PROVE  CausesStand /\ (Disrupted => EveryCauseCounted)
<1>1. \A u \in URLs : deferrals[u] \in Nat /\ attempts[u] \in Nat
    BY BoundsAssumption DEF TypeOK
<1>2. disruptions \in Nat BY BoundsAssumption DEF TypeOK
<1> QED BY <1>1, <1>2 DEF CausesStand, EveryCauseCounted, Causes, Calm, Disrupted

\* Moving on without a record is going on.
LEMMA GoGoesOn ==
    ASSUME TypeOK, NEW w \in Workers, ~At(w, "idle"), ~At(w, "claim"),
           NEW s \in Stages \ {"claim"}, Go(w, s),
           s \in Before => work[w].stage \in Before,
           s = "put" /\ work[w].answer = "page" => settled'[URLOf(w)] # {},
           UNCHANGED stream, OutcomesStand, UNCHANGED <<deferrals, attempts, taker, fetches>>,
           Calm \/ Disrupted
    PROVE  \E x : GoesOn(w, x)
<1> DEFINE x == [work[w] EXCEPT !.stage = s]
<1>1. work[w] \in Job BY JobType
<1>2. x.stage = s /\ x.message = work[w].message /\ x.answer = work[w].answer /\ s # "idle"
    BY <1>1 DEF Job, Stages
<1>3. work' = [work EXCEPT ![w] = x] BY DEF Go
<1>4. Additions BY DEF Additions, stream
<1>5. CausesStand BY CausesCount
<1> HIDE DEF x
<1>6. GoesOn(w, x) BY <1>2, <1>3, <1>4, <1>5 DEF GoesOn, MessageOf
<1> QED BY <1>6

\* An outcome is given with an acknowledgement, which may be lost.
LEMMA SettleEnds ==
    ASSUME TypeOK, NEW w \in Workers, ~At(w, "idle"), NEW o, Settle(w, o),
           o # {} \/ settled[URLOf(w)] # {} \/ (At(w, "claim") /\ ~Takes(MessageOf(w))),
           UNCHANGED <<records, fetches>>
    PROVE  Finishes(w) \/ Drops(w)
<1>1. URLOf(w) \in URLs BY JobType
<1>2. settled' = [settled EXCEPT ![URLOf(w)] = @ \cup o] BY DEF Settle
<1>3. /\ settled'[URLOf(w)] = settled[URLOf(w)] \cup o
      /\ \A u \in URLs : u # URLOf(w) => settled'[u] = settled[u]
    BY <1>1, <1>2 DEF TypeOK
<1>4. OutcomesStand BY <1>3 DEF OutcomesStand
<1>5. CausesStand /\ (Disrupted => EveryCauseCounted)
    BY CausesCount DEF Settle, records
<1> QED BY <1>3, <1>4, <1>5 DEF Settle, Finishes, Drops, records

\* Every step of a worker is one of these.
LEMMA WorkerKinds ==
    ASSUME TypeOK, SettledBeforeLinks, NEW w \in Workers,
           Delivery(w) \/ WorkerStep(w) \/ StepFails(w) \/ Crash(w)
    PROVE  WorkerAdvances(w)
<1> USE DEF records, account
<1>1. CASE Delivery(w) BY <1>1 DEF Delivery, WorkerAdvances
<1>2. CASE Claim(w) BY <1>2 DEF WorkerAdvances
<1>3. CASE DropTaken(w)
    BY <1>3, SettleEnds DEF DropTaken, At, WorkerAdvances
<1>4. CASE NeedNoPage(w)
    <2>1. \E x : GoesOn(w, x)
        BY <1>4, GoGoesOn DEF NeedNoPage, At, Stages, Before, OutcomesStand, Calm
    <2> QED BY <2>1 DEF WorkerAdvances
<1>5. CASE TakeHostPage(w)
    <2>1. \E x : GoesOn(w, x)
        BY <1>5, GoGoesOn DEF TakeHostPage, At, Stages, Before, OutcomesStand, Calm
    <2> QED BY <2>1 DEF WorkerAdvances
<1>6. CASE HoldHostPage(w)
    <2>1. \E x : GoesOn(w, x)
        BY <1>6, GoGoesOn DEF HoldHostPage, At, Stages, Before, OutcomesStand, Calm
    <2> QED BY <2>1 DEF WorkerAdvances
<1>7. CASE HostExhausted(w) \/ SkipNotDue(w) \/ DeferralsExhausted(w) \/ RetriesExhausted(w)
    BY <1>7, SettleEnds DEF HostExhausted, SkipNotDue, DeferralsExhausted, RetriesExhausted,
        At, WorkerAdvances
<1>8. CASE FindDue(w)
    <2>1. \E x : GoesOn(w, x)
        BY <1>8, GoGoesOn DEF FindDue, At, Stages, Before, OutcomesStand
    <2> QED BY <2>1 DEF WorkerAdvances
<1>9. CASE \E a \in AnswerKinds : Fetch(w, a) BY <1>9 DEF WorkerAdvances
<1>10. CASE RecordVisit(w)
    <2>1. Calm \/ Disrupted BY <1>10 DEF RecordVisit
    <2>2. \E x : GoesOn(w, x)
        BY <1>10, <2>1, GoGoesOn DEF RecordVisit, At, Stages, Before, OutcomesStand
    <2> QED BY <2>2 DEF WorkerAdvances
<1>11. CASE PublishPage(w)
    <2>1. URLOf(w) \in URLs BY <1>11, JobType DEF PublishPage, At
    <2>2. PICK o \in {{"published"}, {"unpublished"}} :
              settled' = [settled EXCEPT ![URLOf(w)] = @ \cup o]
        BY <1>11 DEF PublishPage
    <2>3. /\ settled'[URLOf(w)] = settled[URLOf(w)] \cup o
          /\ \A u \in URLs : u # URLOf(w) => settled'[u] = settled[u]
        BY <2>1, <2>2 DEF TypeOK
    <2>4. settled'[URLOf(w)] # {} /\ OutcomesStand BY <2>2, <2>3 DEF OutcomesStand
    <2>5. Calm \/ Disrupted BY <1>11 DEF PublishPage
    <2>6. \E x : GoesOn(w, x)
        BY <1>11, <2>4, <2>5, GoGoesOn DEF PublishPage, At, Stages, Before
    <2> QED BY <2>6 DEF WorkerAdvances
<1>12. ASSUME At(w, "put"), NEW f \in work[w].left, PutFound(w, f) PROVE WorkerAdvances(w)
    <2> DEFINE x == [work[w] EXCEPT !.left = @ \ {f}]
    <2>1. work[w] \in Job BY <1>12, JobType DEF At
    <2>2. f.url \in URLs /\ f.depth \in Nat BY <2>1 DEF Job, Found
    <2>3. x.stage = "put" /\ x.message = work[w].message /\ x.answer = work[w].answer
        BY <1>12, <2>1 DEF Job, At
    <2>4. Additions BY <1>12, <2>2 DEF PutFound, Put, PutDuplicate, Additions, stream
    <2>5. x.answer = "page" => settled'[URLOf(w)] # {}
        BY <1>12, <2>3 DEF SettledBeforeLinks, PutFound
    <2>6. CausesStand BY <1>12, CausesCount DEF PutFound, Calm
    <2>7. OutcomesStand BY <1>12 DEF PutFound, OutcomesStand
    <2>8. work' = [work EXCEPT ![w] = x] BY <1>12 DEF PutFound
    <2> HIDE DEF x
    <2>9. GoesOn(w, x)
        BY <1>12, <2>3, <2>4, <2>5, <2>6, <2>7, <2>8 DEF GoesOn, MessageOf, At, Before, PutFound
    <2> QED BY <2>9 DEF WorkerAdvances
<1>13. CASE Complete(w)
    <2>1. ~At(w, "idle") BY <1>13 DEF Complete, At
    <2>2. OutcomeOf(work[w].answer) # {} \/ settled[URLOf(w)] # {}
        BY <1>13 DEF Complete, OutcomeOf, SettledBeforeLinks
    <2>3. Finishes(w) \/ Drops(w) BY <1>13, <2>1, <2>2, SettleEnds DEF Complete
    <2> QED BY <2>3 DEF WorkerAdvances
<1>14. CASE Defer(w)
    <2>1. ~At(w, "idle") BY <1>14 DEF Defer, At
    <2>2. URLOf(w) \in URLs BY <2>1, JobType
    <2>3. \A u \in URLs : deferrals[u] \in Nat /\ attempts[u] \in Nat /\ disruptions \in Nat
        BY BoundsAssumption DEF TypeOK
    <2>4. deferrals' = [deferrals EXCEPT ![URLOf(w)] = @ + 1] BY <1>14 DEF Defer
    <2>6. /\ \A u \in URLs : deferrals'[u] = IF u = URLOf(w) THEN deferrals[u] + 1 ELSE deferrals[u]
          /\ attempts' = attempts /\ disruptions' = disruptions
        BY <1>14, <2>2, <2>4 DEF Defer, TypeOK
    <2>5. CausesStand /\ CauseFor(w)
        BY <2>2, <2>3, <2>6 DEF CausesStand, CauseFor, Causes
    <2> QED BY <1>14, <2>1, <2>5 DEF Defer, WorkerAdvances, GivesBack, OutcomesStand
<1>15. CASE Retry(w)
    <2>1. ~At(w, "idle") BY <1>15 DEF Retry, At
    <2>2. URLOf(w) \in URLs BY <2>1, JobType
    <2>3. \A u \in URLs : deferrals[u] \in Nat /\ attempts[u] \in Nat /\ disruptions \in Nat
        BY BoundsAssumption DEF TypeOK
    <2>4. attempts' = [attempts EXCEPT ![URLOf(w)] = @ + 1] BY <1>15 DEF Retry
    <2>6. /\ \A u \in URLs : attempts'[u] = IF u = URLOf(w) THEN attempts[u] + 1 ELSE attempts[u]
          /\ deferrals' = deferrals /\ disruptions' = disruptions
        BY <1>15, <2>2, <2>4 DEF Retry, TypeOK
    <2>5. CausesStand /\ CauseFor(w)
        BY <2>2, <2>3, <2>6 DEF CausesStand, CauseFor, Causes
    <2> QED BY <1>15, <2>1, <2>5 DEF Retry, WorkerAdvances, GivesBack, OutcomesStand
<1>16. CASE StepFails(w)
    <2>1. ~At(w, "idle") BY <1>16 DEF StepFails, At
    <2>2. URLOf(w) \in URLs BY <2>1, JobType
    <2>3. CausesStand /\ EveryCauseCounted BY <1>16, CausesCount DEF StepFails
    <2> QED BY <1>16, <2>1, <2>2, <2>3
        DEF StepFails, WorkerAdvances, GivesBack, OutcomesStand, EveryCauseCounted, CauseFor
<1>17. CASE Crash(w)
    <2>1. EveryCauseCounted BY <1>17, CausesCount DEF Crash
    <2> QED BY <1>17, <2>1 DEF Crash, WorkerAdvances, Drops, OutcomesStand
<1> QED
    BY <1>1, <1>2, <1>3, <1>4, <1>5, <1>6, <1>7, <1>8, <1>9, <1>10, <1>11, <1>12, <1>13,
        <1>14, <1>15, <1>16, <1>17 DEF WorkerStep

\* And every other step is elsewhere.
LEMMA StepKinds ==
    ASSUME TypeOK, SettledBeforeLinks, [Next]_vars
    PROVE  Elsewhere \/ \E w \in Workers : WorkerAdvances(w)
<1> USE DEF records, account
<1>1. CASE UNCHANGED vars
    BY <1>1, CausesCount DEF vars, Elsewhere, Additions, stream, Calm
<1>2. CASE OrderStep
    <2>1. CausesStand
        BY <1>2, CausesCount DEF OrderStep, KeepOrder, PutSeed, AcknowledgeOrder, Calm
    <2>2. Additions
        BY <1>2 DEF OrderStep, KeepOrder, PutSeed, AcknowledgeOrder, Put, PutDuplicate,
            Additions, stream
    <2> QED BY <1>2, <2>1, <2>2 DEF OrderStep, KeepOrder, PutSeed, AcknowledgeOrder, Elsewhere
<1>3. CASE OrderComesBack
    BY <1>3, CausesCount DEF OrderComesBack, Elsewhere, Additions, stream
<1>4. ASSUME NEW m \in messages, Redeliver(m) PROVE Elsewhere
    BY <1>4, CausesCount DEF Redeliver, AckWaitEnds, Elsewhere, Calm
<1>5. ASSUME NEW m \in messages, Overrun(m) PROVE Elsewhere
    BY <1>5, CausesCount DEF Overrun, AckWaitEnds, Elsewhere
<1>6. ASSUME NEW u \in URLs, ForgetDigest(u) PROVE Elsewhere
    BY <1>6, CausesCount DEF ForgetDigest, WindowPasses, Elsewhere, Additions, Calm
<1>7. ASSUME NEW u \in URLs, GraceEnds(u) PROVE Elsewhere
    BY <1>7, CausesCount DEF GraceEnds, Elsewhere, Additions, stream, Calm
<1>8. ASSUME NEW w \in Workers, Delivery(w) \/ WorkerStep(w) \/ StepFails(w) \/ Crash(w)
      PROVE  WorkerAdvances(w)
    BY <1>8, WorkerKinds
<1> QED BY <1>1, <1>2, <1>3, <1>4, <1>5, <1>6, <1>7, <1>8 DEF Next, Redelivery, Rest

----------------------------------------------------------------------------
(* The frontier forgets nothing, and one message pays a visit. *)

\* Messages of one URL are told apart by their copy, of which the URL had no more.
VisitsNamed ==
    /\ \A m \in InPlay : m.copy <= copies[m.url]
    /\ \A m, n \in InPlay : m.url = n.url /\ m.copy = n.copy => m = n

PayersTook == \A w \in Workers : Pays(w) => taker[URLOf(w)] = MessageOf(w).copy

TakersNamed == \A u \in URLs : taker[u] <= copies[u]

\* The message that took a URL stays until something became of it.
TakerStays ==
    \A u \in URLs : taker[u] # 0 =>
        settled[u] # {} \/ \E m \in messages : m.url = u /\ m.copy = taker[u]

\* A worker whose message could still take its URL, or took it, has not been
\* overtaken by another that acknowledged it for nothing.
WorkIsOfUse ==
    \A w \in Workers : ~At(w, "idle") /\ Takes(MessageOf(w)) =>
        MessageOf(w) \in messages \/ settled[URLOf(w)] # {}

FrontierSound ==
    /\ SettledBeforeLinks /\ VisitsNamed /\ PayersTook
    /\ TakersNamed /\ TakerStays /\ NothingForgotten /\ WorkIsOfUse

\* The inductive invariant.
FrontierInv == TypeOK /\ FrontierSound

StreamGrows ==
    /\ messages \subseteq messages'
    /\ \A u \in URLs : copies'[u] \in Nat /\ copies[u] <= copies'[u]
    /\ \A u \in URLs : copies'[u] > 0 =>
           copies[u] > 0 \/ \E m \in messages' : m.url = u

\* What is in play are page visits.
LEMMA InPlayType ==
    ASSUME TypeOK
    PROVE  InPlay \subseteq PageVisits /\ messages \subseteq InPlay
BY JobType DEF InPlay, TypeOK, StreamTypeOK

\* A worker's step leaves the others at what they were.
LEMMA HandChanges ==
    ASSUME TypeOK, NEW w \in Workers, NEW x, work' = [work EXCEPT ![w] = x]
    PROVE  work'[w] = x /\ \A v \in Workers : v # w => work'[v] = work[v]
BY DEF TypeOK

\* A worker has nothing in hand that was not in play.
LEMMA InPlayAfter ==
    ASSUME TypeOK, NEW w \in Workers, NEW x, work' = [work EXCEPT ![w] = x],
           x.stage = "idle" \/ x.message \in InPlay
    PROVE  InPlay' \subseteq InPlay \cup messages'
BY HandChanges DEF InPlay, At, MessageOf

\* Messages are named as they are put (Publisher.Publish).
LEMMA NamesKept ==
    ASSUME TypeOK, VisitsNamed, InPlay' \subseteq InPlay \cup messages',
           \/ messages' \subseteq messages /\ UNCHANGED copies
           \/ \E u \in URLs, d \in Nat : PutNew(u, d)
    PROVE  VisitsNamed'
<1>1. InPlay \subseteq PageVisits /\ messages \subseteq InPlay BY InPlayType
<1>2. CASE messages' \subseteq messages /\ UNCHANGED copies
    <2>1. InPlay' \subseteq InPlay BY <1>1, <1>2
    <2> QED BY <1>2, <2>1 DEF VisitsNamed
<1>3. ASSUME NEW u \in URLs, NEW d \in Nat, PutNew(u, d) PROVE VisitsNamed'
    <2> DEFINE new == [url |-> u, copy |-> copies[u] + 1, depth |-> d]
    <2>1. InPlay' \subseteq InPlay \cup {new} BY <1>1, <1>3 DEF PutNew
    <2>2. \A v \in URLs : copies[v] \in Nat /\ copies'[v] \in Nat
              /\ copies'[v] = IF v = u THEN copies[u] + 1 ELSE copies[v]
        BY <1>3, BoundsAssumption DEF PutNew, TypeOK, StreamTypeOK
    <2>3. \A m \in InPlay : m.url \in URLs /\ m.copy \in Nat /\ m.copy <= copies[m.url]
        BY <1>1, BoundsAssumption DEF VisitsNamed, PageVisits
    <2>4. new.url = u /\ new.copy = copies[u] + 1 OBVIOUS
    <2> HIDE DEF new
    <2>5. \A m \in InPlay : ~(m.url = new.url /\ m.copy = new.copy)
        BY <2>2, <2>3, <2>4
    <2>6. \A m \in InPlay' : m.copy <= copies'[m.url]
        BY <2>1, <2>2, <2>3, <2>4
    <2>7. \A m, n \in InPlay' : m.url = n.url /\ m.copy = n.copy => m = n
        BY <2>1, <2>5 DEF VisitsNamed
    <2> QED BY <2>6, <2>7 DEF VisitsNamed
<1> QED BY <1>2, <1>3

\* Whatever does not remove a message lets the stream grow.
LEMMA Grows ==
    ASSUME TypeOK, Additions \/ UNCHANGED <<messages, copies>>
    PROVE  /\ StreamGrows
           /\ \/ messages' \subseteq messages /\ UNCHANGED copies
              \/ \E u \in URLs, d \in Nat : PutNew(u, d)
<1>1. \A u \in URLs : copies[u] \in Nat BY BoundsAssumption DEF TypeOK, StreamTypeOK
<1>2. CASE UNCHANGED <<messages, copies>> BY <1>1, <1>2 DEF StreamGrows
<1>3. ASSUME NEW u \in URLs, NEW d \in Nat, PutNew(u, d) PROVE StreamGrows
    <2>1. \A v \in URLs : copies'[v] = IF v = u THEN copies[u] + 1 ELSE copies[v]
        BY <1>3 DEF PutNew, TypeOK, StreamTypeOK
    <2> DEFINE new == [url |-> u, copy |-> copies[u] + 1, depth |-> d]
    <2>2. messages' = messages \cup {new} /\ new.url = u BY <1>3 DEF PutNew
    <2> HIDE DEF new
    <2> QED BY <1>1, <2>1, <2>2 DEF StreamGrows
<1> QED BY <1>2, <1>3 DEF Additions

\* While no message is removed and no URL is taken nothing is forgotten.
LEMMA FrontierKept ==
    ASSUME FrontierInv, StreamGrows, OutcomesStand, UNCHANGED taker
    PROVE  TakersNamed' /\ TakerStays' /\ NothingForgotten'
<1> USE DEF FrontierInv, FrontierSound
<1>1. \A u \in URLs : taker[u] \in Nat /\ copies[u] \in Nat
    BY BoundsAssumption DEF TypeOK, StreamTypeOK
<1>2. TakersNamed' BY <1>1 DEF StreamGrows, TakersNamed
<1>3. TakerStays' BY DEF StreamGrows, OutcomesStand, TakerStays
<1>4. NothingForgotten' BY DEF StreamGrows, OutcomesStand, NothingForgotten, OnFrontier
<1> QED BY <1>2, <1>3, <1>4

\* A worker is delivered a message.
LEMMA TakingKeepsFrontier ==
    ASSUME FrontierInv, NEW w \in Workers, NEW m \in messages, TakeMessage(w, m)
    PROVE  FrontierSound'
<1> DEFINE x == [stage |-> "claim", message |-> m, answer |-> "none", left |-> {}]
<1> USE DEF FrontierInv, FrontierSound
<1>1. /\ work' = [work EXCEPT ![w] = x] /\ messages' = messages /\ copies' = copies
      /\ taker' = taker /\ settled' = settled
    BY DEF TakeMessage, Deliver, records, account
<1>2. work'[w] = x /\ \A v \in Workers : v # w => work'[v] = work[v] BY <1>1, HandChanges
<1>3. InPlay' \subseteq InPlay \cup messages' BY <1>1, InPlayAfter, InPlayType
<1>4. VisitsNamed' BY <1>1, <1>3, NamesKept
<1>5. StreamGrows /\ OutcomesStand BY <1>1, Grows DEF OutcomesStand
<1>6. TakersNamed' /\ TakerStays' /\ NothingForgotten' BY <1>1, <1>5, FrontierKept
<1>7. PayersTook' BY <1>1, <1>2 DEF PayersTook, Pays, At, URLOf, MessageOf
<1>8. SettledBeforeLinks' BY <1>1, <1>2 DEF SettledBeforeLinks, At, URLOf
<1>9. WorkIsOfUse' BY <1>1, <1>2 DEF WorkIsOfUse, At, URLOf, MessageOf, Takes
<1> QED BY <1>4, <1>6, <1>7, <1>8, <1>9

\* A worker takes the URL for its message, which is on the stream unless
\* something became of the URL already.
LEMMA ClaimKeepsFrontier ==
    ASSUME FrontierInv, NEW w \in Workers, Claim(w)
    PROVE  FrontierSound'
<1> DEFINE x == [work[w] EXCEPT !.stage = "take"]
           m == MessageOf(w)
<1> USE DEF FrontierInv, FrontierSound
<1>1. /\ work' = [work EXCEPT ![w] = x] /\ messages' = messages /\ copies' = copies
      /\ settled' = settled /\ taker' = [taker EXCEPT ![m.url] = m.copy]
      /\ Takes(m) /\ ~At(w, "idle")
    BY DEF Claim, Go, stream, account, URLOf, MessageOf, At
<1>2. work[w] \in Job /\ m \in PageVisits /\ m.url \in URLs /\ m.copy \in Nat /\ m.copy # 0
    BY <1>1, JobType, BoundsAssumption DEF URLOf, MessageOf
<1>3. x.stage = "take" /\ x.message = m BY <1>2 DEF Job, MessageOf
<1>4. m \in InPlay BY <1>1 DEF InPlay
<1> HIDE DEF x
<1>5. work'[w] = x /\ \A v \in Workers : v # w => work'[v] = work[v] BY <1>1, HandChanges
<1>6. InPlay' \subseteq InPlay \cup messages' BY <1>1, <1>3, <1>4, InPlayAfter
<1>7. VisitsNamed' BY <1>1, <1>6, NamesKept
<1>8. \A u \in URLs : taker'[u] = IF u = m.url THEN m.copy ELSE taker[u]
    BY <1>1, <1>2 DEF TypeOK
<1> HIDE DEF m
<1>9. TakersNamed' BY <1>1, <1>4, <1>8 DEF TakersNamed, VisitsNamed
<1>10. m \in messages \/ settled[m.url] # {}
    BY <1>1 DEF WorkIsOfUse, URLOf, MessageOf, m
<1>11. TakerStays' BY <1>1, <1>8, <1>10 DEF TakerStays
<1>12. NothingForgotten' BY <1>1 DEF NothingForgotten, OnFrontier
<1>13. ASSUME NEW v \in Workers, ~At(v, "idle")
       PROVE  /\ MessageOf(v) \in InPlay /\ MessageOf(v).url \in URLs
              /\ MessageOf(v).copy \in Nat /\ MessageOf(v).copy # 0
    BY <1>13, JobType, BoundsAssumption DEF InPlay, URLOf, MessageOf
<1>14. PayersTook'
    <2> SUFFICES ASSUME NEW v \in Workers, Pays(v)' PROVE (taker[URLOf(v)] = MessageOf(v).copy)'
        BY DEF PayersTook
    <2>1. CASE v = w BY <1>2, <1>3, <1>5, <1>8, <2>1 DEF URLOf, MessageOf
    <2>2. CASE v # w
        <3>1. work'[v] = work[v] /\ Pays(v) BY <1>5, <2>2 DEF Pays, At
        <3>2. taker[MessageOf(v).url] = MessageOf(v).copy /\ ~At(v, "idle")
            BY <3>1 DEF PayersTook, URLOf, MessageOf, Pays
        <3>3. MessageOf(v).url = m.url => MessageOf(v).copy = m.copy
            BY <1>1, <1>13, <3>2 DEF Takes
        <3> QED BY <1>8, <1>13, <3>1, <3>2, <3>3 DEF URLOf, MessageOf
    <2> QED BY <2>1, <2>2
<1>15. SettledBeforeLinks' BY <1>1, <1>3, <1>5 DEF SettledBeforeLinks, At, URLOf
<1>16. WorkIsOfUse'
    <2> SUFFICES ASSUME NEW v \in Workers, ~At(v, "idle")', Takes(MessageOf(v))'
                 PROVE  (MessageOf(v) \in messages \/ settled[URLOf(v)] # {})'
        BY DEF WorkIsOfUse
    <2>1. CASE v = w BY <1>1, <1>3, <1>5, <1>10, <2>1 DEF URLOf, MessageOf
    <2>2. CASE v # w
        <3>1. work'[v] = work[v] /\ ~At(v, "idle") BY <1>5, <2>2 DEF At
        <3> DEFINE n == MessageOf(v)
        <3>2. n \in InPlay /\ n.url \in URLs /\ n.copy \in Nat /\ n.copy # 0 BY <1>13, <3>1
        <3>3. taker'[n.url] \in {0, n.copy} BY <3>1 DEF Takes, MessageOf
        <3>4. Takes(n) => n \in messages \/ settled[n.url] # {}
            BY <3>1 DEF WorkIsOfUse, URLOf, MessageOf
        <3>5. CASE n.url # m.url BY <1>1, <1>8, <3>1, <3>2, <3>3, <3>4, <3>5 DEF Takes, URLOf, MessageOf
        <3>6. CASE n.url = m.url
            <4>1. n.copy = m.copy BY <1>2, <1>8, <3>2, <3>3, <3>6
            <4>2. n = m BY <1>4, <3>2, <3>6, <4>1 DEF VisitsNamed
            <4> QED BY <1>1, <1>10, <3>1, <4>2 DEF URLOf, MessageOf
        <3> QED BY <3>5, <3>6
    <2> QED BY <2>1, <2>2
<1> QED BY <1>7, <1>9, <1>11, <1>12, <1>14, <1>15, <1>16

\* A worker past its claim keeps its message and goes on.
LEMMA MovingKeepsFrontier ==
    ASSUME FrontierInv, NEW w \in Workers, NEW x, ~At(w, "idle"), ~At(w, "claim"),
           work' = [work EXCEPT ![w] = x], x.message = MessageOf(w),
           x.stage \notin {"idle", "claim"},
           x.stage = "put" /\ x.answer = "page" => settled'[URLOf(w)] # {},
           Additions \/ UNCHANGED stream, OutcomesStand, UNCHANGED taker
    PROVE  FrontierSound'
<1> USE DEF FrontierInv, FrontierSound
<1>1. work'[w] = x /\ \A v \in Workers : v # w => work'[v] = work[v] BY HandChanges
<1>2. MessageOf(w) \in InPlay /\ Pays(w) BY DEF InPlay, Pays
<1>3. InPlay' \subseteq InPlay \cup messages' BY <1>2, InPlayAfter
<1>4. Additions \/ UNCHANGED <<messages, copies>> BY DEF stream
<1>5. VisitsNamed' BY <1>3, <1>4, Grows, NamesKept
<1>6. StreamGrows BY <1>4, Grows
<1>7. TakersNamed' /\ TakerStays' /\ NothingForgotten' BY <1>6, FrontierKept
<1>8. PayersTook' BY <1>1, <1>2 DEF PayersTook, Pays, At, URLOf, MessageOf
<1>9. \A v \in Workers : ~At(v, "idle") => URLOf(v) \in URLs BY JobType
<1>10. SettledBeforeLinks'
    BY <1>1, <1>9 DEF SettledBeforeLinks, OutcomesStand, At, URLOf, MessageOf
<1>11. WorkIsOfUse'
    BY <1>1, <1>6, <1>9 DEF WorkIsOfUse, OutcomesStand, StreamGrows, At, URLOf, MessageOf, Takes
<1> QED BY <1>5, <1>7, <1>8, <1>10, <1>11

\* What a worker that leaves its message leaves behind.
LEMMA LeavingKeepsWork ==
    ASSUME FrontierInv, NEW w \in Workers, Leave(w), OutcomesStand, UNCHANGED taker
    PROVE  /\ InPlay' \subseteq InPlay \cup messages'
           /\ PayersTook' /\ SettledBeforeLinks'
           /\ messages \subseteq messages' => WorkIsOfUse'
<1> USE DEF FrontierInv, FrontierSound
<1>1. work' = [work EXCEPT ![w] = Idle] BY DEF Leave
<1>2. work'[w] = Idle /\ \A v \in Workers : v # w => work'[v] = work[v] BY <1>1, HandChanges
<1>3. InPlay' \subseteq InPlay \cup messages' BY <1>1, InPlayAfter DEF Idle
<1>4. \A v \in Workers : ~At(v, "idle") => URLOf(v) \in URLs BY JobType
<1>5. PayersTook' BY <1>2 DEF PayersTook, Pays, At, URLOf, MessageOf, Idle
<1>6. SettledBeforeLinks'
    BY <1>2, <1>4 DEF SettledBeforeLinks, OutcomesStand, At, URLOf, MessageOf, Idle
<1>7. messages \subseteq messages' => WorkIsOfUse'
    BY <1>2, <1>4 DEF WorkIsOfUse, OutcomesStand, At, URLOf, MessageOf, Takes, Idle
<1> QED BY <1>3, <1>5, <1>6, <1>7

\* A worker lets its message go without removing it.
LEMMA LeavingKeepsFrontier ==
    ASSUME FrontierInv, NEW w \in Workers, Drops(w) \/ GivesBack(w)
    PROVE  FrontierSound'
<1>1. Leave(w) /\ OutcomesStand /\ UNCHANGED <<messages, copies, taker>>
    BY DEF Drops, GivesBack, GiveBack, Return, stream
<1>2. VisitsNamed' BY <1>1, LeavingKeepsWork, NamesKept DEF FrontierInv, FrontierSound
<1>3. StreamGrows BY <1>1, Grows DEF FrontierInv
<1> QED BY <1>1, <1>2, <1>3, LeavingKeepsWork, FrontierKept DEF FrontierSound

\* A message is acknowledged once something became of its URL, or when another
\* message took the URL and stays.
LEMMA FinishingKeepsFrontier ==
    ASSUME FrontierInv, NEW w \in Workers, Finishes(w)
    PROVE  FrontierSound'
<1> USE DEF FrontierInv, FrontierSound
<1> DEFINE m == MessageOf(w)
<1>1. /\ ~At(w, "idle") /\ Leave(w) /\ OutcomesStand
      /\ messages' = messages \ {m} /\ copies' = copies /\ taker' = taker
    BY DEF Finishes, Acknowledge
<1>2. m \in PageVisits /\ m.url \in URLs /\ m.copy \in Nat /\ m.copy # 0 /\ m \in InPlay
    <2>1. m \in PageVisits /\ m.url \in URLs /\ m.copy \in 1 .. MaxCopies
        BY <1>1, JobType DEF URLOf, MessageOf
    <2>2. m \in InPlay BY <1>1 DEF InPlay
    <2> QED BY <2>1, <2>2, BoundsAssumption
<1>3. settled'[m.url] # {} \/ ~Takes(m)
    <2>1. m.url = URLOf(w) BY DEF URLOf, MessageOf
    <2>2. settled'[URLOf(w)] # {} \/ ~Takes(m) BY DEF Finishes
    <2> HIDE DEF m
    <2> QED BY <2>1, <2>2
<1> HIDE DEF m
<1>4. VisitsNamed' BY <1>1, LeavingKeepsWork, NamesKept
<1>5. TakersNamed' BY <1>1 DEF TakersNamed
<1>6. TakerStays'
    <2> SUFFICES ASSUME NEW u \in URLs, taker[u] # 0
                 PROVE  settled'[u] # {} \/ \E n \in messages' : n.url = u /\ n.copy = taker[u]
        BY <1>1 DEF TakerStays
    <2>1. CASE settled[u] # {} BY <1>1, <2>1 DEF OutcomesStand
    <2>2. ASSUME NEW n \in messages, n.url = u, n.copy = taker[u]
          PROVE  settled'[u] # {} \/ n \in messages'
        BY <1>1, <1>3, <2>2 DEF Takes
    <2> QED BY <2>1, <2>2 DEF TakerStays
<1>7. NothingForgotten'
    <2> SUFFICES ASSUME NEW u \in URLs, copies[u] > 0, settled'[u] = {}
                 PROVE  \E n \in messages' : n.url = u
        BY <1>1 DEF NothingForgotten, OnFrontier
    <2>1. settled[u] = {} BY <1>1 DEF OutcomesStand
    <2>2. PICK n \in messages : n.url = u BY <2>1 DEF NothingForgotten, OnFrontier
    <2>3. CASE n # m BY <1>1, <2>2, <2>3
    <2>4. CASE n = m
        <3>1. taker[u] # 0 BY <1>3, <2>2, <2>4 DEF Takes
        <3> QED BY <1>1, <1>6, <3>1 DEF TakerStays
    <2> QED BY <2>3, <2>4
<1>8. WorkIsOfUse'
    <2>1. work' = [work EXCEPT ![w] = Idle] BY <1>1 DEF Leave
    <2>2. work'[w] = Idle /\ \A v \in Workers : v # w => work'[v] = work[v] BY <2>1, HandChanges
    <2> SUFFICES ASSUME NEW v \in Workers, ~At(v, "idle")', Takes(MessageOf(v))'
                 PROVE  (MessageOf(v) \in messages \/ settled[URLOf(v)] # {})'
        BY DEF WorkIsOfUse
    <2>3. v # w /\ work'[v] = work[v] /\ ~At(v, "idle") BY <2>2 DEF At, Idle
    <2>4. URLOf(v) \in URLs BY <2>3, JobType
    <2>5. Takes(MessageOf(v)) BY <1>1, <2>3 DEF Takes, MessageOf
    <2>6. CASE settled[URLOf(v)] # {} BY <1>1, <2>3, <2>4, <2>6 DEF OutcomesStand, URLOf
    <2>7. CASE MessageOf(v) \in messages
        BY <1>1, <1>3, <2>3, <2>5, <2>7 DEF URLOf, MessageOf
    <2> QED BY <2>3, <2>5, <2>6, <2>7 DEF WorkIsOfUse
<1> QED BY <1>1, <1>4, <1>5, <1>6, <1>7, <1>8, LeavingKeepsWork

\* Nor does what happens elsewhere.
LEMMA ElsewhereKeepsFrontier ==
    ASSUME FrontierInv, Elsewhere
    PROVE  FrontierSound'
<1> USE DEF FrontierInv, FrontierSound
<1>1. UNCHANGED <<work, taker, settled>> /\ OutcomesStand BY DEF Elsewhere, OutcomesStand
<1>2. Additions \/ UNCHANGED <<messages, copies>> BY DEF Elsewhere, Return
<1>3. InPlay' \subseteq InPlay \cup messages' BY <1>1 DEF InPlay, At, MessageOf
<1>4. VisitsNamed' BY <1>2, <1>3, Grows, NamesKept
<1>5. StreamGrows BY <1>2, Grows
<1>6. TakersNamed' /\ TakerStays' /\ NothingForgotten' BY <1>1, <1>5, FrontierKept
<1>7. PayersTook' /\ SettledBeforeLinks' /\ WorkIsOfUse'
    BY <1>1, <1>5 DEF PayersTook, SettledBeforeLinks, WorkIsOfUse, StreamGrows, Pays, At,
        URLOf, MessageOf, Takes
<1> QED BY <1>4, <1>6, <1>7

\* Every step keeps the invariant.
LEMMA NextFrontierInv == FrontierInv /\ [Next]_vars => FrontierInv'
<1> SUFFICES ASSUME FrontierInv, [Next]_vars PROVE FrontierInv' OBVIOUS
<1>1. TypeOK' BY NextType DEF FrontierInv
<1>2. Elsewhere \/ \E w \in Workers : WorkerAdvances(w)
    BY StepKinds DEF FrontierInv, FrontierSound
<1>3. ASSUME NEW w \in Workers, NEW x, GoesOn(w, x) PROVE FrontierSound'
    BY <1>3, MovingKeepsFrontier DEF GoesOn
<1>4. ASSUME NEW w \in Workers, NEW a \in AnswerKinds, Fetch(w, a) PROVE FrontierSound'
    <2> DEFINE x == [work[w] EXCEPT !.stage = StageAfter(a), !.answer = a,
                                    !.left = FoundBy(MessageOf(w), a)]
    <2>1. work[w] \in Job BY <1>4, JobType DEF Fetch, At, FrontierInv
    <2>2. x.stage = StageAfter(a) /\ x.message = MessageOf(w) /\ x.answer = a
        BY <2>1 DEF Job, MessageOf
    <2>3. StageAfter(a) \notin {"idle", "claim"} /\ ~(StageAfter(a) = "put" /\ a = "page")
        BY DEF StageAfter, AnswerKinds, OriginAnswered
    <2>4. /\ work' = [work EXCEPT ![w] = x] /\ UNCHANGED <<stream, taker, settled>>
          /\ work[w].stage = "fetch"
        BY <1>4 DEF Fetch, records, At
    <2> HIDE DEF x
    <2>5. OutcomesStand BY <2>4 DEF OutcomesStand
    <2> QED BY <2>2, <2>3, <2>4, <2>5, MovingKeepsFrontier DEF At
<1>5. FrontierSound'
    BY <1>2, <1>3, <1>4, TakingKeepsFrontier, ClaimKeepsFrontier, FinishingKeepsFrontier,
        LeavingKeepsFrontier, ElsewhereKeepsFrontier DEF WorkerAdvances
<1> QED BY <1>1, <1>5 DEF FrontierInv

\* At first nothing is on the frontier and nobody works.
LEMMA InitFrontierInv == Init => FrontierInv
<1> SUFFICES ASSUME Init PROVE FrontierInv OBVIOUS
<1>1. TypeOK BY InitType
<1>2. messages = {} /\ \A w \in Workers : work[w].stage = "idle"
    BY DEF Init, StreamInit, Idle
<1>3. InPlay = {} BY <1>2 DEF InPlay, At
<1>4. VisitsNamed BY <1>3 DEF VisitsNamed
<1>5. /\ SettledBeforeLinks /\ PayersTook /\ TakersNamed /\ TakerStays
      /\ NothingForgotten /\ WorkIsOfUse
    BY <1>2 DEF Init, StreamInit, SettledBeforeLinks, PayersTook, TakersNamed, TakerStays,
        NothingForgotten, WorkIsOfUse, Pays, At
<1> QED BY <1>1, <1>4, <1>5 DEF FrontierInv, FrontierSound

\* However often a message is redelivered and whoever crashes, two workers that
\* pay the visit of a URL at once were both delivered one message of it
\* (takenBy).
THEOREM OneMessagePays == Spec => []OneMessagePaysAVisit
<1>1. FrontierInv => OneMessagePaysAVisit
    <2> SUFFICES ASSUME FrontierInv, NEW v \in Workers, NEW w \in Workers,
                        Pays(v), Pays(w), URLOf(v) = URLOf(w)
                 PROVE  MessageOf(v) = MessageOf(w)
        BY DEF OneMessagePaysAVisit
    <2>1. MessageOf(v) \in InPlay /\ MessageOf(w) \in InPlay BY DEF Pays, InPlay
    <2>2. MessageOf(v).copy = MessageOf(w).copy
        BY DEF FrontierInv, FrontierSound, PayersTook
    <2> QED BY <2>1, <2>2 DEF FrontierInv, FrontierSound, VisitsNamed, URLOf, MessageOf
<1> QED BY <1>1, InitFrontierInv, NextFrontierInv, PTL DEF Spec

\* A URL once put on the frontier stays there until it is settled: of several
\* messages of it the one that took it is acknowledged only with an outcome,
\* and any other only while that one stays (dropPageVisitTakenByAnother).
THEOREM FrontierForgetsNothing == Spec => []NothingForgotten
<1>1. FrontierInv => NothingForgotten BY DEF FrontierInv, FrontierSound
<1> QED BY <1>1, InitFrontierInv, NextFrontierInv, PTL DEF Spec

----------------------------------------------------------------------------
(* A URL is fetched again only for a cause.  What a message may still lead to  *)
(* is counted: every worker that has it and has not fetched may fetch, and so  *)
(* may the one it will be delivered to.                                      *)

Fetching(m) == {w \in Workers : work[w].stage \in Before /\ MessageOf(w) = m}

\* The stream will deliver the message without another disruption.
Loose(m) == m \in ready \/ (m \in messages /\ ~WorkedOn(m))

Chances(m) == Cardinality(Fetching(m)) + (IF Loose(m) THEN 1 ELSE 0)

ChancesCounted ==
    \A m \in InPlay : Takes(m) => fetches[m.url] + Chances(m) <= Causes(m.url)

UntakenUnfetched == \A u \in URLs : taker[u] = 0 => fetches[u] = 0

\* The inductive invariant.
RefetchInv == FrontierInv /\ UntakenUnfetched /\ ChancesCounted /\ EveryRefetchHasACause

\* What is counted are numbers.
LEMMA CountsType ==
    ASSUME TypeOK
    PROVE  /\ \A m : IsFiniteSet(Fetching(m)) /\ Cardinality(Fetching(m)) \in Nat
           /\ \A m : Chances(m) \in Nat
           /\ \A u \in URLs : Causes(u) \in Nat /\ Causes(u) > 0 /\ fetches[u] \in Nat
<1>1. ASSUME NEW m PROVE IsFiniteSet(Fetching(m)) /\ Cardinality(Fetching(m)) \in Nat
    <2>1. Fetching(m) \subseteq Workers BY DEF Fetching
    <2> QED BY <2>1, FiniteAssumption, FS_Subset, FS_CardinalityType
<1>2. ASSUME NEW m PROVE Chances(m) \in Nat BY <1>1 DEF Chances
<1>3. ASSUME NEW u \in URLs PROVE Causes(u) \in Nat /\ Causes(u) > 0 /\ fetches[u] \in Nat
    <2>1. deferrals[u] \in Nat /\ attempts[u] \in Nat /\ disruptions \in Nat
        BY BoundsAssumption DEF TypeOK
    <2> QED BY <2>1 DEF TypeOK, Causes
<1> QED BY <1>1, <1>2, <1>3

\* Fewer workers on the way to a fetch, and fewer chances of one; a message
\* that comes loose is one more.
LEMMA ChancesFall ==
    ASSUME TypeOK, NEW m, Fetching(m)' \subseteq Fetching(m)
    PROVE  /\ Chances(m)' \in Nat /\ Chances(m)' <= Chances(m) + 1
           /\ (Loose(m)' => Loose(m)) => Chances(m)' <= Chances(m)
<1> DEFINE f == Fetching(m)
           g == Fetching(m)'
<1>1. IsFiniteSet(f) /\ Cardinality(f) \in Nat BY CountsType
<1>2. Cardinality(g) \in Nat /\ Cardinality(g) <= Cardinality(f)
    BY <1>1, FS_Subset, FS_CardinalityType
<1>3. Chances(m) = Cardinality(f) + (IF Loose(m) THEN 1 ELSE 0) BY DEF Chances
<1>4. Chances(m)' = Cardinality(g) + (IF Loose(m)' THEN 1 ELSE 0) BY DEF Chances
<1> HIDE DEF f, g
<1> QED BY <1>1, <1>2, <1>3, <1>4

\* A worker that moves on, or leaves, is no new chance of a fetch.
LEMMA NoMoreFetching ==
    ASSUME TypeOK, NEW w \in Workers, NEW x, work' = [work EXCEPT ![w] = x], NEW m,
           x.stage \in Before => work[w].stage \in Before /\ x.message = MessageOf(w)
    PROVE  Fetching(m)' \subseteq Fetching(m)
BY HandChanges DEF Fetching, MessageOf

\* The chances stay counted where each message gains none without a cause.
LEMMA CountKept ==
    ASSUME RefetchInv, TypeOK', CausesStand, UNCHANGED fetches,
           \A u \in URLs : taker'[u] = 0 => taker[u] = 0,
           \A m \in InPlay' : Takes(m)' =>
               /\ m.url \in URLs /\ Chances(m)' \in Nat
               /\ \/ /\ m \in InPlay /\ Takes(m)
                     /\ \/ Chances(m)' <= Chances(m)
                        \/ Chances(m)' <= Chances(m) + 1 /\ Causes(m.url) + 1 <= Causes(m.url)'
                  \/ taker[m.url] = 0 /\ Chances(m)' <= 1
    PROVE  UntakenUnfetched' /\ ChancesCounted' /\ EveryRefetchHasACause'
<1> USE DEF RefetchInv, FrontierInv
<1>1. UntakenUnfetched' BY DEF UntakenUnfetched
<1>2. ASSUME NEW u \in URLs
      PROVE  /\ Causes(u) \in Nat /\ Causes(u) > 0 /\ fetches[u] \in Nat
             /\ Causes(u)' \in Nat /\ Causes(u) <= Causes(u)' /\ fetches'[u] = fetches[u]
    <2>1. Causes(u) \in Nat /\ Causes(u) > 0 /\ fetches[u] \in Nat BY CountsType
    <2>2. deferrals'[u] \in Nat /\ attempts'[u] \in Nat /\ disruptions' \in Nat
        BY BoundsAssumption DEF TypeOK
    <2>3. Causes(u)' \in Nat BY <2>2 DEF Causes
    <2> QED BY <2>1, <2>3 DEF CausesStand
<1>3. \A u \in URLs : fetches[u] <= Causes(u)
    BY DEF EveryRefetchHasACause, Causes
<1>4. EveryRefetchHasACause'
    <2>1. \A u \in URLs : fetches'[u] <= Causes(u)' BY <1>2, <1>3
    <2> QED BY <2>1 DEF EveryRefetchHasACause, Causes
<1>5. ASSUME NEW m \in InPlay', Takes(m)'
      PROVE  fetches'[m.url] + Chances(m)' <= Causes(m.url)'
    <2>1. m.url \in URLs /\ Chances(m) \in Nat /\ Chances(m)' \in Nat BY <1>5, CountsType
    <2>2. CASE m \in InPlay /\ Takes(m)
        <3>1. fetches[m.url] + Chances(m) <= Causes(m.url) BY <2>2 DEF ChancesCounted
        <3>2. \/ Chances(m)' <= Chances(m)
              \/ Chances(m)' <= Chances(m) + 1 /\ Causes(m.url) + 1 <= Causes(m.url)'
              \/ taker[m.url] = 0 /\ Chances(m)' <= 1
            BY <1>5
        <3>3. /\ Causes(m.url) \in Nat /\ Causes(m.url) > 0 /\ fetches[m.url] \in Nat
              /\ Causes(m.url)' \in Nat /\ Causes(m.url) <= Causes(m.url)'
              /\ fetches'[m.url] = fetches[m.url]
            BY <1>2, <2>1
        <3>4. taker[m.url] = 0 => fetches[m.url] = 0 BY <2>1 DEF UntakenUnfetched
        <3> QED BY <2>1, <3>1, <3>2, <3>3, <3>4
    <2>3. CASE taker[m.url] = 0 /\ Chances(m)' <= 1
        <3>1. fetches'[m.url] = 0 BY <1>2, <2>1, <2>3 DEF UntakenUnfetched
        <3>2. Causes(m.url) \in Nat /\ Causes(m.url) > 0 /\ Causes(m.url)' \in Nat
              /\ Causes(m.url) <= Causes(m.url)'
            BY <1>2, <2>1
        <3> QED BY <2>1, <2>3, <3>1, <3>2
    <2> QED BY <1>5, <2>2, <2>3
<1>6. ChancesCounted' BY <1>5 DEF ChancesCounted
<1> QED BY <1>1, <1>4, <1>6


\* A worker's message leaves nothing behind but itself, which may come loose.
LEMMA LeavingChances ==
    ASSUME TypeOK, NEW w \in Workers, ~At(w, "idle"), Leave(w),
           messages' \subseteq messages, ready' \subseteq ready \cup {MessageOf(w)},
           NEW m
    PROVE  /\ Chances(m)' \in Nat /\ Chances(m)' <= Chances(m) + 1
           /\ m # MessageOf(w) \/ m \notin messages' \cup ready' => Chances(m)' <= Chances(m)
<1>1. work' = [work EXCEPT ![w] = Idle] BY DEF Leave
<1>2. work'[w] = Idle /\ \A v \in Workers : v # w => work'[v] = work[v] BY <1>1, HandChanges
<1>3. Fetching(m)' \subseteq Fetching(m) BY <1>2 DEF Fetching, MessageOf, Idle, Before
<1>4. m # MessageOf(w) /\ WorkedOn(m) => WorkedOn(m)' BY <1>2 DEF WorkedOn, At, MessageOf
<1>5. m # MessageOf(w) \/ m \notin messages' \cup ready' => (Loose(m)' => Loose(m))
    BY <1>4 DEF Loose
<1> QED BY <1>3, <1>5, ChancesFall

\* A worker past its claim goes on without a new chance of a fetch.
LEMMA GoingOnChances ==
    ASSUME TypeOK, NEW w \in Workers, NEW x, ~At(w, "idle"), work' = [work EXCEPT ![w] = x],
           x.message = MessageOf(w), x.stage # "idle",
           x.stage \in Before => work[w].stage \in Before,
           NEW m, m \in ready' => m \in ready, m \in messages' => m \in messages
    PROVE  Chances(m)' \in Nat /\ Chances(m)' <= Chances(m)
<1>1. work'[w] = x /\ \A v \in Workers : v # w => work'[v] = work[v] BY HandChanges
<1>2. Fetching(m)' \subseteq Fetching(m) BY NoMoreFetching
<1>3. WorkedOn(m) => WorkedOn(m)' BY <1>1 DEF WorkedOn, At, MessageOf
<1> QED BY <1>2, <1>3, ChancesFall DEF Loose

\* A message just put is loose, and nobody had it.
LEMMA PuttingChances ==
    ASSUME FrontierInv, UntakenUnfetched, NEW u \in URLs, NEW d \in Nat, PutNew(u, d),
           \A m : Fetching(m)' \subseteq Fetching(m),
           InPlay' \subseteq InPlay \cup messages', UNCHANGED taker,
           NEW m \in InPlay', Takes(m)', m \notin InPlay
    PROVE  m.url \in URLs /\ Chances(m)' = 1 /\ taker[m.url] = 0
<1> DEFINE new == [url |-> u, copy |-> copies[u] + 1, depth |-> d]
<1> USE DEF FrontierInv, FrontierSound
<1>1. m = new BY InPlayType DEF PutNew
<1>2. m.url = u /\ m.copy = copies[u] + 1 BY <1>1
<1>3. taker[u] \in Nat /\ copies[u] \in Nat BY BoundsAssumption DEF TypeOK, StreamTypeOK
<1>4. taker[u] = 0 BY <1>2, <1>3 DEF Takes, TakersNamed
<1>5. Fetching(m) = {} BY DEF Fetching, InPlay, Before, At
<1>6. Cardinality(Fetching(m)') = 0 BY <1>5, FS_EmptySet
<1>7. Loose(m)' BY <1>1 DEF Loose, PutNew
<1> QED BY <1>2, <1>4, <1>6, <1>7 DEF Chances

\* A worker that leaves its message does not lose count of it: it finishes with
\* it, or there is a cause for a further fetch.
LEMMA LeavingKeepsCount ==
    ASSUME RefetchInv, TypeOK', NEW w \in Workers,
           Finishes(w) \/ Drops(w) \/ GivesBack(w)
    PROVE  UntakenUnfetched' /\ ChancesCounted' /\ EveryRefetchHasACause'
<1> DEFINE m == MessageOf(w)
<1> USE DEF RefetchInv, FrontierInv
<1>1. /\ ~At(w, "idle") /\ Leave(w) /\ UNCHANGED <<taker, fetches>>
      /\ messages' \subseteq messages /\ ready' \subseteq ready \cup {m}
      /\ Finishes(w) => m \notin messages' \cup ready'
    BY DEF Finishes, Drops, GivesBack, GiveBack, Acknowledge, Return, stream
<1>2. m.url = URLOf(w) /\ m.url \in URLs BY <1>1, JobType DEF URLOf, MessageOf
<1>3. CauseFor(w) \/ Finishes(w) BY DEF Drops, GivesBack, EveryCauseCounted, CauseFor
<1>4. CausesStand
    <2>1. \A u \in URLs : Causes(u) \in Nat /\ Causes(u)' \in Nat
        BY BoundsAssumption DEF TypeOK, Causes
    <2> QED BY <2>1 DEF Finishes, Drops, GivesBack, CausesStand, EveryCauseCounted
<1>5. work' = [work EXCEPT ![w] = Idle] BY <1>1 DEF Leave
<1>6. InPlay' \subseteq InPlay BY <1>1, <1>5, InPlayAfter, InPlayType DEF Idle
<1> HIDE DEF m
<1>7. ASSUME NEW n \in InPlay', Takes(n)'
      PROVE  /\ n.url \in URLs /\ Chances(n)' \in Nat
             /\ n \in InPlay /\ Takes(n)
             /\ \/ Chances(n)' <= Chances(n)
                \/ Chances(n)' <= Chances(n) + 1 /\ Causes(n.url) + 1 <= Causes(n.url)'
    <2>1. n \in InPlay /\ n.url \in URLs BY <1>6, <1>7, InPlayType DEF PageVisits
    <2>2. Takes(n) BY <1>1, <1>7 DEF Takes
    <2>3. /\ Chances(n)' \in Nat /\ Chances(n)' <= Chances(n) + 1
          /\ n # m \/ n \notin messages' \cup ready' => Chances(n)' <= Chances(n)
        BY <1>1, LeavingChances DEF m
    <2>4. CASE n = m
        <3>1. Causes(n.url) + 1 <= Causes(n.url)' \/ Finishes(w)
            BY <1>2, <1>3, <2>1, <2>4 DEF CauseFor
        <3>2. Finishes(w) => n \notin messages' \cup ready' BY <1>1, <2>4
        <3> QED BY <2>1, <2>2, <2>3, <3>1, <3>2
    <2> QED BY <2>1, <2>2, <2>3, <2>4
<1> QED BY <1>1, <1>4, <1>7, CountKept

\* A page visit put on the stream, by a worker or the order's intake, leaves the
\* chances of the others.
LEMMA AddingKeepsCount ==
    ASSUME RefetchInv, TypeOK', CausesStand, UNCHANGED <<taker, fetches>>, Additions,
           InPlay' \subseteq InPlay \cup messages',
           \A m : Fetching(m)' \subseteq Fetching(m) /\ (WorkedOn(m) => WorkedOn(m)')
    PROVE  UntakenUnfetched' /\ ChancesCounted' /\ EveryRefetchHasACause'
<1> USE DEF RefetchInv, FrontierInv
<1>1. ASSUME NEW m \in InPlay, Takes(m)'
      PROVE  /\ m.url \in URLs /\ Chances(m)' \in Nat
             /\ Takes(m) /\ Chances(m)' <= Chances(m)
    <2>1. m.url \in URLs BY InPlayType DEF PageVisits
    <2>2. Takes(m) BY <1>1 DEF Takes
    <2>3. (m \in ready' => m \in ready) /\ (m \in messages' => m \in messages)
        <3>1. ASSUME NEW u \in URLs, NEW d \in Nat, PutNew(u, d)
              PROVE  (m \in ready' => m \in ready) /\ (m \in messages' => m \in messages)
            <4>1. m.copy <= copies[m.url] /\ m.copy \in Nat /\ copies[m.url] \in Nat
                BY <2>1, InPlayType, BoundsAssumption
                    DEF FrontierSound, VisitsNamed, PageVisits, TypeOK, StreamTypeOK
            <4>2. m # [url |-> u, copy |-> copies[u] + 1, depth |-> d] BY <4>1
            <4> QED BY <3>1, <4>2 DEF PutNew
        <3> QED BY <3>1 DEF Additions
    <2>4. Loose(m)' => Loose(m) BY <2>3 DEF Loose
    <2> QED BY <2>1, <2>2, <2>4, ChancesFall
<1>2. ASSUME NEW m \in InPlay', Takes(m)', m \notin InPlay
      PROVE  m.url \in URLs /\ Chances(m)' = 1 /\ taker[m.url] = 0
    <2>1. PICK u \in URLs, d \in Nat : PutNew(u, d)
        BY <1>2, InPlayType DEF Additions
    <2> QED BY <1>2, <2>1, PuttingChances
<1>3. ASSUME NEW m \in InPlay', Takes(m)'
      PROVE  /\ m.url \in URLs /\ Chances(m)' \in Nat
             /\ \/ /\ m \in InPlay /\ Takes(m)
                   /\ \/ Chances(m)' <= Chances(m)
                      \/ Chances(m)' <= Chances(m) + 1 /\ Causes(m.url) + 1 <= Causes(m.url)'
                \/ taker[m.url] = 0 /\ Chances(m)' <= 1
    <2>1. CASE m \in InPlay BY <1>1, <1>3, <2>1
    <2>2. CASE m \notin InPlay BY <1>2, <1>3, <2>2
    <2> QED BY <2>1, <2>2
<1> QED BY <1>3, CountKept

\* So does a worker that goes on.
LEMMA GoingOnKeepsCount ==
    ASSUME RefetchInv, TypeOK', NEW w \in Workers, NEW x, GoesOn(w, x)
    PROVE  UntakenUnfetched' /\ ChancesCounted' /\ EveryRefetchHasACause'
<1> USE DEF RefetchInv, FrontierInv
<1>1. /\ work' = [work EXCEPT ![w] = x] /\ x.message = MessageOf(w) /\ x.stage # "idle"
      /\ ~At(w, "idle") /\ (x.stage \in Before => work[w].stage \in Before)
      /\ Additions /\ CausesStand /\ UNCHANGED <<taker, fetches>>
    BY DEF GoesOn
<1>2. work'[w] = x /\ \A v \in Workers : v # w => work'[v] = work[v] BY <1>1, HandChanges
<1>3. \A m : Fetching(m)' \subseteq Fetching(m) BY <1>1, NoMoreFetching
<1>4. \A m : WorkedOn(m) => WorkedOn(m)' BY <1>1, <1>2 DEF WorkedOn, At, MessageOf
<1>5. MessageOf(w) \in InPlay BY <1>1 DEF InPlay
<1>6. InPlay' \subseteq InPlay \cup messages' BY <1>1, <1>5, InPlayAfter
<1> QED BY <1>1, <1>3, <1>4, <1>6, AddingKeepsCount

\* A message that comes back while it is worked on is a disruption.
LEMMA ElsewhereKeepsCount ==
    ASSUME RefetchInv, TypeOK', Elsewhere
    PROVE  UntakenUnfetched' /\ ChancesCounted' /\ EveryRefetchHasACause'
<1> USE DEF RefetchInv, FrontierInv
<1>1. UNCHANGED <<work, taker, fetches>> /\ CausesStand BY DEF Elsewhere
<1>2. \A m : /\ Fetching(m)' \subseteq Fetching(m)
             /\ WorkedOn(m)' <=> WorkedOn(m)
    BY <1>1 DEF Fetching, WorkedOn, At, MessageOf
<1>3. InPlay' \subseteq InPlay \cup messages' BY <1>1 DEF InPlay, At, MessageOf
<1>4. CASE Additions BY <1>1, <1>2, <1>3, <1>4, AddingKeepsCount
<1>5. ASSUME NEW m \in messages, Return(m), WorkedOn(m) => EveryCauseCounted
      PROVE  UntakenUnfetched' /\ ChancesCounted' /\ EveryRefetchHasACause'
    <2>1. messages' = messages /\ ready' = ready \cup {m} BY <1>5 DEF Return
    <2>2. InPlay' \subseteq InPlay BY <1>3, <2>1, InPlayType
    <2>3. ASSUME NEW n \in InPlay', Takes(n)'
          PROVE  /\ n.url \in URLs /\ Chances(n)' \in Nat
                 /\ n \in InPlay /\ Takes(n)
                 /\ \/ Chances(n)' <= Chances(n)
                    \/ Chances(n)' <= Chances(n) + 1 /\ Causes(n.url) + 1 <= Causes(n.url)'
        <3>1. n \in InPlay /\ n.url \in URLs BY <2>2, InPlayType DEF PageVisits
        <3>2. Takes(n) BY <1>1, <2>3 DEF Takes
        <3>3. /\ Chances(n)' \in Nat /\ Chances(n)' <= Chances(n) + 1
              /\ (Loose(n)' => Loose(n)) => Chances(n)' <= Chances(n)
            BY <1>2, ChancesFall
        <3>4. (Loose(n)' => Loose(n)) \/ (n = m /\ WorkedOn(m)) BY <1>2, <2>1 DEF Loose
        <3> QED BY <1>5, <3>1, <3>2, <3>3, <3>4 DEF EveryCauseCounted
    <2> QED BY <1>1, <2>3, CountKept
<1> QED BY <1>4, <1>5 DEF Elsewhere

\* A message delivered is no longer loose: its chance passes to the worker.
LEMMA TakingKeepsCount ==
    ASSUME RefetchInv, TypeOK', NEW w \in Workers, NEW m \in messages, TakeMessage(w, m)
    PROVE  UntakenUnfetched' /\ ChancesCounted' /\ EveryRefetchHasACause'
<1> DEFINE x == [stage |-> "claim", message |-> m, answer |-> "none", left |-> {}]
<1> USE DEF RefetchInv, FrontierInv
<1>1. /\ work' = [work EXCEPT ![w] = x] /\ At(w, "idle") /\ messages' = messages
      /\ m \in ready /\ ready' = ready \ {m}
      /\ UNCHANGED <<taker, fetches, deferrals, attempts, disruptions>>
    BY DEF TakeMessage, Deliver, records, account
<1>2. work'[w] = x /\ \A v \in Workers : v # w => work'[v] = work[v] BY <1>1, HandChanges
<1>3. x.stage = "claim" /\ x.message = m OBVIOUS
<1> HIDE DEF x
<1>4. CausesStand BY <1>1, CausesCount DEF Calm
<1>5. InPlay' \subseteq InPlay BY <1>1, <1>3, InPlayAfter, InPlayType
<1>6. Fetching(m)' = Fetching(m) \cup {w} /\ w \notin Fetching(m)
    BY <1>1, <1>2, <1>3 DEF Fetching, MessageOf, At, Before
<1>7. Cardinality(Fetching(m) \cup {w}) = Cardinality(Fetching(m)) + 1
    BY <1>6, CountsType, FS_AddElement
<1>8. Loose(m) /\ ~Loose(m)'
    <2>1. WorkedOn(m)' BY <1>2, <1>3 DEF WorkedOn, At, MessageOf
    <2> QED BY <1>1, <2>1 DEF Loose
<1>9. Chances(m)' = Chances(m)
    <2>1. Chances(m)' = Cardinality(Fetching(m) \cup {w}) + 0 BY <1>6, <1>8 DEF Chances
    <2>2. Chances(m) = Cardinality(Fetching(m)) + 1 BY <1>8 DEF Chances
    <2>3. Cardinality(Fetching(m)) \in Nat BY CountsType
    <2> QED BY <1>7, <2>1, <2>2, <2>3
<1>10. ASSUME NEW n \in InPlay', Takes(n)'
       PROVE  /\ n.url \in URLs /\ Chances(n)' \in Nat
              /\ n \in InPlay /\ Takes(n) /\ Chances(n)' <= Chances(n)
    <2>1. n \in InPlay /\ n.url \in URLs BY <1>5, InPlayType DEF PageVisits
    <2>2. Takes(n) BY <1>1, <1>10 DEF Takes
    <2>3. CASE n = m BY <1>9, <2>1, <2>2, <2>3, CountsType
    <2>4. CASE n # m
        <3>1. Fetching(n)' \subseteq Fetching(n) BY <1>2, <1>3, <2>4 DEF Fetching, MessageOf
        <3>2. WorkedOn(n) => WorkedOn(n)' BY <1>1, <1>2 DEF WorkedOn, At, MessageOf
        <3>3. Loose(n)' => Loose(n) BY <1>1, <3>2 DEF Loose
        <3> QED BY <2>1, <2>2, <3>1, <3>3, ChancesFall
    <2> QED BY <2>3, <2>4
<1> QED BY <1>1, <1>4, <1>10, CountKept

\* A message that takes its URL keeps what it was allowed; the others of that
\* URL may no longer.
LEMMA ClaimKeepsCount ==
    ASSUME RefetchInv, TypeOK', NEW w \in Workers, Claim(w)
    PROVE  UntakenUnfetched' /\ ChancesCounted' /\ EveryRefetchHasACause'
<1> DEFINE x == [work[w] EXCEPT !.stage = "take"]
           m == MessageOf(w)
<1> USE DEF RefetchInv, FrontierInv
<1>1. /\ work' = [work EXCEPT ![w] = x] /\ messages' = messages /\ ready' = ready
      /\ taker' = [taker EXCEPT ![m.url] = m.copy] /\ Takes(m) /\ ~At(w, "idle")
      /\ work[w].stage \in Before
      /\ UNCHANGED <<fetches, deferrals, attempts, disruptions>>
    BY DEF Claim, Go, stream, account, URLOf, MessageOf, At, Before
<1>2. work[w] \in Job /\ m \in PageVisits /\ m.url \in URLs /\ m.copy \in Nat /\ m.copy # 0
    BY <1>1, JobType, BoundsAssumption DEF URLOf, MessageOf
<1>3. x.stage = "take" /\ x.message = m BY <1>2 DEF Job, MessageOf
<1>4. m \in InPlay BY <1>1 DEF InPlay
<1> HIDE DEF x
<1>5. CausesStand BY <1>1, CausesCount DEF Calm
<1>6. InPlay' \subseteq InPlay BY <1>1, <1>3, <1>4, InPlayAfter, InPlayType
<1>7. \A u \in URLs : taker'[u] = IF u = m.url THEN m.copy ELSE taker[u]
    BY <1>1, <1>2 DEF TypeOK
<1>8. \A n : Chances(n)' \in Nat /\ Chances(n)' <= Chances(n)
    BY <1>1, <1>3, GoingOnChances
<1> HIDE DEF m
<1>9. \A u \in URLs : taker'[u] = 0 => taker[u] = 0 BY <1>2, <1>7
<1>10. ASSUME NEW n \in InPlay', Takes(n)'
       PROVE  /\ n.url \in URLs /\ Chances(n)' \in Nat
              /\ n \in InPlay /\ Takes(n) /\ Chances(n)' <= Chances(n)
    <2>1. n \in InPlay /\ n.url \in URLs BY <1>6, InPlayType DEF PageVisits
    <2>2. CASE n.url # m.url BY <1>7, <1>8, <1>10, <2>1, <2>2 DEF Takes
    <2>3. CASE n.url = m.url
        <3>1. n.copy = m.copy BY <1>2, <1>7, <1>10, <2>1, <2>3 DEF Takes
        <3>2. n = m BY <1>4, <2>1, <2>3, <3>1 DEF FrontierSound, VisitsNamed
        <3> QED BY <1>1, <1>8, <2>1, <3>2
    <2> QED BY <2>2, <2>3
<1> QED BY <1>1, <1>5, <1>9, <1>10, CountKept

\* A worker that fetches uses the chance it was: the message it pays for is the
\* only one that may lead to a fetch of its URL.
LEMMA FetchKeepsCount ==
    ASSUME RefetchInv, TypeOK', NEW w \in Workers, NEW a \in AnswerKinds, Fetch(w, a)
    PROVE  UntakenUnfetched' /\ ChancesCounted' /\ EveryRefetchHasACause'
<1> DEFINE x == [work[w] EXCEPT !.stage = StageAfter(a), !.answer = a,
                                !.left = FoundBy(MessageOf(w), a)]
<1> USE DEF RefetchInv, FrontierInv
<1>0. PICK m : m = MessageOf(w) OBVIOUS
<1>1. /\ work' = [work EXCEPT ![w] = x] /\ messages' = messages /\ ready' = ready
      /\ work[w].stage = "fetch" /\ fetches' = [fetches EXCEPT ![m.url] = @ + 1]
      /\ UNCHANGED <<taker, deferrals, attempts, disruptions>>
    BY <1>0 DEF Fetch, stream, records, URLOf, MessageOf, At
<1>2. work[w] \in Job /\ m \in PageVisits /\ m.url \in URLs /\ m.copy \in Nat /\ m.copy # 0
    BY <1>0, <1>1, JobType, BoundsAssumption DEF URLOf, MessageOf, At
<1>3. x.stage = StageAfter(a) /\ x.message = m /\ x.stage \notin Before /\ x.stage # "idle"
    BY <1>0, <1>2 DEF Job, MessageOf, StageAfter, AnswerKinds, OriginAnswered, Before
<1>4. m \in InPlay BY <1>0, <1>1 DEF InPlay, At
<1> HIDE DEF x
<1>5. CausesStand BY <1>1, CausesCount DEF Calm
<1>6. InPlay' \subseteq InPlay BY <1>1, <1>3, <1>4, InPlayAfter, InPlayType
<1>7. work'[w] = x /\ \A v \in Workers : v # w => work'[v] = work[v] BY <1>1, HandChanges
<1>8. \A n : Chances(n)' \in Nat /\ Chances(n)' <= Chances(n)
    BY <1>0, <1>1, <1>3, GoingOnChances DEF At
<1>9. taker[m.url] = m.copy
    <2>1. Pays(w) BY <1>1 DEF Pays, At
    <2> QED BY <1>0, <2>1 DEF FrontierSound, PayersTook, URLOf, MessageOf
<1>10. \A n : Fetching(n)' = Fetching(n) \ {w}
    BY <1>3, <1>7 DEF Fetching, MessageOf
<1>11. w \in Fetching(m) BY <1>0, <1>1 DEF Fetching, Before
<1>12. Chances(m)' + 1 <= Chances(m) /\ Chances(m) \in Nat
    <2>0. PICK f : f = Fetching(m) OBVIOUS
    <2>1. IsFiniteSet(f) /\ Cardinality(f) \in Nat /\ w \in f BY <1>11, <2>0, CountsType
    <2>2. Cardinality(f \ {w}) = Cardinality(f) - 1 BY <2>1, FS_RemoveElement
    <2>3. WorkedOn(m) => WorkedOn(m)'
        BY <1>0, <1>1, <1>3, <1>7 DEF WorkedOn, At, MessageOf
    <2>4. Loose(m)' => Loose(m) BY <1>1, <2>3 DEF Loose
    <2>5. Chances(m) = Cardinality(f) + (IF Loose(m) THEN 1 ELSE 0) BY <2>0 DEF Chances
    <2>6. Chances(m)' = Cardinality(f \ {w}) + (IF Loose(m)' THEN 1 ELSE 0)
        BY <1>10, <2>0 DEF Chances
    <2> QED BY <2>1, <2>2, <2>4, <2>5, <2>6
<1>13. \A u \in URLs : fetches'[u] = IF u = m.url THEN fetches[u] + 1 ELSE fetches[u]
    BY <1>1, <1>2 DEF TypeOK
<1>14. \A u \in URLs :
           /\ Causes(u) \in Nat /\ fetches[u] \in Nat /\ Causes(u)' = Causes(u)
           /\ taker'[u] = taker[u]
    BY <1>1, CountsType DEF Causes
<1>15. m \in InPlay /\ Takes(m) BY <1>4, <1>9 DEF Takes
<1>16. fetches[m.url] + Chances(m) <= Causes(m.url) BY <1>15 DEF ChancesCounted
<1>17. UntakenUnfetched' BY <1>2, <1>9, <1>13, <1>14 DEF UntakenUnfetched
<1>18. EveryRefetchHasACause'
    <2>1. \A n : Chances(n)' \in Nat BY <1>8
    <2>2. fetches[m.url] + 1 <= Causes(m.url) BY <1>2, <1>12, <1>14, <1>16, <2>1
    <2>3. \A u \in URLs : fetches[u] <= Causes(u) BY DEF EveryRefetchHasACause, Causes
    <2>4. \A u \in URLs : fetches'[u] <= Causes(u)' BY <1>13, <1>14, <2>2, <2>3
    <2> QED BY <2>4 DEF EveryRefetchHasACause, Causes
<1>19. ChancesCounted'
    <2> SUFFICES ASSUME NEW n \in InPlay', Takes(n)'
                 PROVE  fetches'[n.url] + Chances(n)' <= Causes(n.url)'
        BY DEF ChancesCounted
    <2>1. n \in InPlay /\ n.url \in URLs /\ n.copy # 0
        BY <1>6, InPlayType, BoundsAssumption DEF PageVisits
    <2>2. Takes(n) BY <1>1 DEF Takes
    <2>3. fetches[n.url] + Chances(n) <= Causes(n.url) BY <2>1, <2>2 DEF ChancesCounted
    <2>4. Chances(n) \in Nat /\ Chances(n)' \in Nat /\ Chances(n)' <= Chances(n)
        BY <1>8, CountsType
    <2>5. CASE n.url # m.url BY <1>13, <1>14, <2>1, <2>3, <2>4, <2>5
    <2>6. CASE n.url = m.url
        <3>1. n.copy = m.copy BY <1>2, <1>9, <2>1, <2>2, <2>6 DEF Takes
        <3>2. n = m BY <1>4, <2>1, <2>6, <3>1 DEF FrontierSound, VisitsNamed
        <3>3. fetches'[n.url] = fetches[n.url] + 1 BY <1>13, <2>1, <2>6
        <3> QED BY <1>12, <1>14, <2>1, <2>3, <2>4, <3>2, <3>3
    <2> QED BY <2>5, <2>6
<1> QED BY <1>17, <1>18, <1>19

\* Every step keeps the invariant.
LEMMA NextRefetchInv == RefetchInv /\ [Next]_vars => RefetchInv'
<1> SUFFICES ASSUME RefetchInv, [Next]_vars PROVE RefetchInv' OBVIOUS
<1>1. FrontierInv' BY NextFrontierInv DEF RefetchInv
<1>2. TypeOK' BY <1>1 DEF FrontierInv
<1>3. Elsewhere \/ \E w \in Workers : WorkerAdvances(w)
    BY StepKinds DEF RefetchInv, FrontierInv, FrontierSound
<1>4. UntakenUnfetched' /\ ChancesCounted' /\ EveryRefetchHasACause'
    BY <1>2, <1>3, TakingKeepsCount, ClaimKeepsCount, GoingOnKeepsCount, FetchKeepsCount,
        LeavingKeepsCount, ElsewhereKeepsCount DEF WorkerAdvances
<1> QED BY <1>1, <1>4 DEF RefetchInv

\* At first nothing was fetched and nothing can be.
LEMMA InitRefetchInv == Init => RefetchInv
<1> SUFFICES ASSUME Init PROVE RefetchInv OBVIOUS
<1>1. FrontierInv BY InitFrontierInv
<1>2. \A u \in URLs : fetches[u] = 0 BY DEF Init
<1>3. InPlay = {} BY DEF Init, StreamInit, Idle, InPlay, At
<1>4. \A u \in URLs : Causes(u) \in Nat BY <1>1, CountsType DEF FrontierInv
<1> QED
    BY <1>1, <1>2, <1>3, <1>4 DEF RefetchInv, UntakenUnfetched, ChancesCounted,
        EveryRefetchHasACause, Causes

\* Whoever crashes and whatever is redelivered, a URL is fetched again only for
\* a deferral or an attempt its limits allow, or because something went wrong:
\* a message leads to one fetch, and comes back only counted.
THEOREM RefetchesHaveCauses == Spec => []EveryRefetchHasACause
<1>1. RefetchInv => EveryRefetchHasACause BY DEF RefetchInv
<1> QED BY <1>1, InitRefetchInv, NextRefetchInv, PTL DEF Spec
=============================================================================
