---------------------------- MODULE ScrapeProofs ----------------------------
(***************************************************************************)
(* Proofs about ScrapePipeline, for any requests, calls, workers, corpora  *)
(* and number of disruptions: its type invariant, that no request is lost, *)
(* that a page call keeps the promise of PageReading, and that it does not *)
(* wait for nothing.  The invariant has a part for each: what keeps a      *)
(* request (NothingDropped); that an outcome on its way to a call is true  *)
(* of the page (FeedSound), which a call relies on when it hears one       *)
(* (CallsSound); and that a reported offer was told (Heard).               *)
(***************************************************************************)
EXTENDS ScrapePipeline, SequenceTheorems, TLAPS

\* A step that leaves the variables of a part alone keeps their types.
LEMMA RequestsFrame ==
  ASSUME RequestsTypeOK, UNCHANGED requestVars PROVE RequestsTypeOK'
BY DEF RequestsTypeOK, requestVars

\* Likewise.
LEMMA WorkFrame ==
  ASSUME WorkTypeOK, UNCHANGED workVars PROVE WorkTypeOK'
BY DEF WorkTypeOK, workVars

\* Likewise.
LEMMA CorpusFrame ==
  ASSUME CorpusTypeOK, UNCHANGED corpusVars PROVE CorpusTypeOK'
BY DEF CorpusTypeOK, corpusVars

\* Likewise.
LEMMA FeedFrame ==
  ASSUME FeedTypeOK, UNCHANGED feedVars PROVE FeedTypeOK'
BY DEF FeedTypeOK, feedVars

\* Likewise.
LEMMA CallFrame ==
  ASSUME CallTypeOK, UNCHANGED callVars PROVE CallTypeOK'
BY DEF CallTypeOK, callVars

\* The budget of disruptions is never overdrawn.
LEMMA DisruptionsBounded ==
  ASSUME disruptions \in 0..MaxDisruptions, Disrupts \/ Undisturbed
  PROVE  disruptions' \in 0..MaxDisruptions
BY DisruptionsAssumption DEF Disrupts, Undisturbed

\* What a worker at work has in its hands.
LEMMA MessageTyped ==
  ASSUME WorkTypeOK, NEW w \in Workers, work[w] # None
  PROVE  /\ work[w] = [message |-> work[w].message, stage |-> work[w].stage]
         /\ work[w].message \in Messages /\ work[w].stage \in Stages
         /\ work[w].message.request \in Requests
BY DEF WorkTypeOK, Messages

\* A schedule holds the request it was given.
LEMMA ScheduleTyped ==
  ASSUME RequestsTypeOK, NEW STATE r, r \in Requests, NEW STATE d, d \in Ages,
  ScheduleScrape(r, d)
  PROVE  schedule' # None /\ schedule'.request = r
<1>1. [request |-> r, age |-> d, due |-> FALSE] \in [request : Requests, age : Ages,
     due : BOOLEAN]
  OBVIOUS
<1> QED  BY <1>1, NoneAssumption DEF ScheduleScrape

\* A message put on the stream keeps the stream's types.
LEMMA PutTyped ==
  ASSUME RequestsTypeOK, NEW r \in Requests, NEW STATE d, d \in Ages, NEW STATE taken,
         Put(r, d, taken), schedule' \in {None, schedule}
  PROVE  RequestsTypeOK'
BY DEF RequestsTypeOK, Put

\* So does the clock, which changes no scheduled request.
LEMMA TickTyped ==
  ASSUME RequestsTypeOK, Tick
  PROVE  /\ RequestsTypeOK'
         /\ schedule # None => schedule' # None /\ schedule'.request = schedule.request
<1> DEFINE Schedules == [request : Requests, age : Ages, due : BOOLEAN]
<1>1. \A a \in Ages : Older(a) \in Ages
  BY WindowAssumption DEF Ages, Older, NotDeferred
<1>2. ASSUME NEW s \in Schedules
      PROVE  LET later == [s EXCEPT !.age = Older(@), !.due = TRUE]
             IN  later \in Schedules /\ later.request = s.request
  BY <1>1
<1>3. CASE schedule = None
  BY <1>1, <1>3 DEF RequestsTypeOK, Tick
<1>4. CASE schedule \in Schedules
  <2>1. schedule' \in Schedules /\ schedule'.request = schedule.request
    BY <1>2, <1>4, NoneAssumption DEF Tick
  <2> QED  BY <1>1, <2>1, NoneAssumption DEF RequestsTypeOK, Tick
<1> QED  BY <1>3, <1>4 DEF RequestsTypeOK

\* What a worker that defers has in its hands.
LEMMA DeferTyped ==
  ASSUME RequestsTypeOK, WorkTypeOK, NEW w \in Workers, Defer(w)
  PROVE  /\ work[w] # None /\ "done" \in Stages
         /\ work[w].message \in Messages /\ work[w].message.request \in Requests
         /\ DeferredFor(work[w].message) \in Ages
<1>1. work[w] # None /\ "done" \in Stages
  BY DEF Defer, At, Stages
<1>2. work[w].message \in Messages /\ work[w].message.request \in Requests
  BY <1>1, MessageTyped
<1>3. age[work[w].message] \in Ages /\ 0 \in Ages
  BY <1>2, WindowAssumption DEF RequestsTypeOK, Ages, NotDeferred
<1> QED  BY <1>1, <1>2, <1>3 DEF DeferredFor

\* Telling an outcome keeps the types of the inboxes.
LEMMA TellTyped ==
  ASSUME inbox \in [Calls -> Seq(Receipts)], NEW STATE outcome, outcome \in Receipts,
  Tell(outcome)
  PROVE  inbox' \in [Calls -> Seq(Receipts)]
<1>1. \A c \in Calls : Append(inbox[c], outcome) \in Seq(Receipts)
  BY AppendProperties
<1> QED  BY <1>1 DEF Tell

\* An inbox may be empty.
LEMMA EmptyInbox ==
  <<>> \in Seq(Receipts)
OBVIOUS

\* Every step keeps the types.
LEMMA TypeStep ==
  ASSUME TypeOK, [Next]_vars
  PROVE  TypeOK'
<1>0. RequestsTypeOK /\ WorkTypeOK /\ CorpusTypeOK /\ FeedTypeOK /\ CallTypeOK /\ disruptions \in 0..MaxDisruptions
  BY DEF TypeOK
<1> USE CallsAssumption
<1>1. ASSUME NEW w \in Workers, OfferPage(w) PROVE TypeOK'
  <2>1. WorkTypeOK'
    <3>1. work[w] # None /\ "done" \in Stages
      BY <1>1 DEF OfferPage, At, Stages
    <3>2. work[w].message.request \in Requests /\ work' \in [Workers -> {None} \cup [message : Messages, stage : Stages]]
      BY <1>0, <1>1, <3>1, MessageTyped DEF WorkTypeOK, OfferPage, Proceed
    <3> QED  BY <1>0, <1>1, <3>2 DEF WorkTypeOK, OfferPage
  <2>2. CorpusTypeOK'
    BY <1>0, <1>1 DEF CorpusTypeOK, OfferPage, At, WorkTypeOK, Messages, Offers
  <2>3. UNCHANGED <<requestVars, feedVars, callVars>> /\ (Disrupts \/ Undisturbed)
    BY <1>1 DEF OfferPage, requestVars, workVars, corpusVars, feedVars, callVars
  <2> QED  BY <1>0, <2>1, <2>2, <2>3, RequestsFrame, FeedFrame, CallFrame,
       DisruptionsBounded DEF TypeOK
<1>2. ASSUME NEW w \in Workers, GiveUp(w) PROVE TypeOK'
  <2>1. WorkTypeOK'
    BY <1>0, <1>2 DEF WorkTypeOK, GiveUp, At, Proceed, Stages, Messages
  <2>2. UNCHANGED <<requestVars, corpusVars, feedVars,
       callVars>> /\ (Disrupts \/ Undisturbed)
    BY <1>2 DEF GiveUp, requestVars, workVars, corpusVars, feedVars, callVars
  <2> QED  BY <1>0, <2>1, <2>2, RequestsFrame, CorpusFrame, FeedFrame, CallFrame,
       DisruptionsBounded DEF TypeOK
<1>3. ASSUME NEW w \in Workers, Defer(w) PROVE TypeOK'
  <2>1. /\ work[w] # None /\ work[w].message \in Messages /\ work[w].message.request \in Requests
        /\ "done" \in Stages /\ DeferredFor(work[w].message) \in Ages
    BY <1>0, <1>3, DeferTyped
  <2>2. RequestsTypeOK'
    BY <1>0, <1>3, <2>1 DEF RequestsTypeOK, Defer, ScheduleScrape
  <2>3. WorkTypeOK'
    <3>1. work' \in [Workers -> {None} \cup [message : Messages, stage : Stages]]
      BY <1>0, <1>3, <2>1, MessageTyped DEF WorkTypeOK, Defer, Proceed
    <3>2. schedule # None => schedule.request \in Requests
      BY <1>0 DEF RequestsTypeOK
    <3> QED  BY <1>0, <1>3, <3>1, <3>2 DEF WorkTypeOK, Defer
  <2>4. UNCHANGED <<corpusVars, feedVars, callVars>> /\ (Disrupts \/ Undisturbed)
    BY <1>3 DEF Defer, requestVars, workVars, corpusVars, feedVars, callVars
  <2> QED  BY <1>0, <2>2, <2>3, <2>4, CorpusFrame, FeedFrame, CallFrame,
       DisruptionsBounded DEF TypeOK
<1>4. ASSUME NEW w \in Workers, ReportFailure(w) PROVE TypeOK'
  <2>1. WorkTypeOK'
    BY <1>0, <1>4 DEF WorkTypeOK, ReportFailure, At, Proceed, Stages, Messages
  <2>2. CorpusTypeOK'
    BY <1>0, <1>4 DEF CorpusTypeOK, ReportFailure
  <2>3. UNCHANGED <<requestVars, feedVars, callVars>> /\ (Disrupts \/ Undisturbed)
    BY <1>4 DEF ReportFailure, requestVars, workVars, corpusVars, feedVars, callVars
  <2> QED  BY <1>0, <2>1, <2>2, <2>3, RequestsFrame, FeedFrame, CallFrame,
       DisruptionsBounded DEF TypeOK
<1>5. ASSUME NEW w \in Workers, AnnounceScrapeFailure(w) PROVE TypeOK'
  <2>1. WorkTypeOK'
    BY <1>0, <1>5 DEF WorkTypeOK, AnnounceScrapeFailure, At, Proceed, Stages, Messages
  <2>2. FeedTypeOK'
    BY <1>0, <1>5, TellTyped DEF FeedTypeOK, AnnounceScrapeFailure, NoCorpus,
         Receipts, Outcomes
  <2>3. UNCHANGED <<requestVars, corpusVars, callVars>> /\ (Disrupts \/ Undisturbed)
    BY <1>5 DEF AnnounceScrapeFailure, requestVars, workVars, corpusVars, feedVars,
         callVars
  <2> QED  BY <1>0, <2>1, <2>2, <2>3, RequestsFrame, CorpusFrame, CallFrame,
       DisruptionsBounded DEF TypeOK
<1>6. ASSUME NEW w \in Workers, AcknowledgeRequest(w) PROVE TypeOK'
  <2>1. RequestsTypeOK'
    <3>1. CASE Acknowledge(work[w].message, HandsBut(w))
      <4>1. NotDeferred \in Ages
        BY WindowAssumption DEF Ages, NotDeferred
      <4> QED  BY <1>0, <3>1, <4>1 DEF RequestsTypeOK, Acknowledge
    <3>2. CASE ReturnAll({work[w].message})
      BY <1>0, <3>2 DEF RequestsTypeOK, ReturnAll
    <3> QED  BY <1>6, <3>1, <3>2 DEF AcknowledgeRequest
  <2>2. WorkTypeOK'
    BY <1>0, <1>6 DEF WorkTypeOK, AcknowledgeRequest, At, Proceed, Stages, Messages
  <2>3. UNCHANGED <<corpusVars, feedVars, callVars>> /\ (Disrupts \/ Undisturbed)
    BY <1>6 DEF AcknowledgeRequest, requestVars, workVars, corpusVars, feedVars,
         callVars
  <2> QED  BY <1>0, <2>1, <2>2, <2>3, CorpusFrame, FeedFrame, CallFrame,
       DisruptionsBounded DEF TypeOK
<1>7. ASSUME NEW w \in Workers, ReturnRequest(w) PROVE TypeOK'
  <2>1. RequestsTypeOK'
    BY <1>0, <1>7, WindowAssumption DEF RequestsTypeOK, ReturnRequest, ReturnAll,
         Messages, Ages, NotDeferred
  <2>2. WorkTypeOK'
    BY <1>0, <1>7 DEF WorkTypeOK, ReturnRequest, At, Proceed, Stages, Messages
  <2>3. UNCHANGED <<corpusVars, feedVars, callVars>> /\ (Disrupts \/ Undisturbed)
    BY <1>7 DEF ReturnRequest, requestVars, workVars, corpusVars, feedVars, callVars
  <2> QED  BY <1>0, <2>1, <2>2, <2>3, CorpusFrame, FeedFrame, CallFrame,
       DisruptionsBounded DEF TypeOK
<1>8. ASSUME NEW r \in Requests, Delivered(r) PROVE TypeOK'
  <2>1. RequestsTypeOK'
    BY <1>0, <1>8, WindowAssumption DEF RequestsTypeOK, Delivered, TakeRequest,
         Deliver, Messages, Ages, NotDeferred
  <2>2. WorkTypeOK'
    BY <1>0, <1>8 DEF WorkTypeOK, Delivered, TakeRequest, Deliver, RequestsTypeOK,
         Stages, Messages
  <2>3. UNCHANGED <<corpusVars, feedVars, callVars>> /\ (Disrupts \/ Undisturbed)
    BY <1>8 DEF Delivered, TakeRequest, requestVars, workVars, corpusVars, feedVars,
         callVars
  <2> QED  BY <1>0, <2>1, <2>2, <2>3, CorpusFrame, FeedFrame, CallFrame,
       DisruptionsBounded DEF TypeOK
<1>9. ASSUME NEW m \in messages \ ready, Overdue(m) PROVE TypeOK'
  <2>1. RequestsTypeOK'
    BY <1>0, <1>9, WindowAssumption DEF RequestsTypeOK, Overdue, AckWaitEnds,
         ReturnAll, Messages, Ages, NotDeferred
  <2>2. UNCHANGED <<workVars, corpusVars, feedVars,
       callVars>> /\ (Disrupts \/ Undisturbed)
    BY <1>9 DEF Overdue, requestVars, workVars, corpusVars, feedVars, callVars
  <2> QED  BY <1>0, <2>1, <2>2, WorkFrame, CorpusFrame, FeedFrame, CallFrame,
       DisruptionsBounded DEF TypeOK
<1>10. ASSUME Crash PROVE TypeOK'
  <2>1. RequestsTypeOK'
    BY <1>0, <1>10, WindowAssumption DEF RequestsTypeOK, Crash, ReturnAll, Messages,
         Ages, NotDeferred
  <2>2. WorkTypeOK'
    BY <1>0, <1>10 DEF WorkTypeOK, Crash, At, Proceed, Stages, Messages
  <2>3. FeedTypeOK'
    BY <1>0, <1>10 DEF FeedTypeOK, Crash, Ends
  <2>4. UNCHANGED <<corpusVars, callVars>> /\ (Disrupts \/ Undisturbed)
    BY <1>10 DEF Crash, requestVars, workVars, corpusVars, feedVars, callVars
  <2> QED  BY <1>0, <2>1, <2>2, <2>3, <2>4, CorpusFrame, CallFrame, DisruptionsBounded
  DEF TypeOK
<1>11. ASSUME ComesBack PROVE TypeOK'
  <2>1. RequestsTypeOK'
    BY <1>0, <1>11, PutTyped DEF RequestsTypeOK, ComesBack, ScheduleFires, Messages,
         Ages, NotDeferred
  <2>2. UNCHANGED <<workVars, corpusVars, feedVars,
       callVars>> /\ (Disrupts \/ Undisturbed)
    BY <1>11 DEF ComesBack, requestVars, workVars, corpusVars, feedVars, callVars
  <2> QED  BY <1>0, <2>1, <2>2, WorkFrame, CorpusFrame, FeedFrame, CallFrame,
       DisruptionsBounded DEF TypeOK
<1>12. ASSUME TimePasses PROVE TypeOK'
  <2>1. RequestsTypeOK'
    BY <1>0, <1>12, TickTyped DEF RequestsTypeOK, TimePasses, Messages, Ages,
         NotDeferred
  <2>2. UNCHANGED <<workVars, corpusVars, feedVars,
       callVars>> /\ (Disrupts \/ Undisturbed)
    BY <1>12 DEF TimePasses, requestVars, workVars, corpusVars, feedVars, callVars
  <2> QED  BY <1>0, <2>1, <2>2, WorkFrame, CorpusFrame, FeedFrame, CallFrame,
       DisruptionsBounded DEF TypeOK
<1>13. ASSUME CarryReceipt PROVE TypeOK'
  <2>1. FeedTypeOK'
    BY <1>0, <1>13, TellTyped, HeadTailProperties DEF FeedTypeOK, CarryReceipt
  <2>2. UNCHANGED <<requestVars, workVars, corpusVars,
       callVars>> /\ (Disrupts \/ Undisturbed)
    BY <1>13 DEF CarryReceipt, requestVars, workVars, corpusVars, feedVars, callVars
  <2> QED  BY <1>0, <2>1, <2>2, RequestsFrame, WorkFrame, CorpusFrame, CallFrame,
       DisruptionsBounded DEF TypeOK
<1>14. ASSUME NEW c \in Corpora, NEW o \in offers, TakeIn(c, o) PROVE TypeOK'
  <2>1. CorpusTypeOK'
    <3>1. o \in Offers /\ o.request \in Requests
      BY <1>0 DEF CorpusTypeOK, Offers
    <3>2. \A stage \in {"kept", "rejected"} :
             [offer |-> o, stage |-> stage] \in [offer : Offers, stage : IntakeStages]
      BY <3>1 DEF IntakeStages
    <3>3. CASE Keep(c, o) /\ UNCHANGED refused
      BY <1>0, <1>14, <3>1, <3>2, <3>3 DEF CorpusTypeOK, TakeIn, Keep
    <3>4. CASE Reject(c, o) /\ UNCHANGED held
      BY <1>0, <1>14, <3>1, <3>2, <3>4 DEF CorpusTypeOK, TakeIn, Reject
    <3> QED  BY <1>14, <3>3, <3>4 DEF TakeIn
  <2>2. UNCHANGED <<requestVars, workVars, feedVars,
       callVars>> /\ (Disrupts \/ Undisturbed)
    BY <1>14 DEF TakeIn, requestVars, workVars, corpusVars, feedVars, callVars
  <2> QED  BY <1>0, <2>1, <2>2, RequestsFrame, WorkFrame, FeedFrame, CallFrame,
       DisruptionsBounded DEF TypeOK
<1>15. ASSUME NEW c \in Corpora, SendReceipt(c) PROVE TypeOK'
  <2>1. CorpusTypeOK'
    BY <1>0, <1>15 DEF CorpusTypeOK, SendReceipt, AtIntake, IntakeStages
  <2>2. FeedTypeOK'
    <3>1. [corpus |-> c, outcome |-> intake[c].stage] \in Receipts
      BY <1>15 DEF SendReceipt, AtIntake, Receipts, Outcomes
    <3>2. Append(receipts, [corpus |-> c,
         outcome |-> intake[c].stage]) \in Seq(Receipts)
      BY <1>0, <3>1, AppendProperties DEF FeedTypeOK
    <3> QED  BY <1>0, <1>15, <3>2 DEF FeedTypeOK, SendReceipt
  <2>3. UNCHANGED <<requestVars, workVars, callVars>> /\ (Disrupts \/ Undisturbed)
    BY <1>15 DEF SendReceipt, requestVars, workVars, corpusVars, feedVars, callVars
  <2> QED  BY <1>0, <2>1, <2>2, <2>3, RequestsFrame, WorkFrame, CallFrame,
       DisruptionsBounded DEF TypeOK
<1>16. ASSUME NEW c \in Corpora, AcknowledgeOffer(c) PROVE TypeOK'
  <2>1. CorpusTypeOK'
    BY <1>0, <1>16 DEF CorpusTypeOK, AcknowledgeOffer
  <2>2. UNCHANGED <<requestVars, workVars, feedVars,
       callVars>> /\ (Disrupts \/ Undisturbed)
    BY <1>16 DEF AcknowledgeOffer, requestVars, workVars, corpusVars, feedVars, callVars
  <2> QED  BY <1>0, <2>1, <2>2, RequestsFrame, WorkFrame, FeedFrame, CallFrame,
       DisruptionsBounded DEF TypeOK
<1>17. ASSUME NEW c \in Corpora, OfferComesBack(c) PROVE TypeOK'
  <2>1. CorpusTypeOK'
    BY <1>0, <1>17 DEF CorpusTypeOK, OfferComesBack
  <2>2. UNCHANGED <<requestVars, workVars, feedVars,
       callVars>> /\ (Disrupts \/ Undisturbed)
    BY <1>17 DEF OfferComesBack, requestVars, workVars, corpusVars, feedVars, callVars
  <2> QED  BY <1>0, <2>1, <2>2, RequestsFrame, WorkFrame, FeedFrame, CallFrame,
       DisruptionsBounded DEF TypeOK
<1>18. ASSUME NEW k \in Calls, Recall(k) PROVE TypeOK'
  <2>1. FeedTypeOK'
    BY <1>0, <1>18, EmptyInbox DEF FeedTypeOK, Recall, Ends
  <2>2. CallTypeOK'
    BY <1>0, <1>18 DEF CallTypeOK, Recall, CallStages, Ends, Answers, CorpusTypeOK
  <2>3. UNCHANGED <<requestVars, workVars, corpusVars>> /\ (Disrupts \/ Undisturbed)
    BY <1>18 DEF Recall, requestVars, workVars, corpusVars, feedVars, callVars
  <2> QED  BY <1>0, <2>1, <2>2, <2>3, RequestsFrame, WorkFrame, CorpusFrame,
       DisruptionsBounded DEF TypeOK
<1>19. ASSUME NEW k \in Calls, RecallFails(k) PROVE TypeOK'
  <2>1. FeedTypeOK'
    BY <1>0, <1>19, EmptyInbox DEF FeedTypeOK, RecallFails, Ends
  <2>2. CallTypeOK'
    BY <1>0, <1>19 DEF CallTypeOK, RecallFails, CallStages, Ends, Answers, CorpusTypeOK
  <2>3. UNCHANGED <<requestVars, workVars, corpusVars>> /\ (Disrupts \/ Undisturbed)
    BY <1>19 DEF RecallFails, requestVars, workVars, corpusVars, feedVars, callVars
  <2> QED  BY <1>0, <2>1, <2>2, <2>3, RequestsFrame, WorkFrame, CorpusFrame,
       DisruptionsBounded DEF TypeOK
<1>20. ASSUME NEW k \in Calls, Listen(k) PROVE TypeOK'
  <2>1. CallTypeOK'
    BY <1>0, <1>20 DEF CallTypeOK, Listen, CallStages, Ends, Answers, CorpusTypeOK
  <2>2. UNCHANGED <<requestVars, workVars, corpusVars,
       feedVars>> /\ (Disrupts \/ Undisturbed)
    BY <1>20 DEF Listen, requestVars, workVars, corpusVars, feedVars, callVars
  <2> QED  BY <1>0, <2>1, <2>2, RequestsFrame, WorkFrame, CorpusFrame, FeedFrame,
       DisruptionsBounded DEF TypeOK
<1>21. ASSUME NEW k \in Calls, AskToScrape(k) PROVE TypeOK'
  <2>1. RequestsTypeOK'
    <3>1. NotDeferred \in Ages /\ k \in Requests
      BY WindowAssumption DEF Ages, NotDeferred
    <3>2. CASE Put(k, NotDeferred, InHand) /\ UNCHANGED schedule
      BY <1>0, <3>1, <3>2, PutTyped
    <3>3. CASE UNCHANGED requestVars
      BY <1>0, <3>3, RequestsFrame
    <3> QED  BY <1>21, <3>2, <3>3 DEF AskToScrape
  <2>2. CallTypeOK'
    BY <1>0, <1>21 DEF CallTypeOK, AskToScrape, CallStages, Ends, Answers, CorpusTypeOK
  <2>3. UNCHANGED <<workVars, corpusVars, feedVars>> /\ (Disrupts \/ Undisturbed)
    BY <1>21 DEF AskToScrape, requestVars, workVars, corpusVars, feedVars, callVars
  <2> QED  BY <1>0, <2>1, <2>2, <2>3, WorkFrame, CorpusFrame, FeedFrame,
       DisruptionsBounded DEF TypeOK
<1>22. ASSUME NEW k \in Calls, Hear(k) PROVE TypeOK'
  <2>1. FeedTypeOK'
    <3>1. inbox[k] \in Seq(Receipts) /\ inbox[k] # <<>>
      BY <1>0, <1>22 DEF FeedTypeOK, Hear
    <3>2. Tail(inbox[k]) \in Seq(Receipts)
      BY <3>1, HeadTailProperties
    <3>3. inbox' \in [Calls -> Seq(Receipts)]
      BY <1>0, <1>22, <3>2, EmptyInbox DEF FeedTypeOK, Hear, Ends
    <3> QED  BY <1>0, <1>22, <3>3 DEF FeedTypeOK, Hear
  <2>2. CallTypeOK'
    BY <1>0, <1>22 DEF CallTypeOK, Hear, CallStages, Ends, Answers, CorpusTypeOK
  <2>3. UNCHANGED <<requestVars, workVars, corpusVars>> /\ (Disrupts \/ Undisturbed)
    BY <1>22 DEF Hear, requestVars, workVars, corpusVars, feedVars, callVars
  <2> QED  BY <1>0, <2>1, <2>2, <2>3, RequestsFrame, WorkFrame, CorpusFrame,
       DisruptionsBounded DEF TypeOK
<1>23. ASSUME NEW k \in Calls, RecallFetched(k) PROVE TypeOK'
  <2>1. FeedTypeOK'
    BY <1>0, <1>23, EmptyInbox DEF FeedTypeOK, RecallFetched, Ends
  <2>2. CallTypeOK'
    BY <1>0, <1>23 DEF CallTypeOK, RecallFetched, CallStages, Ends, Answers,
         CorpusTypeOK
  <2>3. UNCHANGED <<requestVars, workVars, corpusVars>> /\ (Disrupts \/ Undisturbed)
    BY <1>23 DEF RecallFetched, requestVars, workVars, corpusVars, feedVars, callVars
  <2> QED  BY <1>0, <2>1, <2>2, <2>3, RequestsFrame, WorkFrame, CorpusFrame,
       DisruptionsBounded DEF TypeOK
<1>24. ASSUME NEW k \in Calls, WaitEnds(k) PROVE TypeOK'
  <2>1. FeedTypeOK'
    BY <1>0, <1>24, EmptyInbox DEF FeedTypeOK, WaitEnds, Ends
  <2>2. CallTypeOK'
    BY <1>0, <1>24 DEF CallTypeOK, WaitEnds, CallStages, Ends, Answers, CorpusTypeOK
  <2>3. UNCHANGED <<requestVars, workVars, corpusVars>> /\ (Disrupts \/ Undisturbed)
    BY <1>24 DEF WaitEnds, requestVars, workVars, corpusVars, feedVars, callVars
  <2> QED  BY <1>0, <2>1, <2>2, <2>3, RequestsFrame, WorkFrame, CorpusFrame,
       DisruptionsBounded DEF TypeOK
<1>25. ASSUME NEW r \in Requests, PublishRequest(r) PROVE TypeOK'
  <2>1. RequestsTypeOK'
    <3>1. NotDeferred \in Ages
      BY WindowAssumption DEF Ages, NotDeferred
    <3> QED  BY <1>0, <1>25, <3>1, PutTyped DEF PublishRequest
  <2>2. CallTypeOK'
    BY <1>0, <1>25 DEF CallTypeOK, PublishRequest, CallStages, Ends, Answers,
         CorpusTypeOK
  <2>3. UNCHANGED <<workVars, corpusVars, feedVars>> /\ (Disrupts \/ Undisturbed)
    BY <1>25 DEF PublishRequest, requestVars, workVars, corpusVars, feedVars, callVars
  <2> QED  BY <1>0, <2>1, <2>2, <2>3, WorkFrame, CorpusFrame, FeedFrame,
       DisruptionsBounded DEF TypeOK
<1>26. CASE UNCHANGED vars
  BY <1>0, <1>26, RequestsFrame, WorkFrame, CorpusFrame, FeedFrame, CallFrame
     DEF vars, TypeOK
<1> QED
  BY <1>1, <1>2, <1>3, <1>4, <1>5, <1>6, <1>7, <1>8, <1>9, <1>10, <1>11, <1>12,
       <1>13, <1>14, <1>15, <1>16, <1>17, <1>18, <1>19, <1>20, <1>21, <1>22, <1>23,
       <1>24, <1>25, <1>26 DEF Next, Scrape, TakeOfferIn

----------------------------------------------------------------------------
\* What keeps a request.
Kept(r) == r \in settled \cup superseded \/ Live(r) \/ (schedule # None /\ schedule.request = r)

\* The strengthening of NothingLost: a request is kept by something other than a
\* message that is about to be acknowledged.
NothingDropped ==
    /\ \A r \in asked : Kept(r)
    /\ \A w \in Workers : At(w, "announcing") => work[w].message.request \in settled

\* The initial states satisfy the types and drop nothing.
LEMMA InitInv ==
  Init => TypeOK /\ NothingDropped
<1> SUFFICES ASSUME Init PROVE TypeOK /\ NothingDropped
  OBVIOUS
<1>1. RequestsTypeOK
  <2>1. NotDeferred \in Ages
    BY WindowAssumption DEF Ages, NotDeferred
  <2>2. messages \subseteq Messages /\ ready \subseteq messages /\ schedule = None
    BY DEF Init, RequestsInit
  <2>3. age \in [Messages -> Ages]
    BY <2>1 DEF Init, RequestsInit
  <2> QED  BY <2>2, <2>3 DEF RequestsTypeOK
<1>2. WorkTypeOK /\ CorpusTypeOK /\ CallTypeOK
  BY DEF Init, WorkTypeOK, CorpusTypeOK, CallTypeOK, CallStages
<1>3. FeedTypeOK
  BY EmptyInbox DEF Init, FeedTypeOK
<1>4. disruptions \in 0..MaxDisruptions
  BY DisruptionsAssumption DEF Init
<1>5. NothingDropped
  BY DEF Init, NothingDropped, At
<1> QED  BY <1>1, <1>2, <1>3, <1>4, <1>5 DEF TypeOK

\* A step that leaves the stream, the workers and the requests alone drops nothing.
LEMMA NothingDroppedFrame ==
  ASSUME NothingDropped, UNCHANGED <<messages, schedule, workVars, asked>>
  PROVE  NothingDropped'
BY DEF NothingDropped, Kept, Live, At, workVars

\* A message put on the stream is in no worker's hands.
LEMMA PutIsLive ==
  ASSUME NEW r \in Requests, NEW STATE d, Put(r, d, InHand), UNCHANGED work
  PROVE  Live(r)' /\ \A q : Live(q) => Live(q)'
<1>1. PICK m \in Messages \ (messages \cup InHand) : m.request = r /\ messages' = messages \cup {m}
  BY DEF Put
<1>2. \A w \in Workers : work[w] # None => work[w].message # m
  <2> SUFFICES ASSUME NEW w \in Workers, work[w] # None, work[w].message = m PROVE FALSE
    OBVIOUS
  <2>1. w \in Workers \ {None}
    BY NoneAssumption
  <2> QED  BY <1>1, <2>1 DEF InHand, HandsBut
<1>3. Live(r)'
  BY <1>1, <1>2 DEF Live, At
<1> QED  BY <1>1, <1>3 DEF Live, At

\* Every step drops nothing.
LEMMA NothingDroppedStep ==
  ASSUME TypeOK, NothingDropped, [Next]_vars
  PROVE  NothingDropped'
<1>0. RequestsTypeOK /\ WorkTypeOK
  BY DEF TypeOK
<1>1. ASSUME NEW w \in Workers, OfferPage(w) PROVE NothingDropped'
  BY <1>0, <1>1, MessageTyped DEF NothingDropped, Kept, Live, At, Proceed,
       WorkTypeOK, RequestsTypeOK, OfferPage, workVars, callVars, requestVars
<1>2. ASSUME NEW w \in Workers, GiveUp(w) PROVE NothingDropped'
  BY <1>0, <1>2, MessageTyped DEF NothingDropped, Kept, Live, At, Proceed,
       WorkTypeOK, RequestsTypeOK, GiveUp, workVars, callVars, requestVars
<1>3. ASSUME NEW w \in Workers, Defer(w) PROVE NothingDropped'
  <2> DEFINE q == work[w].message.request
  <2>1. schedule' # None /\ schedule'.request = q
    <3>1. q \in Requests /\ DeferredFor(work[w].message) \in Ages
      BY <1>0, <1>3, DeferTyped
    <3> QED  BY <1>0, <1>3, <3>1, ScheduleTyped DEF Defer
  <2>2. ASSUME NEW r \in asked PROVE Kept(r)'
    <3>1. CASE r = q
      BY <2>1, <3>1 DEF Kept
    <3>2. CASE r # q /\ Live(r)
      BY <1>0, <1>3, <3>2 DEF Defer, Proceed, Live, At, Kept, WorkTypeOK
    <3>3. CASE r # q /\ ~Live(r)
      BY <1>3, <3>3 DEF NothingDropped, Kept, Defer
    <3> QED  BY <3>1, <3>2, <3>3
  <2>3. \A v \in Workers : At(v,
       "announcing")' => work[v].message.request \in settled /\ work'[v] = work[v]
    BY <1>0, <1>3 DEF NothingDropped, Defer, Proceed, At, WorkTypeOK
  <2> QED  BY <1>3, <2>2, <2>3 DEF NothingDropped, Defer, callVars
<1>4. ASSUME NEW w \in Workers, ReportFailure(w) PROVE NothingDropped'
  BY <1>0, <1>4, MessageTyped DEF NothingDropped, Kept, Live, At, Proceed,
       WorkTypeOK, RequestsTypeOK, ReportFailure, workVars, callVars, requestVars
<1>5. ASSUME NEW w \in Workers, AnnounceScrapeFailure(w) PROVE NothingDropped'
  BY <1>0, <1>5, MessageTyped DEF NothingDropped, Kept, Live, At, Proceed,
       WorkTypeOK, RequestsTypeOK, AnnounceScrapeFailure, workVars, callVars,
       requestVars
<1>6. ASSUME NEW w \in Workers, AcknowledgeRequest(w) PROVE NothingDropped'
  BY <1>0, <1>6, MessageTyped DEF NothingDropped, Kept, Live, At, Proceed,
       WorkTypeOK, RequestsTypeOK, AcknowledgeRequest, Acknowledge, ReturnAll,
       workVars, callVars, requestVars
<1>7. ASSUME NEW w \in Workers, ReturnRequest(w) PROVE NothingDropped'
  BY <1>0, <1>7, MessageTyped DEF NothingDropped, Kept, Live, At, Proceed,
       WorkTypeOK, RequestsTypeOK, ReturnRequest, ReturnAll, workVars, callVars,
       requestVars
<1>8. ASSUME NEW r \in Requests, Delivered(r) PROVE NothingDropped'
  BY <1>0, <1>8, MessageTyped DEF NothingDropped, Kept, Live, At, Proceed,
       WorkTypeOK, RequestsTypeOK, Delivered, TakeRequest, Deliver, workVars,
       callVars, requestVars
<1>9. ASSUME NEW m \in messages \ ready, Overdue(m) PROVE NothingDropped'
  BY <1>9, NothingDroppedFrame DEF Overdue, workVars, callVars, requestVars,
       AckWaitEnds, ReturnAll
<1>10. ASSUME Crash PROVE NothingDropped'
  BY <1>0, <1>10, MessageTyped DEF NothingDropped, Kept, Live, At, Proceed,
       WorkTypeOK, RequestsTypeOK, Crash, ReturnAll, workVars, callVars, requestVars
<1>11. ASSUME ComesBack PROVE NothingDropped'
  <2>1. schedule # None /\ UNCHANGED workVars /\ UNCHANGED asked
    BY <1>11 DEF ComesBack, ScheduleFires, callVars
  <2>2. PICK q \in Requests : q = schedule.request /\ Put(q, schedule.age, InHand)
    BY <1>0, <1>11, <2>1 DEF ComesBack, ScheduleFires, RequestsTypeOK
  <2>3. Live(q)' /\ \A r : Live(r) => Live(r)'
    BY <2>1, <2>2, PutIsLive DEF workVars
  <2>4. \A r : Kept(r) => Kept(r)'
    BY <2>1, <2>2, <2>3 DEF Kept, workVars
  <2> QED  BY <2>1, <2>4 DEF NothingDropped, At, workVars
<1>12. ASSUME TimePasses PROVE NothingDropped'
  <2>1. schedule # None => schedule' # None /\ schedule'.request = schedule.request
    BY <1>0, <1>12, TickTyped DEF TimePasses
  <2>2. \A r : Live(r) => Live(r)'
    BY <1>12 DEF TimePasses, Tick, Live, At, workVars
  <2>3. \A r : Kept(r) => Kept(r)'
    BY <1>12, <2>1, <2>2 DEF Kept, TimePasses, workVars
  <2> QED  BY <1>12, <2>3 DEF NothingDropped, At, TimePasses, workVars, callVars
<1>13. ASSUME CarryReceipt PROVE NothingDropped'
  BY <1>13, NothingDroppedFrame DEF CarryReceipt, workVars, callVars, requestVars
<1>14. ASSUME NEW c \in Corpora, NEW o \in offers, TakeIn(c, o) PROVE NothingDropped'
  BY <1>14, NothingDroppedFrame DEF TakeIn, workVars, callVars, requestVars
<1>15. ASSUME NEW c \in Corpora, SendReceipt(c) PROVE NothingDropped'
  BY <1>15, NothingDroppedFrame DEF SendReceipt, workVars, callVars, requestVars
<1>16. ASSUME NEW c \in Corpora, AcknowledgeOffer(c) PROVE NothingDropped'
  BY <1>16, NothingDroppedFrame DEF AcknowledgeOffer, workVars, callVars, requestVars
<1>17. ASSUME NEW c \in Corpora, OfferComesBack(c) PROVE NothingDropped'
  BY <1>17, NothingDroppedFrame DEF OfferComesBack, workVars, callVars, requestVars
<1>18. ASSUME NEW k \in Calls, Recall(k) PROVE NothingDropped'
  BY <1>18, NothingDroppedFrame DEF Recall, workVars, callVars, requestVars
<1>19. ASSUME NEW k \in Calls, RecallFails(k) PROVE NothingDropped'
  BY <1>19, NothingDroppedFrame DEF RecallFails, workVars, callVars, requestVars
<1>20. ASSUME NEW k \in Calls, Listen(k) PROVE NothingDropped'
  BY <1>20, NothingDroppedFrame DEF Listen, workVars, callVars, requestVars
<1>21. ASSUME NEW k \in Calls, AskToScrape(k) PROVE NothingDropped'
  <2>1. CASE Put(k, NotDeferred,
       InHand) /\ asked' = asked \cup {k} /\ UNCHANGED schedule
    <3>1. Live(k)' /\ \A r : Live(r) => Live(r)'
      BY <1>21, <2>1, CallsAssumption, PutIsLive DEF AskToScrape, workVars
    <3> QED  BY <1>21, <2>1, <3>1 DEF NothingDropped, Kept, At, AskToScrape, workVars
  <2>2. CASE UNCHANGED <<requestVars, asked>>
    BY <1>21, <2>2, NothingDroppedFrame DEF AskToScrape, requestVars
  <2> QED  BY <1>21, <2>1, <2>2 DEF AskToScrape
<1>22. ASSUME NEW k \in Calls, Hear(k) PROVE NothingDropped'
  BY <1>22, NothingDroppedFrame DEF Hear, workVars, callVars, requestVars
<1>23. ASSUME NEW k \in Calls, RecallFetched(k) PROVE NothingDropped'
  BY <1>23, NothingDroppedFrame DEF RecallFetched, workVars, callVars, requestVars
<1>24. ASSUME NEW k \in Calls, WaitEnds(k) PROVE NothingDropped'
  BY <1>24, NothingDroppedFrame DEF WaitEnds, workVars, callVars, requestVars
<1>25. ASSUME NEW r \in Requests, PublishRequest(r) PROVE NothingDropped'
  <2>1. Live(r)' /\ \A q : Live(q) => Live(q)'
    BY <1>25, PutIsLive DEF PublishRequest, workVars
  <2> QED  BY <1>25, <2>1 DEF NothingDropped, Kept, At, PublishRequest, workVars
<1>26. CASE UNCHANGED vars
  BY <1>26, NothingDroppedFrame DEF vars, requestVars, workVars, callVars
<1> QED
  BY <1>1, <1>2, <1>3, <1>4, <1>5, <1>6, <1>7, <1>8, <1>9, <1>10, <1>11, <1>12,
       <1>13, <1>14, <1>15, <1>16, <1>17, <1>18, <1>19, <1>20, <1>21, <1>22, <1>23,
       <1>24, <1>25, <1>26 DEF Next, Scrape, TakeOfferIn

----------------------------------------------------------------------------
\* An outcome that decides is true of the page.
Sound(outcome) ==
    Decides(outcome) => IF outcome.outcome = "kept" THEN held # None ELSE refused

AllSound(outcomes) == \A i \in DOMAIN outcomes : Sound(outcomes[i])

\* Outcomes on their way to a call, from the worker or the corpus on, are true.
FeedSound ==
    /\ \A w \in Workers : At(w, "announcing") => refused
    /\ \A c \in Corpora : c = Markdown =>
          /\ AtIntake(c, "kept") => held # None
          /\ AtIntake(c, "rejected") => refused
    /\ AllSound(receipts)
    /\ \A c \in Calls : AllSound(inbox[c])

\* A call that heard of a kept page finds one, and only an ended call answered.
CallsSound ==
    \A c \in Calls :
        /\ call[c] = "fetched" => held # None
        /\ call[c] = "ended" <=> answer[c] # None

\* The inductive invariant.
ScrapeInv == TypeOK /\ NothingDropped /\ FeedSound /\ CallsSound

\* A step takes an offer in, reports a failure, or leaves the page as it was.
LEMMA CorpusSteps ==
  ASSUME [Next]_vars
  PROVE  \/ \E c \in Corpora : \E o \in offers : TakeIn(c, o)
         \/ \E w \in Workers : ReportFailure(w)
         \/ UNCHANGED <<held, refused>>
BY DEF Next, Scrape, TakeOfferIn, vars, corpusVars, TakeRequest, OfferPage, GiveUp,
     Defer, AnnounceScrapeFailure, AcknowledgeRequest, ReturnRequest, Delivered,
     Overdue, Crash, ComesBack, TimePasses, CarryReceipt, SendReceipt,
     AcknowledgeOffer, OfferComesBack, Recall, RecallFails, Listen, AskToScrape,
     Hear, RecallFetched, WaitEnds, PublishRequest

\* The corpus never gives up the page, and a refusal stays one.
LEMMA HeldLasts ==
  ASSUME TypeOK, [Next]_vars
  PROVE  (held # None => held' # None) /\ (refused => refused')
<1>1. ASSUME NEW c \in Corpora, NEW o \in offers, TakeIn(c, o)
      PROVE  (held # None => held' # None) /\ (refused => refused')
  <2>1. o.request # None
    BY NoneAssumption DEF TypeOK, CorpusTypeOK, Offers
  <2>2. CASE Keep(c, o) /\ UNCHANGED refused
    BY <2>1, <2>2 DEF Keep
  <2>3. CASE Reject(c, o) /\ UNCHANGED held
    BY <2>3 DEF Reject
  <2> QED  BY <1>1, <2>2, <2>3 DEF TakeIn
<1>2. ASSUME NEW w \in Workers, ReportFailure(w)
      PROVE  (held # None => held' # None) /\ (refused => refused')
  BY <1>2 DEF ReportFailure
<1>3. CASE UNCHANGED <<held, refused>>
  BY <1>3
<1>4. (\E c \in Corpora : \E o \in offers : TakeIn(c,
     o)) \/ (\E w \in Workers : ReportFailure(w))
      \/ UNCHANGED <<held, refused>>
  BY CorpusSteps
<1> QED  BY <1>1, <1>2, <1>3, <1>4

\* A sound outcome may join sound ones.
LEMMA AppendSound ==
  ASSUME NEW s \in Seq(Receipts), NEW outcome \in Receipts, AllSound(s), Sound(outcome)
  PROVE  AllSound(Append(s, outcome))
BY AppendProperties DEF AllSound

\* One may leave them.
LEMMA TailSound ==
  ASSUME NEW s \in Seq(Receipts), s # <<>>, AllSound(s)
  PROVE  AllSound(Tail(s)) /\ Sound(Head(s)) /\ Head(s) \in Receipts
BY HeadTailProperties DEF AllSound

\* The outcome a call reads next is sound.
LEMMA HeadSound ==
  ASSUME FeedTypeOK, FeedSound, NEW k \in Calls, inbox[k] # <<>>
  PROVE  Sound(Head(inbox[k])) /\ Head(inbox[k]) \in Receipts
<1>1. PICK s \in Seq(Receipts) : s = inbox[k]
  BY DEF FeedTypeOK
<1> QED  BY <1>1, TailSound DEF FeedSound

\* What was sound stays sound.
LEMMA SoundLasts ==
  ASSUME TypeOK, [Next]_vars
  PROVE  /\ \A outcome : Sound(outcome) => Sound(outcome)'
         /\ \A s : AllSound(s) => AllSound(s)'
<1>1. \A outcome : Sound(outcome) => Sound(outcome)'
  BY HeldLasts DEF Sound, Decides
<1> QED  BY <1>1 DEF AllSound

\* Every step keeps the feed sound.
LEMMA FeedSoundStep ==
  ASSUME ScrapeInv, [Next]_vars
  PROVE  FeedSound'
<1>0. TypeOK /\ FeedSound /\ WorkTypeOK /\ CorpusTypeOK /\ FeedTypeOK
  BY DEF ScrapeInv, TypeOK
<1>1. /\ held # None => held' # None
      /\ refused => refused'
      /\ \A outcome : Sound(outcome) => Sound(outcome)'
      /\ \A s : AllSound(s) => AllSound(s)'
  BY <1>0, HeldLasts, SoundLasts
<1>2. \A w \in Workers : At(w, "announcing")' => refused'
  <2>1. ASSUME NEW w \in Workers, ReportFailure(w) PROVE refused'
    BY <2>1 DEF ReportFailure
  <2>2. CASE \A w \in Workers : At(w, "announcing")' => At(w, "announcing")
    BY <1>0, <1>1, <2>2 DEF FeedSound
  <2>3. (\E w \in Workers : ReportFailure(w)) \/ \A w \in Workers : At(w,
       "announcing")' => At(w, "announcing")
    <3>1. ASSUME NEW w \in Workers, OfferPage(w)
          PROVE  \A v \in Workers : At(v, "announcing")' => At(v, "announcing")
      BY <1>0, <3>1 DEF OfferPage, WorkTypeOK, At, Proceed
    <3>2. ASSUME NEW w \in Workers, GiveUp(w)
          PROVE  \A v \in Workers : At(v, "announcing")' => At(v, "announcing")
      BY <1>0, <3>2 DEF GiveUp, WorkTypeOK, At, Proceed
    <3>3. ASSUME NEW w \in Workers, Defer(w)
          PROVE  \A v \in Workers : At(v, "announcing")' => At(v, "announcing")
      BY <1>0, <3>3 DEF Defer, WorkTypeOK, At, Proceed
    <3>4. ASSUME NEW w \in Workers, AnnounceScrapeFailure(w)
          PROVE  \A v \in Workers : At(v, "announcing")' => At(v, "announcing")
      BY <1>0, <3>4 DEF AnnounceScrapeFailure, WorkTypeOK, At, Proceed
    <3>5. ASSUME NEW w \in Workers, AcknowledgeRequest(w)
          PROVE  \A v \in Workers : At(v, "announcing")' => At(v, "announcing")
      BY <1>0, <3>5 DEF AcknowledgeRequest, WorkTypeOK, At, Proceed
    <3>6. ASSUME NEW w \in Workers, ReturnRequest(w)
          PROVE  \A v \in Workers : At(v, "announcing")' => At(v, "announcing")
      BY <1>0, <3>6 DEF ReturnRequest, WorkTypeOK, At, Proceed
    <3>7. ASSUME NEW r \in Requests, Delivered(r)
          PROVE  \A v \in Workers : At(v, "announcing")' => At(v, "announcing")
      BY <1>0, <3>7 DEF Delivered, WorkTypeOK, At, Proceed, TakeRequest
    <3>8. ASSUME Crash
          PROVE  \A v \in Workers : At(v, "announcing")' => At(v, "announcing")
      BY <1>0, <3>8 DEF Crash, WorkTypeOK, At, Proceed
    <3>9. (UNCHANGED work) \/ (\E w \in Workers : Scrape(w) \/ ReturnRequest(w)) \/ (\E r \in Requests : Delivered(r)) \/ Crash
      BY DEF Next, TakeOfferIn, vars, workVars, Overdue, ComesBack, TimePasses,
           CarryReceipt, TakeIn, SendReceipt, AcknowledgeOffer, OfferComesBack,
           Recall, RecallFails, Listen, AskToScrape, Hear, RecallFetched, WaitEnds,
           PublishRequest
    <3> QED  BY <3>1, <3>2, <3>3, <3>4, <3>5, <3>6, <3>7, <3>8, <3>9 DEF Scrape, At
  <2> QED  BY <2>1, <2>2, <2>3
<1>3. \A c \in Corpora : c = Markdown =>
          /\ AtIntake(c, "kept")' => held' # None
          /\ AtIntake(c, "rejected")' => refused'
  <2>1. ASSUME NEW c \in Corpora, NEW o \in offers, TakeIn(c, o) PROVE <1>3!:
    <3>1. o.request # None
      BY <1>0, NoneAssumption DEF CorpusTypeOK, Offers
    <3>2. CASE Keep(c, o) /\ UNCHANGED refused
      BY <1>0, <1>1, <3>1, <3>2 DEF Keep, FeedSound, AtIntake, CorpusTypeOK
    <3>3. CASE Reject(c, o) /\ UNCHANGED held
      BY <1>0, <1>1, <3>3 DEF Reject, FeedSound, AtIntake, CorpusTypeOK
    <3> QED  BY <2>1, <3>2, <3>3 DEF TakeIn
  <2>2. ASSUME NEW c \in Corpora,
       SendReceipt(c) \/ AcknowledgeOffer(c) \/ OfferComesBack(c) PROVE <1>3!:
    BY <1>0, <1>1, <2>2 DEF SendReceipt, AcknowledgeOffer, OfferComesBack, FeedSound,
         AtIntake, CorpusTypeOK
  <2>3. CASE UNCHANGED intake
    BY <1>0, <1>1, <2>3 DEF FeedSound, AtIntake
  <2>4. (UNCHANGED intake) \/ (\E c \in Corpora : TakeOfferIn(c) \/ OfferComesBack(c))
    BY DEF Next, Scrape, vars, corpusVars, TakeRequest, OfferPage, GiveUp, Defer,
         ReportFailure, AnnounceScrapeFailure, AcknowledgeRequest, ReturnRequest,
         Delivered, Overdue, Crash, ComesBack, TimePasses, CarryReceipt, Recall,
         RecallFails, Listen, AskToScrape, Hear, RecallFetched, WaitEnds, PublishRequest
  <2> QED  BY <2>1, <2>2, <2>3, <2>4 DEF TakeOfferIn
<1>4. AllSound(receipts)'
  <2>1. ASSUME NEW c \in Corpora, SendReceipt(c) PROVE AllSound(receipts)'
    <3>1. CASE UNCHANGED receipts
      BY <1>0, <1>1, <3>1 DEF FeedSound
    <3>2. CASE receipts' = Append(receipts, [corpus |-> c, outcome |-> intake[c].stage])
      <4>1. PICK r \in Receipts : r = [corpus |-> c, outcome |-> intake[c].stage]
        BY <2>1 DEF SendReceipt, AtIntake, Receipts, Outcomes
      <4>2. Sound(r)
        BY <1>0, <2>1, <4>1 DEF SendReceipt, AtIntake, FeedSound, Sound, Decides
      <4>3. PICK s \in Seq(Receipts) : s = receipts
        BY <1>0 DEF FeedTypeOK
      <4>4. AllSound(Append(s, r))
        BY <1>0, <4>2, <4>3, AppendSound DEF FeedSound
      <4>5. AllSound(Append(s, r))'
        BY <1>1, <4>4
      <4> QED  BY <3>2, <4>1, <4>3, <4>5
    <3> QED  BY <2>1, <3>1, <3>2 DEF SendReceipt
  <2>2. CASE receipts' = <<>>
    BY <2>2 DEF AllSound
  <2>3. CASE CarryReceipt
    <3>1. PICK s \in Seq(Receipts) : s = receipts /\ s # <<>>
      BY <1>0, <2>3 DEF FeedTypeOK, CarryReceipt
    <3>2. AllSound(Tail(s))
      BY <1>0, <3>1, TailSound DEF FeedSound
    <3>3. AllSound(Tail(s))'
      BY <1>1, <3>2
    <3> QED  BY <2>3, <3>1, <3>3 DEF CarryReceipt
  <2>4. CASE UNCHANGED receipts
    BY <1>0, <1>1, <2>4 DEF FeedSound
  <2>5. (UNCHANGED receipts) \/ receipts' = <<>> \/ CarryReceipt \/ (\E c \in Corpora : SendReceipt(c))
    BY DEF Next, Scrape, TakeOfferIn, vars, feedVars, TakeRequest, OfferPage, GiveUp,
         Defer, ReportFailure, AnnounceScrapeFailure, AcknowledgeRequest,
         ReturnRequest, Delivered, Overdue, Crash, ComesBack, TimePasses, TakeIn,
         AcknowledgeOffer, OfferComesBack, Recall, RecallFails, Listen, AskToScrape,
         Hear, RecallFetched, WaitEnds, PublishRequest
  <2> QED  BY <2>1, <2>2, <2>3, <2>4, <2>5
<1>5. \A c \in Calls : AllSound(inbox[c])'
  <2>1. ASSUME NEW k \in Calls PROVE AllSound(inbox[k])'
    <3>1. PICK s \in Seq(Receipts) : s = inbox[k]
      BY <1>0 DEF FeedTypeOK
    <3>2. AllSound(s) /\ AllSound(s)'
      BY <1>0, <1>1, <3>1 DEF FeedSound
    <3>3. ASSUME NEW r \in Receipts, Sound(r), Tell(r) PROVE AllSound(inbox[k])'
      <4>1. AllSound(Append(s, r))'
        BY <1>1, <3>2, <3>3, AppendSound
      <4> QED  BY <3>1, <3>2, <3>3, <4>1 DEF Tell
    <3>4. CASE inbox'[k] = <<>>
      BY <3>4 DEF AllSound
    <3>5. CASE inbox'[k] = inbox[k]
      BY <3>1, <3>2, <3>5
    <3>6. CASE inbox[k] # <<>> /\ inbox'[k] = Tail(inbox[k])
      <4>1. AllSound(Tail(s))'
        BY <1>1, <3>1, <3>2, <3>6, TailSound
      <4> QED  BY <3>1, <3>6, <4>1
    <3>7. ASSUME NEW w \in Workers, AnnounceScrapeFailure(w) PROVE AllSound(inbox[k])'
      <4>1. PICK r \in Receipts : r = NoCorpus
        BY DEF NoCorpus, Receipts, Outcomes
      <4>2. Sound(r)
        BY <1>0, <3>7, <4>1 DEF AnnounceScrapeFailure, FeedSound, Sound, NoCorpus
      <4> QED  BY <3>3, <3>5, <3>7, <4>1, <4>2 DEF AnnounceScrapeFailure
    <3>8. CASE CarryReceipt
      <4>1. PICK t \in Seq(Receipts) : t = receipts /\ t # <<>>
        BY <1>0, <3>8 DEF FeedTypeOK, CarryReceipt
      <4>2. PICK r \in Receipts : r = Head(receipts) /\ Sound(r)
        BY <1>0, <4>1, TailSound DEF FeedSound
      <4> QED  BY <3>3, <3>5, <3>8, <4>2 DEF CarryReceipt
    <3>9. ASSUME NEW c \in Calls,
                 Recall(c) \/ RecallFails(c) \/ Hear(c) \/ RecallFetched(c) \/ WaitEnds(c)
          PROVE  inbox'[k] = inbox[k] \/ inbox'[k] = <<>> \/ (inbox[k] # <<>> /\ inbox'[k] = Tail(inbox[k]))
      BY <1>0, <3>9 DEF Recall, RecallFails, Hear, RecallFetched, WaitEnds, Ends,
           FeedTypeOK
    <3>10. \/ UNCHANGED inbox
           \/ CarryReceipt
           \/ \E w \in Workers : AnnounceScrapeFailure(w)
           \/ \E c \in Calls : Recall(c) \/ RecallFails(c) \/ Hear(c) \/ RecallFetched(c) \/ WaitEnds(c)
      BY DEF Next, Scrape, TakeOfferIn, vars, feedVars, TakeRequest, OfferPage,
           GiveUp, Defer, ReportFailure, AcknowledgeRequest, ReturnRequest,
           Delivered, Overdue, Crash, ComesBack, TimePasses, TakeIn, SendReceipt,
           AcknowledgeOffer, OfferComesBack, Listen, AskToScrape, PublishRequest
    <3> QED  BY <3>4, <3>5, <3>6, <3>7, <3>8, <3>9, <3>10
  <2> QED  BY <2>1
<1> QED  BY <1>2, <1>3, <1>4, <1>5 DEF FeedSound

\* Every step is one of a call, or leaves the calls where they were.
LEMMA CallSteps ==
  ASSUME [Next]_vars
  PROVE  \/ UNCHANGED <<call, seen, answer>>
         \/ \E k \in Calls : \/ Recall(k) \/ RecallFails(k) \/ Listen(k) \/ AskToScrape(k)
                             \/ Hear(k) \/ RecallFetched(k) \/ WaitEnds(k)
BY DEF Next, Scrape, TakeOfferIn, vars, callVars, TakeRequest, OfferPage, GiveUp,
     Defer, ReportFailure, AnnounceScrapeFailure, AcknowledgeRequest, ReturnRequest,
     Delivered, Overdue, Crash, ComesBack, TimePasses, CarryReceipt, TakeIn,
     SendReceipt, AcknowledgeOffer, OfferComesBack, PublishRequest

\* Every step keeps the calls sound.
LEMMA CallsSoundStep ==
  ASSUME ScrapeInv, [Next]_vars
  PROVE  CallsSound'
<1>0. TypeOK /\ FeedSound /\ CallsSound /\ CallTypeOK /\ FeedTypeOK
  BY DEF ScrapeInv, TypeOK
<1>1. held # None => held' # None
  BY <1>0, HeldLasts
<1>2. CASE UNCHANGED <<call, seen, answer>>
  BY <1>0, <1>1, <1>2 DEF CallsSound
<1>3. ASSUME NEW k \in Calls,
             \/ Recall(k) \/ RecallFails(k) \/ Listen(k) \/ AskToScrape(k)
             \/ Hear(k) \/ RecallFetched(k) \/ WaitEnds(k)
      PROVE  CallsSound'
  <2>1. \A c \in Calls \ {k} : call'[c] = call[c] /\ answer'[c] = answer[c]
    BY <1>0, <1>3 DEF CallTypeOK, Recall, RecallFails, Listen, AskToScrape, Hear,
         RecallFetched, WaitEnds, Ends
  <2>2. call'[k] = "ended" <=> answer'[k] # None
    BY <1>0, <1>3, NoneAssumption
    DEF CallTypeOK, CallsSound, Recall, RecallFails, Listen, AskToScrape, Hear,
         RecallFetched, WaitEnds, Ends, Answers
  <2>3. ASSUME call'[k] = "fetched" PROVE held' # None
    <3>1. \/ Hear(k) /\ Decides(Head(inbox[k])) /\ Head(inbox[k]).outcome = "kept"
          \/ call[k] = "fetched"
      BY <1>0, <1>3, <2>3 DEF CallTypeOK, Recall, RecallFails, Listen, AskToScrape,
           Hear, RecallFetched, WaitEnds, Ends
    <3>2. CASE Hear(k) /\ Decides(Head(inbox[k])) /\ Head(inbox[k]).outcome = "kept"
      BY <1>0, <1>1, <3>2, HeadSound DEF Hear, Sound
    <3> QED  BY <1>0, <1>1, <3>1, <3>2 DEF CallsSound
  <2> QED  BY <1>0, <1>1, <2>1, <2>2, <2>3 DEF CallsSound
<1> QED  BY <1>2, <1>3, CallSteps

\* The invariant holds in every state.
THEOREM ScrapeInvariant == Spec => []ScrapeInv
<1>1. Init => ScrapeInv
  <2>1. Init => FeedSound
    BY DEF Init, FeedSound, At, AtIntake, AllSound
  <2>2. Init => CallsSound
    BY DEF Init, CallsSound
  <2> QED  BY <2>1, <2>2, InitInv DEF ScrapeInv
<1>2. ScrapeInv /\ [Next]_vars => ScrapeInv'
  BY TypeStep, NothingDroppedStep, FeedSoundStep, CallsSoundStep DEF ScrapeInv
<1> QED  BY <1>1, <1>2, PTL DEF Spec

\* No request is lost: NothingLost, for any requests, workers and corpora.
THEOREM NoRequestLost == Spec => []NothingLost
<1>1. ScrapeInv => NothingLost
  BY DEF ScrapeInv, NothingDropped, NothingLost, Kept, Live, Waiting
<1> QED  BY <1>1, ScrapeInvariant, PTL

----------------------------------------------------------------------------
\* A step of the corpora and the workers is one of the corpus that PageReading
\* has, or none of its business.
LEMMA PageSteps ==
  ASSUME TypeOK, [Next]_vars, UNCHANGED <<call, seen, answer>>
  PROVE  [PageRead!Next]_(PageRead!vars)
<1>1. ASSUME NEW c \in Corpora, NEW o \in offers, TakeIn(c, o)
      PROVE  [PageRead!Next]_(PageRead!vars)
  <2>1. o.request \in Requests /\ refused \in BOOLEAN
    BY DEF TypeOK, CorpusTypeOK, Offers
  <2>2. CASE Keep(c, o) /\ UNCHANGED refused
    BY <2>1, <2>2 DEF Keep, PageRead!Next, PageRead!Keep, PageRead!vars
  <2>3. CASE Reject(c, o) /\ UNCHANGED held
    BY <2>1, <2>3 DEF Reject, PageRead!Next, PageRead!Refuse, PageRead!vars
  <2> QED  BY <1>1, <2>2, <2>3 DEF TakeIn
<1>2. ASSUME NEW w \in Workers, ReportFailure(w)
      PROVE  [PageRead!Next]_(PageRead!vars)
  BY <1>2 DEF ReportFailure, PageRead!Next, PageRead!Refuse
<1>3. CASE UNCHANGED <<held, refused>>
  BY <1>3 DEF PageRead!vars
<1>4. (\E c \in Corpora : \E o \in offers : TakeIn(c,
     o)) \/ (\E w \in Workers : ReportFailure(w))
      \/ UNCHANGED <<held, refused>>
  BY CorpusSteps
<1> QED  BY <1>1, <1>2, <1>3, <1>4

\* The scraping services keep the promise of PageReading to every call.
THEOREM PageReadingImplemented == Spec => ImplementsPageReading
<1>1. Init => PageRead!Init
  BY DEF Init, PageRead!Init
<1>2. ASSUME ScrapeInv, [Next]_vars
      PROVE  [PageRead!Next]_(PageRead!vars)
  <2>0. TypeOK /\ FeedSound /\ CallsSound /\ CallTypeOK /\ FeedTypeOK
    BY <1>2 DEF ScrapeInv, TypeOK
  <2>1. CASE UNCHANGED <<call, seen, answer>>
    BY <1>2, <2>0, <2>1, PageSteps
  <2>2. ASSUME NEW k \in Calls, Recall(k) \/ RecallFetched(k)
        PROVE  [PageRead!Next]_(PageRead!vars)
    <3>1. answer[k] = None /\ UNCHANGED <<held,
         refused>> /\ seen' = [seen EXCEPT ![k] = held]
      BY <2>0, <2>2 DEF CallsSound, Recall, RecallFetched, corpusVars
    <3>2. \/ UNCHANGED answer
          \/ /\ held # None
             /\ \E o \in {"FetchNotNeeded", "PageFetched"} : answer' = [answer EXCEPT ![k] = o]
      BY <2>0, <2>2 DEF CallsSound, Recall, RecallFetched, Ends
    <3> QED  BY <3>1, <3>2 DEF PageRead!Next, PageRead!Look, PageRead!Say
  <2>3. ASSUME NEW k \in Calls, RecallFails(k) \/ WaitEnds(k)
        PROVE  [PageRead!Next]_(PageRead!vars)
    <3>1. answer[k] = None /\ UNCHANGED <<held, refused, seen>>
      BY <2>0, <2>3 DEF CallsSound, RecallFails, WaitEnds, corpusVars
    <3>2. \E o \in {"FetchUnfinished", "Error"} : answer' = [answer EXCEPT ![k] = o]
      BY <2>3 DEF RecallFails, WaitEnds, Ends
    <3> QED  BY <3>1, <3>2 DEF PageRead!Next, PageRead!Settle, PageRead!Say
  <2>4. ASSUME NEW k \in Calls, Hear(k)
        PROVE  [PageRead!Next]_(PageRead!vars)
    <3>1. answer[k] = None /\ UNCHANGED <<held, refused, seen>>
      BY <2>0, <2>4 DEF CallsSound, Hear, corpusVars
    <3>2. UNCHANGED answer \/ (refused /\ answer' = [answer EXCEPT ![k] = "PageNotReadable"])
      BY <2>0, <2>4, HeadSound DEF Hear, Ends, Sound
    <3> QED  BY <3>1, <3>2 DEF PageRead!Next, PageRead!Settle, PageRead!Say,
         PageRead!vars
  <2>5. ASSUME NEW k \in Calls, Listen(k) \/ AskToScrape(k)
        PROVE  [PageRead!Next]_(PageRead!vars)
    BY <2>5 DEF Listen, AskToScrape, corpusVars, PageRead!vars
  <2> QED  BY <1>2, <2>1, <2>2, <2>3, <2>4, <2>5, CallSteps
<1> QED  BY <1>1, <1>2, ScrapeInvariant, PTL DEF Spec, ImplementsPageReading,
     PageRead!Spec

----------------------------------------------------------------------------
\* What is at work on a request belongs to one that was put on the stream, and a
\* call that still listens has not put its own there.
AskedFirst ==
    /\ \A m \in messages : m.request \in asked
    /\ \A w \in Workers : work[w] # None => work[w].message.request \in asked
    /\ \A o \in offers : o.request \in asked
    /\ \A c \in Corpora : intake[c] # None => intake[c].offer.request \in asked
    /\ schedule # None => schedule.request \in asked
    /\ \A c \in Calls : call[c] \in {"idle", "recalled", "listening"} => c \notin asked

\* Every step keeps AskedFirst.
LEMMA AskedFirstStep ==
  ASSUME TypeOK, AskedFirst, [Next]_vars
  PROVE  AskedFirst'
<1>0. RequestsTypeOK /\ WorkTypeOK /\ CorpusTypeOK /\ CallTypeOK
  BY DEF TypeOK
<1>1. ASSUME NEW w \in Workers, OfferPage(w) PROVE AskedFirst'
  BY <1>0, <1>1, MessageTyped DEF AskedFirst, OfferPage, WorkTypeOK, At, Proceed,
       CorpusTypeOK, AtIntake, requestVars, workVars, corpusVars, feedVars,
       callVars
<1>2. ASSUME NEW w \in Workers, GiveUp(w) PROVE AskedFirst'
  BY <1>0, <1>2, MessageTyped DEF AskedFirst, GiveUp, WorkTypeOK, At, Proceed,
       requestVars, workVars, corpusVars, feedVars, callVars
<1>3. ASSUME NEW w \in Workers, Defer(w) PROVE AskedFirst'
  BY <1>0, <1>3, MessageTyped, DeferTyped, ScheduleTyped DEF AskedFirst, Defer,
       ScheduleScrape, RequestsTypeOK, WorkTypeOK, At, Proceed, requestVars,
       workVars, corpusVars, feedVars, callVars
<1>4. ASSUME NEW w \in Workers, ReportFailure(w) PROVE AskedFirst'
  BY <1>0, <1>4, MessageTyped DEF AskedFirst, ReportFailure, WorkTypeOK, At,
       Proceed, CorpusTypeOK, AtIntake, requestVars, workVars, corpusVars,
       feedVars, callVars
<1>5. ASSUME NEW w \in Workers, AnnounceScrapeFailure(w) PROVE AskedFirst'
  BY <1>0, <1>5, MessageTyped DEF AskedFirst, AnnounceScrapeFailure, WorkTypeOK,
       At, Proceed, requestVars, workVars, corpusVars, feedVars, callVars
<1>6. ASSUME NEW w \in Workers, AcknowledgeRequest(w) PROVE AskedFirst'
  BY <1>0, <1>6, MessageTyped DEF AskedFirst, AcknowledgeRequest, Acknowledge,
       ReturnAll, RequestsTypeOK, WorkTypeOK, At, Proceed, requestVars, workVars,
       corpusVars, feedVars, callVars
<1>7. ASSUME NEW w \in Workers, ReturnRequest(w) PROVE AskedFirst'
  BY <1>0, <1>7, MessageTyped DEF AskedFirst, ReturnRequest, ReturnAll,
       RequestsTypeOK, WorkTypeOK, At, Proceed, requestVars, workVars, corpusVars,
       feedVars, callVars
<1>8. ASSUME NEW r \in Requests, Delivered(r) PROVE AskedFirst'
  BY <1>0, <1>8, MessageTyped DEF AskedFirst, Delivered, TakeRequest, Deliver,
       RequestsTypeOK, WorkTypeOK, At, Proceed, requestVars, workVars, corpusVars,
       feedVars, callVars
<1>9. ASSUME NEW m \in messages \ ready, Overdue(m) PROVE AskedFirst'
  BY <1>0, <1>9 DEF AskedFirst, Overdue, AckWaitEnds, ReturnAll, RequestsTypeOK,
       requestVars, workVars, corpusVars, feedVars, callVars
<1>10. ASSUME Crash PROVE AskedFirst'
  BY <1>0, <1>10, MessageTyped DEF AskedFirst, Crash, ReturnAll, RequestsTypeOK,
       WorkTypeOK, At, Proceed, requestVars, workVars, corpusVars, feedVars,
       callVars
<1>11. ASSUME ComesBack PROVE AskedFirst'
  BY <1>0, <1>11 DEF AskedFirst, ComesBack, ScheduleFires, Put, RequestsTypeOK,
       requestVars, workVars, corpusVars, feedVars, callVars
<1>12. ASSUME TimePasses PROVE AskedFirst'
  BY <1>0, <1>12, TickTyped DEF AskedFirst, TimePasses, Tick, RequestsTypeOK,
       requestVars, workVars, corpusVars, feedVars, callVars
<1>13. ASSUME CarryReceipt PROVE AskedFirst'
  BY <1>0, <1>13 DEF AskedFirst, CarryReceipt, requestVars, workVars, corpusVars,
       feedVars, callVars
<1>14. ASSUME NEW c \in Corpora, NEW o \in offers, TakeIn(c, o) PROVE AskedFirst'
  BY <1>0, <1>14 DEF AskedFirst, TakeIn, Keep, Reject, CorpusTypeOK, AtIntake,
       requestVars, workVars, corpusVars, feedVars, callVars
<1>15. ASSUME NEW c \in Corpora, SendReceipt(c) PROVE AskedFirst'
  BY <1>0, <1>15 DEF AskedFirst, SendReceipt, CorpusTypeOK, AtIntake, requestVars,
       workVars, corpusVars, feedVars, callVars
<1>16. ASSUME NEW c \in Corpora, AcknowledgeOffer(c) PROVE AskedFirst'
  BY <1>0, <1>16 DEF AskedFirst, AcknowledgeOffer, CorpusTypeOK, AtIntake,
       requestVars, workVars, corpusVars, feedVars, callVars
<1>17. ASSUME NEW c \in Corpora, OfferComesBack(c) PROVE AskedFirst'
  BY <1>0, <1>17 DEF AskedFirst, OfferComesBack, CorpusTypeOK, AtIntake,
       requestVars, workVars, corpusVars, feedVars, callVars
<1>18. ASSUME NEW k \in Calls, Recall(k) PROVE AskedFirst'
  BY <1>0, <1>18 DEF AskedFirst, Recall, CallTypeOK, Ends, requestVars, workVars,
       corpusVars, feedVars, callVars
<1>19. ASSUME NEW k \in Calls, RecallFails(k) PROVE AskedFirst'
  BY <1>0, <1>19 DEF AskedFirst, RecallFails, CallTypeOK, Ends, requestVars,
       workVars, corpusVars, feedVars, callVars
<1>20. ASSUME NEW k \in Calls, Listen(k) PROVE AskedFirst'
  BY <1>0, <1>20 DEF AskedFirst, Listen, CallTypeOK, Ends, requestVars, workVars,
       corpusVars, feedVars, callVars
<1>21. ASSUME NEW k \in Calls, AskToScrape(k) PROVE AskedFirst'
  BY <1>0, <1>21 DEF AskedFirst, AskToScrape, Put, RequestsTypeOK, CallTypeOK,
       Ends, requestVars, workVars, corpusVars, feedVars, callVars
<1>22. ASSUME NEW k \in Calls, Hear(k) PROVE AskedFirst'
  BY <1>0, <1>22 DEF AskedFirst, Hear, CallTypeOK, Ends, requestVars, workVars,
       corpusVars, feedVars, callVars
<1>23. ASSUME NEW k \in Calls, RecallFetched(k) PROVE AskedFirst'
  BY <1>0, <1>23 DEF AskedFirst, RecallFetched, CallTypeOK, Ends, requestVars,
       workVars, corpusVars, feedVars, callVars
<1>24. ASSUME NEW k \in Calls, WaitEnds(k) PROVE AskedFirst'
  BY <1>0, <1>24 DEF AskedFirst, WaitEnds, CallTypeOK, Ends, requestVars, workVars,
       corpusVars, feedVars, callVars
<1>25. ASSUME NEW r \in Requests, PublishRequest(r) PROVE AskedFirst'
  BY <1>0, <1>25 DEF AskedFirst, PublishRequest, Put, RequestsTypeOK, CallTypeOK,
       Ends, requestVars, workVars, corpusVars, feedVars, callVars
<1>26. CASE UNCHANGED vars
  BY <1>26 DEF AskedFirst, vars, requestVars, workVars, corpusVars, feedVars,
       callVars
<1> QED
  BY <1>1, <1>2, <1>3, <1>4, <1>5, <1>6, <1>7, <1>8, <1>9, <1>10, <1>11, <1>12,
       <1>13, <1>14, <1>15, <1>16, <1>17, <1>18, <1>19, <1>20, <1>21, <1>22, <1>23,
       <1>24, <1>25, <1>26 DEF Next, Scrape, TakeOfferIn

\* The offer of the page a call asked for, to the corpus it reads from.
OwnOffer(c) == [corpus |-> Markdown, request |-> c]

Reported(c) == AtIntake(Markdown, "reported") /\ intake[Markdown].offer = OwnOffer(c)

\* What a waiting call may hear: an offer reported was told.
HeardBy(c) ==
    /\ Live(c) \/ Offered(c) \/ Told(c)
    /\ Reported(c) => Told(c)

\* The strengthening of OwnOutcomeIsHeard.
Heard == \A c \in Calls \cap asked : call[c] = "waiting" /\ ~unheard => HeardBy(c)

\* A corpus takes in only what was offered to it.
IntakeOwn == \A c \in Corpora : intake[c] # None => intake[c].offer.corpus = c

\* The inductive invariant.
HeardInv == TypeOK /\ AskedFirst /\ IntakeOwn /\ Heard

\* A request on the stream stays live while it stays there and nobody gets done
\* with its message.
LEMMA LiveLasts ==
  ASSUME NEW c, Live(c),
         \A m \in messages :
            m \in messages' \/ \E w \in Workers : At(w, "done") /\ work[w].message = m,
         \A w \in Workers : At(w, "done")' =>
            \/ At(w, "done") /\ work'[w].message = work[w].message
            \/ work'[w].message.request # c
  PROVE  Live(c)'
BY DEF Live

\* An outcome put behind others takes none away, and may be the one that decides.
LEMMA AppendDecides ==
  ASSUME NEW s \in Seq(Receipts), NEW outcome \in Receipts
  PROVE  AnyDecides(Append(s, outcome)) <=> AnyDecides(s) \/ Decides(outcome)
<1>1. /\ Append(s, outcome) \in Seq(Receipts)
      /\ Len(Append(s, outcome)) = Len(s) + 1
      /\ \A i \in 1 .. Len(s) : Append(s, outcome)[i] = s[i]
      /\ Append(s, outcome)[Len(s) + 1] = outcome
  BY AppendProperties
<1>2. DOMAIN s = 1 .. Len(s) /\ DOMAIN Append(s, outcome) = 1 .. (Len(s) + 1) /\ Len(s) \in Nat
  BY <1>1, LenProperties
<1> QED  BY <1>1, <1>2 DEF AnyDecides

\* The first of them decides, or the others do.
LEMMA HeadTailDecides ==
  ASSUME NEW s \in Seq(Receipts), s # <<>>
  PROVE  /\ Head(s) \in Receipts /\ Tail(s) \in Seq(Receipts)
         /\ AnyDecides(s) <=> Decides(Head(s)) \/ AnyDecides(Tail(s))
<1>1. /\ Head(s) \in Receipts /\ Tail(s) \in Seq(Receipts)
      /\ Len(Tail(s)) = Len(s) - 1 /\ Head(s) = s[1]
      /\ \A i \in 1 .. Len(Tail(s)) : Tail(s)[i] = s[i + 1]
  BY HeadTailProperties
<1>2. /\ DOMAIN s = 1 .. Len(s) /\ Len(s) \in Nat /\ Len(s) > 0
      /\ DOMAIN Tail(s) = 1 .. (Len(s) - 1)
  BY <1>1, LenProperties, EmptySeq
<1>3. \A i \in 2 .. Len(s) : s[i] = Tail(s)[i - 1] /\ i - 1 \in 1 .. (Len(s) - 1)
  BY <1>1, <1>2
<1>4. \A i \in 1 .. (Len(s) - 1) : Tail(s)[i] = s[i + 1] /\ i + 1 \in 1 .. Len(s)
  BY <1>1, <1>2
<1>5. 1 \in 1 .. Len(s) /\ \A i \in 1 .. Len(s) : i = 1 \/ i \in 2 .. Len(s)
  BY <1>2
<1> QED  BY <1>1, <1>2, <1>3, <1>4, <1>5 DEF AnyDecides

\* What is told stays told while the feed goes on as it was or with one more.
LEMMA ToldLasts ==
  ASSUME FeedTypeOK, NEW c \in Calls, Told(c),
         receipts' = receipts \/ \E o \in Receipts : receipts' = Append(receipts, o),
         inbox'[c] = inbox[c] \/ \E o \in Receipts : inbox'[c] = Append(inbox[c], o)
  PROVE  Told(c)'
<1>1. PICK s \in Seq(Receipts) : s = inbox[c]
  BY DEF FeedTypeOK
<1>2. AnyDecides(receipts) => AnyDecides(receipts')
  BY AppendDecides DEF FeedTypeOK
<1>3. AnyDecides(s) => AnyDecides(inbox'[c])
  BY <1>1, AppendDecides
<1>4. AnyDecides(receipts') \/ AnyDecides(inbox'[c]) => Told(c)'
  BY DEF Told, AnyDecides, Decides
<1> QED  BY <1>1, <1>2, <1>3, <1>4 DEF Told

\* A step away from the corpora and the feed leaves a call what it may hear.
LEMMA HeardLasts ==
  ASSUME NEW c, HeardBy(c), Live(c) => Live(c)', offers \subseteq offers',
         UNCHANGED <<intake, receipts>>, inbox'[c] = inbox[c]
  PROVE  HeardBy(c)'
<1>1. Told(c) => Told(c)'
  BY DEF Told, AnyDecides, Decides
<1>2. Reported(c)' <=> Reported(c)
  BY DEF Reported, AtIntake, OwnOffer
<1>3. Offered(c) => Offered(c)'
  BY DEF Offered, AtIntake
<1> QED  BY <1>1, <1>2, <1>3 DEF HeardBy

\* A step of a worker, or of the broker, away from the feed.
LEMMA WorkIsHeard ==
  ASSUME TypeOK, AskedFirst, NEW c \in Calls, c \in asked, HeardBy(c), Markdown \in Corpora,
         NEW w \in Workers,
         \/ OfferPage(w) \/ GiveUp(w) \/ Defer(w) \/ ReportFailure(w)
         \/ AcknowledgeRequest(w) \/ ReturnRequest(w)
         \/ \E m \in ready : TakeRequest(w, m)
  PROVE  HeardBy(c)'
<1>0. RequestsTypeOK /\ WorkTypeOK
  BY DEF TypeOK
<1>1. UNCHANGED <<intake, receipts, inbox>> /\ offers \subseteq offers'
  BY DEF OfferPage, GiveUp, Defer, ReportFailure, AcknowledgeRequest, ReturnRequest,
       TakeRequest, corpusVars, feedVars
<1>2. ASSUME OfferPage(w), work[w].message.request = c
      PROVE  HeardBy(c)'
  <2>1. OwnOffer(c) \in offers'
    BY <1>2 DEF OfferPage, OwnOffer
  <2>2. Offered(c)' \/ Reported(c)
    BY <1>1, <2>1 DEF Offered, Reported, OwnOffer, AtIntake
  <2>3. (Told(c)' <=> Told(c)) /\ (Reported(c)' <=> Reported(c))
    BY <1>1 DEF Told, AnyDecides, Decides, Reported, AtIntake, OwnOffer
  <2> QED  BY <2>2, <2>3 DEF HeardBy
<1>3. ASSUME ~(OfferPage(w) /\ work[w].message.request = c), Live(c)
      PROVE  Live(c)'
  <2>1. \A m \in messages : m \in messages' \/ (At(w, "done") /\ work[w].message = m)
    BY DEF OfferPage, GiveUp, Defer, ReportFailure, AcknowledgeRequest, ReturnRequest,
         TakeRequest, Deliver, Acknowledge, ReturnAll, requestVars
  <2>2. \A v \in Workers \ {w} : work'[v] = work[v]
    BY <1>0 DEF WorkTypeOK, OfferPage, GiveUp, Defer, ReportFailure, AcknowledgeRequest,
         ReturnRequest, TakeRequest, Proceed
  <2>3. At(w, "done")' => work'[w].message.request # c
    <3>1. CASE OfferPage(w)
      BY <1>0, <1>3, <3>1, MessageTyped DEF OfferPage, Proceed, At, WorkTypeOK
    <3>2. CASE Defer(w)
      BY <1>0, <3>2, MessageTyped DEF Defer, Proceed, At, WorkTypeOK
    <3>3. CASE ~OfferPage(w) /\ ~Defer(w)
      BY <1>0, <3>3 DEF WorkTypeOK, GiveUp, ReportFailure, AcknowledgeRequest,
         ReturnRequest, TakeRequest, Proceed, At
    <3> QED  BY <3>1, <3>2, <3>3
  <2> QED  BY <1>3, <2>1, <2>2, <2>3, LiveLasts DEF At
<1> QED  BY <1>1, <1>2, <1>3, HeardLasts

\* A worker that announces its failure is heard, or the feed lost it.
LEMMA FailureIsHeard ==
  ASSUME TypeOK, NEW c \in Calls, call[c] = "waiting", HeardBy(c),
         NEW w \in Workers, AnnounceScrapeFailure(w), ~unheard'
  PROVE  HeardBy(c)'
<1>1. FeedTypeOK /\ Tell(NoCorpus)
  BY DEF TypeOK, AnnounceScrapeFailure
<1>2. NoCorpus \in Receipts /\ Decides(NoCorpus)
  BY DEF NoCorpus, Receipts, Outcomes, Decides
<1>3. inbox'[c] = Append(inbox[c], NoCorpus)
  BY <1>1 DEF Tell, Listening
<1>4. PICK s \in Seq(Receipts) : s = inbox[c]
  BY <1>1 DEF FeedTypeOK
<1>5. AnyDecides(inbox'[c])
  BY <1>2, <1>3, <1>4, AppendDecides
<1> QED  BY <1>5 DEF HeardBy, Told, AnyDecides, Decides

\* A receipt carried is heard, or the feed lost it.
LEMMA ReceiptIsHeard ==
  ASSUME TypeOK, NEW c \in Calls, call[c] = "waiting", HeardBy(c),
         CarryReceipt, ~unheard'
  PROVE  HeardBy(c)'
<1>1. FeedTypeOK /\ Tell(Head(receipts)) /\ receipts' = Tail(receipts) /\ receipts # <<>>
  BY DEF TypeOK, CarryReceipt
<1>2. inbox'[c] = Append(inbox[c], Head(receipts))
  BY <1>1 DEF Tell, Listening
<1>3. /\ Head(receipts) \in Receipts
      /\ AnyDecides(receipts) <=> Decides(Head(receipts)) \/ AnyDecides(Tail(receipts))
  BY <1>1, HeadTailDecides DEF FeedTypeOK
<1>4. PICK s \in Seq(Receipts) : s = inbox[c]
  BY <1>1 DEF FeedTypeOK
<1>5. AnyDecides(inbox'[c]) <=> AnyDecides(s) \/ Decides(Head(receipts))
  BY <1>2, <1>3, <1>4, AppendDecides
<1>6. Told(c) => AnyDecides(receipts') \/ AnyDecides(inbox'[c])
  BY <1>1, <1>3, <1>4, <1>5 DEF Told
<1>7. Told(c) => Told(c)'
  BY <1>6 DEF Told, AnyDecides, Decides
<1>8. UNCHANGED <<messages, work, offers, intake>>
  BY DEF CarryReceipt, requestVars, workVars, corpusVars
<1>9. /\ Live(c) => Live(c)'
      /\ Offered(c) => Offered(c)'
      /\ Reported(c)' => Reported(c)
  BY <1>8 DEF Live, At, Offered, Reported, AtIntake, OwnOffer
<1> QED  BY <1>7, <1>9 DEF HeardBy

\* A receipt is sent before its offer is acknowledged, or the feed lost it.
LEMMA IntakeIsHeard ==
  ASSUME TypeOK, IntakeOwn, NEW c \in Calls, HeardBy(c), Markdown \in Corpora,
         NEW k \in Corpora, ~unheard',
         \/ \E o \in offers : TakeIn(k, o)
         \/ SendReceipt(k) \/ AcknowledgeOffer(k) \/ OfferComesBack(k)
  PROVE  HeardBy(c)'
<1>0. CorpusTypeOK /\ FeedTypeOK
  BY DEF TypeOK
<1>1. UNCHANGED <<messages, work, inbox>>
  BY DEF TakeIn, SendReceipt, AcknowledgeOffer, OfferComesBack, requestVars, workVars, feedVars
<1>2. Live(c) => Live(c)'
  BY <1>1 DEF Live, At
<1>3. CASE SendReceipt(k)
  <2> DEFINE o == [corpus |-> k, outcome |-> intake[k].stage]
  <2>1. o \in Receipts
    BY <1>3 DEF SendReceipt, AtIntake, Receipts, Outcomes
  <2>2. receipts' = Append(receipts, o) /\ offers' = offers
    BY <1>3 DEF SendReceipt
  <2>3. Told(c) => Told(c)'
    BY <1>0, <1>1, <2>1, <2>2, ToldLasts
  <2>4. CASE k = Markdown
    <3>1. AnyDecides(receipts')
      BY <1>0, <2>1, <2>2, <2>4, AppendDecides DEF FeedTypeOK, Decides
    <3> QED  BY <3>1 DEF HeardBy, Told, AnyDecides, Decides
  <2>5. CASE k # Markdown
    <3>1. intake'[Markdown] = intake[Markdown]
      BY <1>0, <1>3, <2>5 DEF SendReceipt, CorpusTypeOK
    <3>2. (Offered(c) => Offered(c)') /\ (Reported(c)' => Reported(c))
      BY <2>2, <3>1 DEF Offered, Reported, AtIntake, OwnOffer
    <3> QED  BY <1>2, <2>3, <3>2 DEF HeardBy
  <2> QED  BY <2>4, <2>5
<1>4. CASE ~SendReceipt(k)
  <2>1. UNCHANGED receipts
    BY <1>4 DEF TakeIn, AcknowledgeOffer, OfferComesBack, feedVars
  <2>2. Told(c)' <=> Told(c)
    BY <1>1, <2>1 DEF Told, AnyDecides, Decides
  <2>3. Reported(c)' => Reported(c)
    BY <1>0, <1>4 DEF CorpusTypeOK, TakeIn, Keep, Reject, AcknowledgeOffer, OfferComesBack,
         Reported, AtIntake, OwnOffer
  <2>4. Offered(c) => Offered(c)' \/ Reported(c)
    <3>1. CASE AcknowledgeOffer(k)
      <4>1. CASE k = Markdown
        BY <1>0, <3>1, <4>1 DEF CorpusTypeOK, AcknowledgeOffer, Offered, Reported, AtIntake, OwnOffer
      <4>2. CASE k # Markdown
        <5>1. intake[k].offer.corpus = k /\ intake'[Markdown] = intake[Markdown]
          BY <1>0, <3>1, <4>2 DEF CorpusTypeOK, IntakeOwn, AcknowledgeOffer, AtIntake
        <5> QED  BY <3>1, <4>2, <5>1 DEF AcknowledgeOffer, Offered, AtIntake
      <4> QED  BY <4>1, <4>2
    <3>2. CASE ~AcknowledgeOffer(k)
      <4>1. offers' = offers
        BY <1>4, <3>2 DEF TakeIn, OfferComesBack
      <4> QED  BY <2>3, <4>1 DEF Offered, Reported, OwnOffer
    <3> QED  BY <3>1, <3>2
  <2> QED  BY <1>2, <2>2, <2>3, <2>4 DEF HeardBy
<1> QED  BY <1>3, <1>4

\* Every step keeps IntakeOwn.
LEMMA IntakeOwnStep ==
  ASSUME TypeOK, IntakeOwn, [Next]_vars
  PROVE  IntakeOwn'
<1>0. CorpusTypeOK
  BY DEF TypeOK
<1>1. ASSUME NEW c \in Corpora, NEW o \in offers, TakeIn(c, o) PROVE IntakeOwn'
  BY <1>0, <1>1 DEF IntakeOwn, CorpusTypeOK, TakeIn, Keep, Reject
<1>2. ASSUME NEW c \in Corpora, SendReceipt(c) \/ AcknowledgeOffer(c) \/ OfferComesBack(c)
      PROVE  IntakeOwn'
  BY <1>0, <1>2 DEF IntakeOwn, CorpusTypeOK, SendReceipt, AcknowledgeOffer, OfferComesBack,
       AtIntake
<1>3. CASE UNCHANGED intake
  BY <1>3 DEF IntakeOwn
<1> QED
  BY <1>1, <1>2, <1>3 DEF Next, Scrape, TakeOfferIn, vars, corpusVars, TakeRequest, OfferPage,
       GiveUp, Defer, ReportFailure, AnnounceScrapeFailure, AcknowledgeRequest, ReturnRequest,
       Delivered, Overdue, Crash, ComesBack, TimePasses, CarryReceipt, Recall, RecallFails,
       Listen, AskToScrape, Hear, RecallFetched, WaitEnds, PublishRequest

\* What a call does keeps what another may hear, and what it may hear itself
\* while it waits on.
LEMMA CallIsHeard ==
  ASSUME TypeOK, NEW c \in Calls, call[c] = "waiting", call'[c] = "waiting", HeardBy(c),
         NEW k \in Calls,
         \/ Recall(k) \/ RecallFails(k) \/ Listen(k) \/ AskToScrape(k)
         \/ Hear(k) \/ RecallFetched(k) \/ WaitEnds(k)
  PROVE  HeardBy(c)'
<1>0. CallTypeOK /\ FeedTypeOK /\ RequestsTypeOK
  BY DEF TypeOK
<1>1. UNCHANGED <<work, offers, intake, receipts>>
  BY DEF Recall, RecallFails, Listen, AskToScrape, Hear, RecallFetched, WaitEnds, workVars,
       corpusVars, feedVars
<1>2. Live(c) => Live(c)'
  <2>1. messages \subseteq messages'
    BY DEF Recall, RecallFails, Listen, AskToScrape, Put, Hear, RecallFetched, WaitEnds,
         requestVars
  <2> QED  BY <1>1, <2>1 DEF Live, At
<1>3. CASE k = c /\ Hear(c)
  <2>1. /\ inbox[c] # <<>> /\ inbox'[c] = Tail(inbox[c]) /\ ~Decides(Head(inbox[c]))
    BY <1>0, <1>3 DEF Hear, Ends, CallTypeOK, FeedTypeOK
  <2>2. PICK s \in Seq(Receipts) : s = inbox[c]
    BY <1>0 DEF FeedTypeOK
  <2>3. AnyDecides(inbox[c]) => AnyDecides(inbox'[c])
    BY <2>1, <2>2, HeadTailDecides
  <2>4. Told(c) => Told(c)'
    BY <1>1, <2>3 DEF Told, AnyDecides, Decides
  <2>5. (Offered(c) => Offered(c)') /\ (Reported(c)' => Reported(c))
    BY <1>1 DEF Offered, Reported, AtIntake, OwnOffer
  <2> QED  BY <1>2, <2>4, <2>5 DEF HeardBy
<1>4. CASE k # c \/ ~Hear(c)
  <2>1. inbox'[c] = inbox[c]
    BY <1>0, <1>4 DEF CallTypeOK, FeedTypeOK, Recall, RecallFails, Listen, AskToScrape, Hear,
         RecallFetched, WaitEnds, Ends, feedVars
  <2> QED  BY <1>1, <1>2, <2>1, HeardLasts
<1> QED  BY <1>3, <1>4

\* A step of the broker, the clock or another publisher takes nothing away.
LEMMA BrokerIsHeard ==
  ASSUME TypeOK, NEW c, HeardBy(c), ~unheard',
         \/ \E m \in messages \ ready : Overdue(m)
         \/ Crash \/ ComesBack \/ TimePasses
         \/ \E r \in Requests : PublishRequest(r)
         \/ UNCHANGED vars
  PROVE  HeardBy(c)'
<1>1. messages \subseteq messages'
  BY DEF Overdue, AckWaitEnds, Crash, ReturnAll, ComesBack, ScheduleFires, Put, TimePasses,
       Tick, PublishRequest, vars, requestVars
<1>2. work' = work \/ \A w \in Workers : work'[w] = None
  BY DEF Overdue, Crash, ComesBack, TimePasses, PublishRequest, vars, workVars
<1>3. Live(c) => Live(c)'
  BY <1>1, <1>2 DEF Live, At
<1>4. UNCHANGED <<offers, intake, receipts, inbox>>
  BY DEF Overdue, Crash, ComesBack, TimePasses, PublishRequest, vars, corpusVars, feedVars
<1> QED  BY <1>3, <1>4, HeardLasts

\* Every step keeps Heard.
LEMMA HeardStep ==
  ASSUME HeardInv, Markdown \in Corpora, [Next]_vars
  PROVE  Heard'
<1> USE DEF HeardInv
<1>0. CallTypeOK
  BY DEF TypeOK
<1> SUFFICES ASSUME NEW c \in Calls, c \in asked', call'[c] = "waiting", ~unheard'
             PROVE  HeardBy(c)'
  BY DEF Heard
<1>1. unheard => unheard'
  BY DEF TypeOK, FeedTypeOK, Next, Scrape, TakeOfferIn, vars, feedVars, TakeRequest,
       OfferPage, GiveUp, Defer, ReportFailure, AnnounceScrapeFailure, AcknowledgeRequest,
       ReturnRequest, Delivered, Overdue, Crash, ComesBack, TimePasses, CarryReceipt, TakeIn,
       SendReceipt, AcknowledgeOffer, OfferComesBack, Recall, RecallFails, Listen,
       AskToScrape, Hear, RecallFetched, WaitEnds, PublishRequest
<1>2. CASE c \in asked /\ call[c] = "waiting"
  <2>1. HeardBy(c)
    BY <1>1, <1>2 DEF Heard
  <2>2. ASSUME NEW w \in Workers, Scrape(w) \/ ReturnRequest(w)
        PROVE  HeardBy(c)'
    BY <1>2, <2>1, <2>2, WorkIsHeard, FailureIsHeard DEF Scrape
  <2>3. ASSUME NEW r \in Requests, Delivered(r)
        PROVE  HeardBy(c)'
    BY <1>2, <2>1, <2>3, WorkIsHeard DEF Delivered
  <2>4. CASE CarryReceipt
    BY <1>2, <2>1, <2>4, ReceiptIsHeard
  <2>5. ASSUME NEW k \in Corpora, TakeOfferIn(k) \/ OfferComesBack(k)
        PROVE  HeardBy(c)'
    BY <2>1, <2>5, IntakeIsHeard DEF TakeOfferIn
  <2>6. ASSUME NEW k \in Calls,
               \/ Recall(k) \/ RecallFails(k) \/ Listen(k) \/ AskToScrape(k)
               \/ Hear(k) \/ RecallFetched(k) \/ WaitEnds(k)
        PROVE  HeardBy(c)'
    BY <1>2, <2>1, <2>6, CallIsHeard
  <2> QED  BY <2>1, <2>2, <2>3, <2>4, <2>5, <2>6, BrokerIsHeard DEF Next
<1>3. CASE ~(c \in asked /\ call[c] = "waiting")
  <2>1. AskToScrape(c)
    <3>1. (\E k \in Calls : AskToScrape(k)) \/ UNCHANGED <<asked, call>>
          \/ (\E r \in Requests : PublishRequest(r))
          \/ \E k \in Calls : UNCHANGED asked /\ \E s \in CallStages \ {"waiting"} :
                  call' \in {call, [call EXCEPT ![k] = s]}
      BY DEF Next, Scrape, TakeOfferIn, vars, callVars, TakeRequest, OfferPage, GiveUp, Defer,
           ReportFailure, AnnounceScrapeFailure, AcknowledgeRequest, ReturnRequest, Delivered,
           Overdue, Crash, ComesBack, TimePasses, CarryReceipt, TakeIn, SendReceipt,
           AcknowledgeOffer, OfferComesBack, Recall, RecallFails, Listen, Hear,
           RecallFetched, WaitEnds, Ends, CallStages
    <3>2. ASSUME NEW k \in Calls, AskToScrape(k) PROVE AskToScrape(c)
      BY <1>0, <1>3, <3>2 DEF AskToScrape, CallTypeOK
    <3>3. ~\E r \in Requests : PublishRequest(r)
      BY <1>3 DEF PublishRequest
    <3> QED  BY <1>0, <1>3, <3>1, <3>2, <3>3 DEF CallTypeOK
  <2>2. c \notin asked
    BY <2>1 DEF AskToScrape, AskedFirst
  <2>3. Put(c, NotDeferred, InHand) /\ UNCHANGED <<work, intake>>
    BY <2>1, <2>2 DEF AskToScrape, workVars, corpusVars
  <2>4. Live(c)'
    BY <2>3, CallsAssumption, PutIsLive
  <2>5. ~Reported(c)'
    BY <2>2, <2>3 DEF Reported, AtIntake, OwnOffer, AskedFirst
  <2> QED  BY <2>4, <2>5 DEF HeardBy
<1> QED  BY <1>2, <1>3

\* A page call waits for nothing only where the feed lost a publication: while it
\* waits, its request is on the stream, its page is offered, or the outcome that
\* ends the wait was told (OwnOutcomeIsHeard, where the corpus it reads from is
\* one of those that pages are offered to).
THEOREM CallsWaitForSomething ==
  ASSUME Markdown \in Corpora
  PROVE  Spec => []OwnOutcomeIsHeard
<1>1. Init => HeardInv
  BY InitInv DEF Init, RequestsInit, HeardInv, AskedFirst, IntakeOwn, Heard
<1>2. HeardInv /\ [Next]_vars => HeardInv'
  BY TypeStep, AskedFirstStep, IntakeOwnStep, HeardStep DEF HeardInv
<1>3. HeardInv => OwnOutcomeIsHeard
  BY DEF HeardInv, Heard, HeardBy, OwnOutcomeIsHeard
<1> QED  BY <1>1, <1>2, <1>3, PTL DEF Spec
=============================================================================
