--------------------------- MODULE OfferSchedule ----------------------------
(* When each stored posting is next due an offer (postingofferschedule): the *)
(* due time of every posting, an order of them, and the retry interval of    *)
(* those that missed their redundancy.                                       *)
EXTENDS PostingIdentities, Integers

CONSTANTS ShortestInterval, LongestInterval,   \* bounds of the wait between offers
          PostingsPerBatch,                    \* due postings one batch offers at most
          MaxNow                               \* bound of the model: the clock stops here

ASSUME ScheduleAssumption ==
  /\ ShortestInterval \in Nat \ {0} /\ LongestInterval \in Nat \ {0}
  /\ PostingsPerBatch \in Nat \ {0} /\ MaxNow \in Nat

VARIABLES order,            \* <<due time, posting>>
          dueTimes,         \* posting -> due time
          offerIntervals,   \* posting that missed its redundancy -> last interval
          now               \* the wall clock

scheduleVars == <<order, dueTimes, offerIntervals>>

NoTimes == [p \in {} |-> 0]

MaxOf(a, b) == IF a > b THEN a ELSE b
MinOf(a, b) == IF a < b THEN a ELSE b

ScheduleTypeOK ==
  /\ order \subseteq Nat \X Posting
  /\ DOMAIN dueTimes \subseteq Posting /\ \A p \in DOMAIN dueTimes : dueTimes[p] \in Nat
  /\ DOMAIN offerIntervals \subseteq Posting
  /\ \A p \in DOMAIN offerIntervals : offerIntervals[p] \in 1 .. LongestInterval
  /\ now \in 0 .. MaxNow

ScheduleInit == order = {} /\ dueTimes = NoTimes /\ offerIntervals = NoTimes /\ now = 0

WidenedFrom(previous) == MinOf(MaxOf(previous * 2, ShortestInterval), LongestInterval)

PauseFrom(previous, requested) == MaxOf(WidenedFrom(previous), requested)

(* Anchored at the time the previous offer fell due, past the missed ones.   *)
NextOfferDueFrom(previousDue) ==
  previousDue + (MaxOf((now - previousDue) \div LongestInterval, 0) + 1) * LongestInterval

Scheduled == DOMAIN dueTimes
OrderEntry(p) == <<dueTimes[p], p>>
IntervalOf(p) == IF p \in DOMAIN offerIntervals THEN offerIntervals[p] ELSE 0

(* clearDueAt of every posting that goes or moves, setDueAt of those in due. *)
Reschedule(due, gone) ==
  /\ dueTimes' = [p \in (Scheduled \ gone) \cup DOMAIN due |->
                    IF p \in DOMAIN due THEN due[p] ELSE dueTimes[p]]
  /\ order' = (order \ {OrderEntry(p) : p \in Scheduled \cap (gone \cup DOMAIN due)})
                \cup {<<due[p], p>> : p \in DOMAIN due}

(* PostingStored: due at once; a retry interval it had stays. *)
ScheduleStored(set) == Reschedule([p \in set |-> now], {}) /\ UNCHANGED offerIntervals

(* PostingPurged *)
SchedulePurged(set) ==
  /\ Reschedule(NoTimes, set)
  /\ offerIntervals' = [p \in DOMAIN offerIntervals \ set |-> offerIntervals[p]]

(* Mutant: an offer that missed is scheduled although its posting is gone. *)
SetNextOffersOfGone(met, missed, pauses, gone) ==
  LET due == [p \in (met \cap Scheduled) \cup missed |->
                IF p \in met THEN NextOfferDueFrom(dueTimes[p])
                             ELSE now + PauseFrom(IntervalOf(p), pauses[p])]
  IN  /\ Reschedule(due, gone)
      /\ offerIntervals' =
           [p \in (DOMAIN offerIntervals \ (met \cup gone)) \cup missed |->
              IF p \in missed THEN WidenedFrom(IntervalOf(p)) ELSE offerIntervals[p]]

(* A round's postings that met their redundancy, and those that missed it    *)
(* and wait the pause a peer asked for if that is longer; a posting no       *)
(* longer scheduled, or purged in this transaction, is left alone.           *)
SetNextOffers(met, missed, pauses, gone) ==
  LET settled  == (met \cap Scheduled) \ gone
      retrying == (missed \cap Scheduled) \ gone
      due      == [p \in settled \cup retrying |->
                     IF p \in settled THEN NextOfferDueFrom(dueTimes[p])
                                      ELSE now + PauseFrom(IntervalOf(p), pauses[p])]
  IN  /\ Reschedule(due, gone)
      /\ offerIntervals' =
           [p \in (DOMAIN offerIntervals \ (met \cup gone)) \cup retrying |->
              IF p \in retrying THEN WidenedFrom(IntervalOf(p)) ELSE offerIntervals[p]]

DueEntries == {e \in order : e[1] <= now}

(* Mutant: the scan takes any of the due postings. *)
AnyDuePostings(batch) ==
  \E entries \in SUBSET DueEntries :
    /\ batch = {e[2] : e \in entries}
    /\ Cardinality(entries) <= PostingsPerBatch

(* A batch: what the scan of the order yields first, up to the limit.        *)
DuePostings(batch) ==
  \E entries \in SUBSET DueEntries :
    /\ batch = {e[2] : e \in entries}
    /\ Cardinality(entries) <= PostingsPerBatch
    /\ entries # DueEntries => Cardinality(entries) = PostingsPerBatch
    /\ \A e \in entries, f \in DueEntries \ entries : e[1] <= f[1]

=============================================================================
