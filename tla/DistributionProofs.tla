------------------------- MODULE DistributionProofs -------------------------
(* Theorems about DistributionCycle, for every ring, network, redundancy and *)
(* set of postings.  DistributionInv is inductive: what HoldersReceivedBoth  *)
(* says of recorded holders must hold of the acceptances of the batch in     *)
(* flight, and half of it of the peer that is about to get the metadata.     *)
EXTENDS DistributionCycle, FiniteSetTheorems, TLAPS

Acquainted(x, p) == p \in received[x] /\ URLOf(p) \in described[x]

(* The batch in flight: an acceptance has both halves, and a peer asked for  *)
(* a batch has its postings and every URL it did not name as unknown.        *)
RoundReceivedBoth ==
  /\ \A x \in Peers : \A p \in round.accepted[x] : Acquainted(x, p)
  /\ cycle.stage = "describing" =>
       \A p \in OfferedTo(round.asked) :
         /\ p \in received[round.asked]
         /\ URLOf(p) \in round.unknown \/ URLOf(p) \in described[round.asked]

DistributionInv == TypeOK /\ RecordsFollowIndex /\ HoldersReceivedBoth /\ RoundReceivedBoth

(* A URL of a posting is one of the URLs. *)
LEMMA URLOfPosting == \A p \in Posting : URLOf(p) \in URLs
  BY DEF Posting, URLOf

(* Products of natural numbers are natural. *)
LEMMA NatProduct == \A a, b \in Nat : a * b \in Nat
  BY SMT

(* The next due time of an offer is a time, never in the past. *)
LEMMA NextOfferDueType ==
  ASSUME TypeOK, NEW d \in Nat
  PROVE  NextOfferDueFrom(d) \in Nat
  <1> DEFINE k == MaxOf((now - d) \div LongestInterval, 0) + 1
  <1>1. now \in Nat /\ LongestInterval \in Nat \ {0}
    BY ScheduleAssumption DEF TypeOK, ScheduleTypeOK
  <1>2. (now - d) \div LongestInterval \in Int
    BY <1>1
  <1>3. k \in Nat
    BY <1>2 DEF MaxOf
  <1>4. k * LongestInterval \in Nat
    BY <1>1, <1>3, NatProduct
  <1>5. NextOfferDueFrom(d) = d + k * LongestInterval
    BY DEF NextOfferDueFrom
  <1> QED
    BY <1>4, <1>5

(* A widened interval stays between one and the longest interval. *)
LEMMA WidenedType ==
  ASSUME NEW i \in Nat
  PROVE  WidenedFrom(i) \in 1 .. LongestInterval
  BY ScheduleAssumption DEF WidenedFrom, MaxOf, MinOf

(* The peers closest to a position are chosen among the given ones           *)
(* (SeedsClosestToDHTRingPosition).                                          *)
LEMMA ClosestIsSubset ==
  ASSUME NEW S, NEW position, NEW want
  PROVE  ClosestTo(S, position, want) \subseteq S
  BY DEF ClosestTo

(* What a batch offers a posting is an offer: peers of the network, and no   *)
(* more acceptances needed than the redundancy.                              *)
LEMMA OfferType ==
  ASSUME NEW position, NEW recorded \in SUBSET Peers, NEW reachable, NEW recent,
         NEW peers \in SUBSET Peers, NEW eligible \in SUBSET Peers
  PROVE  OfferFor(position, recorded, reachable, recent, peers, eligible) \in Offer
  <1> DEFINE inside   == HoldersInside(position, recorded, reachable, recent, peers)
             outside  == HoldersOutside(position, recorded, reachable, peers)
             expired  == ExpiredHolders(recorded, reachable, recent)
             required == RequiredReplicas(position, peers)
             missing  == required - Cardinality(inside)
             asked    == ClosestTo(eligible \ (inside \cup outside), position, missing)
  <1>1. inside \in SUBSET Peers /\ outside \in SUBSET Peers /\ expired \in SUBSET Peers
    BY DEF HoldersInside, HoldersOutside, ExpiredHolders
  <1>2. Cardinality(inside) \in Nat
    BY <1>1, WindowAssumption, FS_Subset, FS_CardinalityType
  <1>3. required \in 0 .. Redundancy
    BY WindowAssumption DEF RequiredReplicas
  <1>4. missing > 0 => missing \in 0 .. Redundancy
    BY <1>2, <1>3, WindowAssumption
  <1>5. asked \in SUBSET Peers
    BY ClosestIsSubset
  <1>6. missing <= 0 =>
          OfferFor(position, recorded, reachable, recent, peers, eligible)
            = [peers |-> peers \cap inside, needed |-> 0, stale |-> expired \cup outside]
    BY DEF OfferFor
  <1>7. ~(missing <= 0) =>
          OfferFor(position, recorded, reachable, recent, peers, eligible)
            = [peers |-> asked, needed |-> missing, stale |-> expired]
    BY DEF OfferFor
  <1>8. missing \in Int
    BY <1>2, <1>3
  <1> HIDE DEF inside, outside, expired, required, missing, asked
  <1> QED
    BY <1>1, <1>4, <1>5, <1>6, <1>7, <1>8, WindowAssumption DEF Offer

(* An empty node satisfies the invariant.                                    *)
LEMMA InitInv == Init => DistributionInv
  <1> SUFFICES ASSUME Init PROVE DistributionInv
    OBVIOUS
  <1> USE DEF Init, ScheduleInit, LedgerInit, NoTimes, NoRound, IdleCycle
  <1>1. TypeOK
    BY CycleAssumption, ScheduleAssumption
       DEF TypeOK, ScheduleTypeOK, LedgerTypeOK, Contacts, Stages
  <1>2. RecordsFollowIndex
    BY DEF RecordsFollowIndex, Scheduled
  <1>3. HoldersReceivedBoth
    BY DEF HoldersReceivedBoth
  <1>4. RoundReceivedBoth
    BY DEF RoundReceivedBoth
  <1> QED
    BY <1>1, <1>2, <1>3, <1>4 DEF DistributionInv

-----------------------------------------------------------------------------
(* The schedule. *)

(* Reschedule keeps the order and the due times together, and their types.   *)
LEMMA RescheduleMirrors ==
  ASSUME order = {OrderEntry(p) : p \in Scheduled},
         NEW due, NEW gone, DOMAIN due \cap gone = {}, Reschedule(due, gone)
  PROVE  /\ Scheduled' = (Scheduled \ gone) \cup DOMAIN due
         /\ order' = {OrderEntry(p)' : p \in Scheduled'}
  BY DEF Reschedule, OrderEntry, Scheduled

(* Reschedule keeps the types of the due times and of the order.             *)
LEMMA RescheduleType ==
  ASSUME ScheduleTypeOK, NEW due, NEW gone,
         DOMAIN due \subseteq Posting, \A p \in DOMAIN due : due[p] \in Nat,
         Reschedule(due, gone)
  PROVE  /\ order' \subseteq Nat \X Posting
         /\ DOMAIN dueTimes' \subseteq Posting
         /\ \A p \in DOMAIN dueTimes' : dueTimes'[p] \in Nat
  BY DEF Reschedule, ScheduleTypeOK, Scheduled

(* Storing a posting, also one that is in a batch in flight, keeps the       *)
(* invariant.                                                                *)
LEMMA StoredKeepsInv ==
  ASSUME DistributionInv, NEW p \in Posting, PostingStored(p)
  PROVE  DistributionInv'
  <1> DEFINE due == [q \in {p} |-> now]
  <1>1. /\ Reschedule(due, {}) /\ UNCHANGED offerIntervals
        /\ now \in Nat
    BY DEF PostingStored, ScheduleStored, DistributionInv, TypeOK, ScheduleTypeOK
  <1>2. Scheduled' = stored' /\ order' = {OrderEntry(q)' : q \in stored'}
    <2>1. Scheduled' = (Scheduled \ {}) \cup {p} /\ order' = {OrderEntry(q)' : q \in Scheduled'}
      BY <1>1, RescheduleMirrors DEF DistributionInv, RecordsFollowIndex
    <2> QED
      BY <2>1 DEF DistributionInv, RecordsFollowIndex, PostingStored
  <1>3. ScheduleTypeOK'
    <2>1. /\ order' \subseteq Nat \X Posting
          /\ DOMAIN dueTimes' \subseteq Posting
          /\ \A q \in DOMAIN dueTimes' : dueTimes'[q] \in Nat
      BY <1>1, RescheduleType DEF DistributionInv, TypeOK
    <2> QED
      BY <1>1, <2>1 DEF DistributionInv, TypeOK, ScheduleTypeOK, PostingStored
  <1>4. TypeOK'
    BY <1>3, URLOfPosting, CycleAssumption
       DEF DistributionInv, TypeOK, LedgerTypeOK, PostingStored, networkVars, historyVars, Disrupt
  <1>5. RecordsFollowIndex'
    BY <1>1, <1>2 DEF DistributionInv, RecordsFollowIndex, PostingStored
  <1>6. HoldersReceivedBoth'
    BY DEF DistributionInv, HoldersReceivedBoth, PostingStored, historyVars
  <1>7. RoundReceivedBoth'
    BY DEF DistributionInv, RoundReceivedBoth, Acquainted, OfferedTo, PostingStored, historyVars
  <1> QED
    BY <1>4, <1>5, <1>6, <1>7 DEF DistributionInv

(* Evicting a URL takes every record of its postings with it.                *)
LEMMA EvictKeepsInv ==
  ASSUME DistributionInv, NEW url \in URLs, EvictURL(url)
  PROVE  DistributionInv'
  <1> DEFINE gone == {p \in stored : URLOf(p) = url}
  <1>1. /\ Reschedule(NoTimes, gone)
        /\ offerIntervals' = [p \in DOMAIN offerIntervals \ gone |-> offerIntervals[p]]
        /\ holders' = [p \in DOMAIN holders \ gone |-> holders[p]]
        /\ stored' = stored \ gone
    BY DEF EvictURL, SchedulePurged, LedgerPurged
  <1>2. DOMAIN NoTimes = {}
    BY DEF NoTimes
  <1>3. Scheduled' = stored' /\ order' = {OrderEntry(q)' : q \in stored'}
    <2>1. Scheduled' = (Scheduled \ gone) \cup {} /\ order' = {OrderEntry(q)' : q \in Scheduled'}
      BY <1>1, <1>2, RescheduleMirrors DEF DistributionInv, RecordsFollowIndex
    <2> QED
      BY <1>1, <2>1 DEF DistributionInv, RecordsFollowIndex
  <1>4. ScheduleTypeOK'
    <2>1. /\ order' \subseteq Nat \X Posting
          /\ DOMAIN dueTimes' \subseteq Posting
          /\ \A q \in DOMAIN dueTimes' : dueTimes'[q] \in Nat
      BY <1>1, <1>2, RescheduleType DEF DistributionInv, TypeOK
    <2> QED
      BY <1>1, <2>1 DEF DistributionInv, TypeOK, ScheduleTypeOK, EvictURL
  <1>5. TypeOK'
    BY <1>1, <1>4, CycleAssumption
       DEF DistributionInv, TypeOK, LedgerTypeOK, EvictURL, networkVars, historyVars, Disrupt
  <1>6. RecordsFollowIndex'
    BY <1>1, <1>3 DEF DistributionInv, RecordsFollowIndex
  <1>7. HoldersReceivedBoth'
    BY <1>1 DEF DistributionInv, HoldersReceivedBoth, EvictURL, historyVars
  <1>8. RoundReceivedBoth'
    BY DEF DistributionInv, RoundReceivedBoth, Acquainted, OfferedTo, EvictURL, historyVars
  <1> QED
    BY <1>5, <1>6, <1>7, <1>8 DEF DistributionInv

-----------------------------------------------------------------------------
(* The roster, the clock and the crash. *)

(* A step that leaves the store, the ledger and the histories alone keeps    *)
(* all but the types and the batch in flight.                                *)
LEMMA RecordsUntouched ==
  ASSUME DistributionInv,
         UNCHANGED <<scheduleVars, holders, stored, historyVars>>
  PROVE  RecordsFollowIndex' /\ HoldersReceivedBoth'
  BY DEF DistributionInv, RecordsFollowIndex, HoldersReceivedBoth, Scheduled, OrderEntry,
         scheduleVars, historyVars

(* A step that leaves the batch alone leaves what its acceptances mean       *)
(* alone.                                                                    *)
LEMMA RoundUntouched ==
  ASSUME DistributionInv, UNCHANGED <<cycle, round, historyVars>>
  PROVE  RoundReceivedBoth'
  BY DEF DistributionInv, RoundReceivedBoth, Acquainted, OfferedTo, historyVars

(* No batch in flight promises nothing. *)
LEMMA RoundDropped ==
  ASSUME round' = NoRound, cycle'.stage # "describing"
  PROVE  RoundReceivedBoth'
  BY DEF RoundReceivedBoth, NoRound

(* Peers that come, go or change their mind touch no record.                 *)
LEMMA PeersChangeKeepsInv ==
  ASSUME DistributionInv, PeersChange
  PROVE  DistributionInv'
  <1>1. PICK x \in Peers : Contact(x) \/ ContactBeyondCapacity(x) \/ LoseContact(x)
    BY DEF PeersChange
  <1>2. TypeOK'
    <2>1. contact' \in [Peers -> Contacts] /\ accepting' \subseteq Peers
      BY <1>1 DEF Contact, ContactBeyondCapacity, LoseContact, DistributionInv, TypeOK, Contacts
    <2>2. disruptions' \in 0 .. MaxDisruptions
      BY <1>1, CycleAssumption
         DEF Contact, ContactBeyondCapacity, LoseContact, Disrupt, DistributionInv, TypeOK
    <2> QED
      BY <1>1, <2>1, <2>2 DEF Contact, ContactBeyondCapacity, LoseContact, DistributionInv, TypeOK,
           ScheduleTypeOK, LedgerTypeOK, scheduleVars, historyVars
  <1>3. UNCHANGED <<scheduleVars, holders, stored, historyVars, cycle, round>>
    BY <1>1 DEF Contact, ContactBeyondCapacity, LoseContact
  <1> QED
    BY <1>2, <1>3, RecordsUntouched, RoundUntouched DEF DistributionInv

(* Time passes for every record alike.                                       *)
LEMMA TickKeepsInv ==
  ASSUME DistributionInv, Tick
  PROVE  DistributionInv'
  <1>1. TypeOK'
    BY ScheduleAssumption DEF Tick, DistributionInv, TypeOK, ScheduleTypeOK, LedgerTypeOK,
         scheduleVars, networkVars, historyVars
  <1>2. UNCHANGED <<scheduleVars, holders, stored, historyVars, cycle, round>>
    BY DEF Tick
  <1> QED
    BY <1>1, <1>2, RecordsUntouched, RoundUntouched DEF DistributionInv

(* The batch in flight is dropped: the process restarts, or a transaction    *)
(* fails.                                                                    *)
LEMMA NoRoundType ==
  /\ NoRound = [offers |-> NoRound.offers, left |-> NoRound.left, asked |-> NoRound.asked,
                unknown |-> NoRound.unknown, accepted |-> NoRound.accepted,
                pauses |-> NoRound.pauses]
  /\ DOMAIN NoRound.offers \subseteq Posting
  /\ \A p \in DOMAIN NoRound.offers : NoRound.offers[p] \in Offer
  /\ NoRound.left \subseteq Peers /\ NoRound.asked \in Peers \cup {Self}
  /\ NoRound.unknown \subseteq URLs
  /\ NoRound.accepted \in [Peers -> SUBSET Posting]
  /\ NoRound.pauses \in [Posting -> Pauses]
  BY CycleAssumption DEF NoRound

(* The cycle between two batches is well typed.                              *)
LEMMA IdleCycleType ==
  /\ IdleCycle \in [stage : Stages, accepting : SUBSET Peers, drainEnds : Nat, full : BOOLEAN]
  /\ IdleCycle.stage = "idle"
  BY DEF IdleCycle, Stages

(* A restart or an aborted batch forgets the batch and nothing else.         *)
LEMMA DropKeepsInv ==
  ASSUME DistributionInv, Restart \/ AbortBatch
  PROVE  DistributionInv'
  <1>1. round' = NoRound /\ cycle' = IdleCycle
    BY DEF Restart, AbortBatch
  <1>2. /\ contact' \in [Peers -> Contacts] /\ heldBackUntil' \in [Peers -> Nat]
        /\ disruptions' \in 0 .. MaxDisruptions
    BY CycleAssumption
       DEF Restart, AbortBatch, Disrupt, DistributionInv, TypeOK, Contacts, networkVars
  <1>3. TypeOK'
    BY <1>1, <1>2, NoRoundType, IdleCycleType
       DEF Restart, AbortBatch, DistributionInv, TypeOK, ScheduleTypeOK, LedgerTypeOK,
           scheduleVars, networkVars, historyVars
  <1>4. UNCHANGED <<scheduleVars, holders, stored, historyVars>>
    BY DEF Restart, AbortBatch
  <1>5. RoundReceivedBoth'
    BY <1>1, IdleCycleType, RoundDropped
  <1> QED
    BY <1>3, <1>4, <1>5, RecordsUntouched DEF DistributionInv

-----------------------------------------------------------------------------
(* The loop. *)

(* A cycle begins with no batch read.                                        *)
LEMMA BeginKeepsInv ==
  ASSUME DistributionInv, BeginCycle
  PROVE  DistributionInv'
  <1>1. cycle' \in [stage : Stages, accepting : SUBSET Peers, drainEnds : Nat, full : BOOLEAN]
    BY CycleAssumption, ScheduleAssumption
       DEF BeginCycle, Stages, Reachable, DistributionInv, TypeOK, ScheduleTypeOK
  <1>2. cycle'.stage = "reading"
    BY DEF BeginCycle
  <1>3. TypeOK'
    BY <1>1, <1>2 DEF BeginCycle, DistributionInv, TypeOK, ScheduleTypeOK, LedgerTypeOK,
         scheduleVars, networkVars, historyVars
  <1>4. UNCHANGED <<scheduleVars, holders, stored, historyVars>>
    BY DEF BeginCycle
  <1>5. RoundReceivedBoth'
    BY <1>2 DEF BeginCycle, RoundReceivedBoth, Acquainted, DistributionInv, historyVars
  <1> QED
    BY <1>3, <1>4, <1>5, RecordsUntouched DEF DistributionInv

(* The holders recorded of a posting are peers. *)
LEMMA HoldersArePeers ==
  ASSUME TypeOK, NEW p
  PROVE  HoldersOf(p) \in SUBSET Peers
  BY DEF TypeOK, LedgerTypeOK, HoldersOf

(* A batch names due postings, the peers they are offered to, and no         *)
(* acceptance yet.                                                           *)
LEMMA ReadKeepsInv ==
  ASSUME DistributionInv, ReadDueBatch
  PROVE  DistributionInv'
  <1> DEFINE OfferOf(p) == OfferFor(PositionOfPosting(p), HoldersOf(p), Reachable, Recent,
                                    cycle.accepting, Eligible(cycle.accepting))
             Offers(batch) == [p \in batch \cap stored |-> OfferOf(p)]
  <1>1. PICK batch \in SUBSET Posting :
          /\ round' = [NoRound EXCEPT
                         !.offers = Offers(batch),
                         !.left = UNION {Offers(batch)[p].peers : p \in batch \cap stored}]
          /\ cycle' = [cycle EXCEPT !.stage = "offering",
                                    !.full = Cardinality(batch) = PostingsPerBatch]
          /\ heldBackUntil' =
               [x \in Peers |->
                  IF /\ \E p \in batch \cap stored : Offers(batch)[p].needed > 0
                     /\ x \in Eligible(cycle.accepting)
                    THEN 0 ELSE heldBackUntil[x]]
          /\ unoffered' = unoffered \ batch
    BY Zenon DEF ReadDueBatch
  <1> DEFINE offers == Offers(batch)
             left   == UNION {offers[p].peers : p \in batch \cap stored}
  <1>2. \A p \in batch \cap stored : OfferOf(p) \in Offer
    <2> TAKE p \in batch \cap stored
    <2>1. HoldersOf(p) \in SUBSET Peers
      BY HoldersArePeers DEF DistributionInv
    <2>2. cycle.accepting \in SUBSET Peers /\ Eligible(cycle.accepting) \in SUBSET Peers
      BY DEF DistributionInv, TypeOK, Eligible
    <2> QED
      BY <2>1, <2>2, OfferType
  <1>3. /\ DOMAIN offers = batch \cap stored
        /\ \A p \in DOMAIN offers : offers[p] \in Offer
        /\ left \subseteq Peers
    BY <1>2 DEF Offer
  <1>4. /\ heldBackUntil' \in [Peers -> Nat]
        /\ unoffered' \subseteq Posting
    BY <1>1 DEF DistributionInv, TypeOK
  <1>5. /\ round'.offers = offers /\ round'.left = left
        /\ round'.asked = Self /\ round'.unknown = {}
        /\ round'.accepted = [x \in Peers |-> {}] /\ round'.pauses = [p \in Posting |-> 0]
        /\ round' = [offers |-> round'.offers, left |-> round'.left, asked |-> round'.asked,
                     unknown |-> round'.unknown, accepted |-> round'.accepted,
                     pauses |-> round'.pauses]
    BY <1>1 DEF NoRound
  <1>6. /\ cycle' \in [stage : Stages, accepting : SUBSET Peers, drainEnds : Nat, full : BOOLEAN]
        /\ cycle'.stage = "offering"
    BY <1>1 DEF DistributionInv, TypeOK, Stages
  <1> HIDE DEF offers, left
  <1>7. UNCHANGED <<scheduleVars, now, holders, stored, known, networkVars, historyVars,
                    disruptions>>
    BY DEF ReadDueBatch
  <1>8. TypeOK'
    <2>1. DOMAIN round'.offers \subseteq Posting
      BY <1>3, <1>5 DEF DistributionInv, TypeOK
    <2>2. /\ \A p \in DOMAIN round'.offers : round'.offers[p] \in Offer
          /\ round'.left \subseteq Peers /\ round'.asked \in Peers \cup {Self}
          /\ round'.unknown \subseteq URLs
          /\ round'.accepted \in [Peers -> SUBSET Posting]
          /\ round'.pauses \in [Posting -> Pauses]
      BY <1>3, <1>5, CycleAssumption
    <2> QED
      BY <1>4, <1>5, <1>6, <1>7, <2>1, <2>2
         DEF DistributionInv, TypeOK, ScheduleTypeOK, LedgerTypeOK,
             scheduleVars, networkVars, historyVars
  <1>9. RoundReceivedBoth'
    BY <1>5, <1>6 DEF RoundReceivedBoth
  <1> QED
    BY <1>7, <1>8, <1>9, RecordsUntouched DEF DistributionInv

(* The histories only grow, so what the ledger and the acceptances claim of  *)
(* them stays true.                                                          *)
LEMMA HistoriesGrow ==
  ASSUME DistributionInv,
         \A x \in Peers : received[x] \subseteq received'[x] /\ described[x] \subseteq described'[x]
  PROVE  /\ UNCHANGED holders => HoldersReceivedBoth'
         /\ \A x \in Peers : \A p : Acquainted(x, p) => Acquainted(x, p)'
  BY DEF DistributionInv, TypeOK, LedgerTypeOK, HoldersReceivedBoth, Acquainted

(* A peer that declines gives up its offers and may ask for a pause.         *)
LEMMA DeclineKeepsInv ==
  ASSUME DistributionInv, NEW x \in Peers, PeerDeclines(x)
  PROVE  DistributionInv'
  <1>1. PICK pause \in Pauses :
          /\ heldBackUntil' = [heldBackUntil EXCEPT ![x] = now + MaxOf(pause, Cooldown)]
          /\ round' = [round EXCEPT
               !.left = @ \ {x},
               !.pauses = [p \in Posting |-> IF p \in OfferedTo(x) THEN MaxOf(@[p], pause) ELSE @[p]]]
    BY DEF PeerDeclines
  <1>2. UNCHANGED <<scheduleVars, now, holders, stored, known, networkVars, cycle, historyVars,
                    unoffered, disruptions>> /\ cycle.stage = "offering"
    BY DEF PeerDeclines
  <1>3. heldBackUntil' \in [Peers -> Nat]
    BY <1>1, CycleAssumption DEF DistributionInv, TypeOK, ScheduleTypeOK, MaxOf
  <1> DEFINE Pause(p) == IF p \in OfferedTo(x) THEN MaxOf(round.pauses[p], pause)
                                               ELSE round.pauses[p]
  <1>4. \A p \in Posting : Pause(p) \in Pauses
    BY DEF MaxOf, DistributionInv, TypeOK
  <1>5. /\ round'.offers = round.offers /\ round'.asked = round.asked
        /\ round'.unknown = round.unknown /\ round'.accepted = round.accepted
        /\ round'.left = round.left \ {x}
        /\ round'.pauses = [p \in Posting |-> Pause(p)]
        /\ round' = [offers |-> round'.offers, left |-> round'.left, asked |-> round'.asked,
                     unknown |-> round'.unknown, accepted |-> round'.accepted,
                     pauses |-> round'.pauses]
    BY <1>1 DEF DistributionInv, TypeOK
  <1>6. round'.pauses \in [Posting -> Pauses]
    BY <1>4, <1>5
  <1> HIDE DEF Pause
  <1>7. TypeOK'
    BY <1>2, <1>3, <1>5, <1>6 DEF DistributionInv, TypeOK, ScheduleTypeOK, LedgerTypeOK,
         scheduleVars, networkVars, historyVars
  <1>8. RoundReceivedBoth'
    BY <1>2, <1>5 DEF DistributionInv, RoundReceivedBoth, Acquainted, historyVars
  <1> QED
    BY <1>2, <1>7, <1>8, RecordsUntouched DEF DistributionInv

(* A peer that accepts received the postings it was offered.                 *)
LEMMA AcceptKeepsInv ==
  ASSUME DistributionInv, NEW x \in Peers, PeerAccepts(x)
  PROVE  DistributionInv'
  <1>1. PICK unknown \in SUBSET OfferedURLs(x) :
          /\ round' = [round EXCEPT !.left = @ \ {x}, !.asked = x, !.unknown = unknown]
          /\ described' = [described EXCEPT ![x] = @ \cup (OfferedURLs(x) \ unknown)]
    BY DEF PeerAccepts
  <1>2. /\ received' = [received EXCEPT ![x] = @ \cup OfferedTo(x)]
        /\ cycle' = [cycle EXCEPT !.stage = "describing"]
        /\ UNCHANGED <<scheduleVars, now, holders, stored, known, networkVars, heldBackUntil,
                       unoffered, disruptions>>
    BY DEF PeerAccepts
  <1>3. OfferedTo(x) \subseteq Posting /\ OfferedURLs(x) \subseteq URLs
    BY URLOfPosting DEF OfferedTo, OfferedURLs, DistributionInv, TypeOK
  <1>4. /\ received' \in [Peers -> SUBSET Posting] /\ described' \in [Peers -> SUBSET URLs]
        /\ \A y \in Peers : received[y] \subseteq received'[y] /\ described[y] \subseteq described'[y]
        /\ OfferedTo(x) \subseteq received'[x]
        /\ OfferedURLs(x) \ unknown \subseteq described'[x]
    BY <1>1, <1>2, <1>3 DEF DistributionInv, TypeOK
  <1>5. /\ round'.offers = round.offers /\ round'.left = round.left \ {x}
        /\ round'.asked = x /\ round'.unknown = unknown
        /\ round'.accepted = round.accepted /\ round'.pauses = round.pauses
        /\ round' = [offers |-> round'.offers, left |-> round'.left, asked |-> round'.asked,
                     unknown |-> round'.unknown, accepted |-> round'.accepted,
                     pauses |-> round'.pauses]
    BY <1>1 DEF DistributionInv, TypeOK
  <1>6. /\ cycle' \in [stage : Stages, accepting : SUBSET Peers, drainEnds : Nat, full : BOOLEAN]
        /\ cycle'.stage = "describing"
    BY <1>2 DEF DistributionInv, TypeOK, Stages
  <1>7. TypeOK'
    BY <1>2, <1>3, <1>4, <1>5, <1>6 DEF DistributionInv, TypeOK, ScheduleTypeOK, LedgerTypeOK,
         scheduleVars, networkVars
  <1>8. RecordsFollowIndex' /\ HoldersReceivedBoth'
    <2>1. RecordsFollowIndex'
      BY <1>2 DEF DistributionInv, RecordsFollowIndex, Scheduled, OrderEntry, scheduleVars
    <2> QED
      BY <1>2, <1>4, <2>1, HistoriesGrow
  <1>9. RoundReceivedBoth'
    <2>1. \A y \in Peers : \A p \in round'.accepted[y] : Acquainted(y, p)'
      BY <1>4, <1>5, HistoriesGrow DEF DistributionInv, RoundReceivedBoth
    <2>2. \A p \in OfferedTo(x) :
            p \in received'[x] /\ (URLOf(p) \in unknown \/ URLOf(p) \in described'[x])
      BY <1>4 DEF OfferedURLs
    <2>3. OfferedTo(x)' = OfferedTo(x)
      BY <1>5 DEF OfferedTo
    <2>4. OfferedTo(round.asked)' = OfferedTo(x)
      BY <1>5 DEF OfferedTo
    <2>5. \A p \in OfferedTo(round.asked)' :
            /\ p \in received'[round'.asked]
            /\ URLOf(p) \in round'.unknown \/ URLOf(p) \in described'[round'.asked]
      <3> TAKE p \in OfferedTo(round.asked)'
      <3>1. p \in OfferedTo(x)
        BY <2>4
      <3>2. round'.asked = x /\ round'.unknown = unknown
        BY <1>5
      <3>3. p \in received'[x] /\ (URLOf(p) \in unknown \/ URLOf(p) \in described'[x])
        BY <2>2, <3>1
      <3> QED
        BY <3>2, <3>3
    <2> QED
      BY <2>1, <2>5 DEF RoundReceivedBoth
  <1> QED
    BY <1>7, <1>8, <1>9 DEF DistributionInv

(* A peer counts as acceptor of a posting only once it was sent the metadata *)
(* too.                                                                      *)
LEMMA DeliverKeepsInv ==
  ASSUME DistributionInv, DeliverMetadata
  PROVE  DistributionInv'
  <1>0. PICK x \in Peers : x = round.asked
    BY DEF DeliverMetadata, DistributionInv, TypeOK
  <1> DEFINE ours == round.unknown \cap known
  <1>1. PICK delivered \in SUBSET ours, failed \in BOOLEAN :
          /\ described' = [described EXCEPT ![x] = @ \cup delivered]
          /\ round' = [round EXCEPT
               !.asked = Self, !.unknown = {},
               !.accepted[x] = PostingsWithMetadataDelivered(x,
                 IF failed /\ ours # {} THEN round.unknown ELSE round.unknown \ delivered)]
    BY <1>0 DEF DeliverMetadata
  <1>2. /\ heldBackUntil' = [heldBackUntil EXCEPT ![x] = 0]
        /\ cycle' = [cycle EXCEPT !.stage = "offering"]
        /\ UNCHANGED <<scheduleVars, now, holders, stored, known, networkVars, received,
                       unoffered, disruptions>>
        /\ cycle.stage = "describing"
    BY <1>0 DEF DeliverMetadata
  <1> DEFINE counted == PostingsWithMetadataDelivered(x,
                 IF failed /\ ours # {} THEN round.unknown ELSE round.unknown \ delivered)
  <1>3. x \in Peers /\ x \in DOMAIN round.accepted
    BY <1>2 DEF DistributionInv, TypeOK
  <1>4. /\ described' \in [Peers -> SUBSET URLs] /\ heldBackUntil' \in [Peers -> Nat]
        /\ \A y \in Peers : received[y] \subseteq received'[y] /\ described[y] \subseteq described'[y]
        /\ delivered \subseteq described'[x]
    BY <1>1, <1>2, <1>3 DEF DistributionInv, TypeOK
  <1>5. counted \subseteq Posting
    BY DEF PostingsWithMetadataDelivered, OfferedTo, DistributionInv, TypeOK
  <1>6. \A p \in counted : Acquainted(x, p)'
    <2> TAKE p \in counted
    <2>1. p \in OfferedTo(x) /\ (URLOf(p) \in round.unknown => URLOf(p) \in delivered)
      BY DEF PostingsWithMetadataDelivered
    <2>2. p \in received[x] /\ (URLOf(p) \in round.unknown \/ URLOf(p) \in described[x])
      BY <1>0, <1>2, <2>1 DEF DistributionInv, RoundReceivedBoth
    <2>3. p \in received'[x] /\ URLOf(p) \in described'[x]
      BY <1>3, <1>4, <2>1, <2>2
    <2> QED
      BY <2>3 DEF Acquainted
  <1>7. /\ round'.offers = round.offers /\ round'.left = round.left
        /\ round'.asked = Self /\ round'.unknown = {}
        /\ round'.accepted = [round.accepted EXCEPT ![x] = counted]
        /\ round'.pauses = round.pauses
        /\ round' = [offers |-> round'.offers, left |-> round'.left, asked |-> round'.asked,
                     unknown |-> round'.unknown, accepted |-> round'.accepted,
                     pauses |-> round'.pauses]
    BY <1>1 DEF DistributionInv, TypeOK
  <1>8. /\ cycle' \in [stage : Stages, accepting : SUBSET Peers, drainEnds : Nat, full : BOOLEAN]
        /\ cycle'.stage = "offering"
    BY <1>2 DEF DistributionInv, TypeOK, Stages
  <1> HIDE DEF ours, counted
  <1>9. round'.accepted \in [Peers -> SUBSET Posting]
    BY <1>3, <1>5, <1>7 DEF DistributionInv, TypeOK
  <1>10. TypeOK'
    BY <1>2, <1>4, <1>7, <1>8, <1>9 DEF DistributionInv, TypeOK, ScheduleTypeOK, LedgerTypeOK,
         scheduleVars, networkVars
  <1>11. RecordsFollowIndex' /\ HoldersReceivedBoth'
    <2>1. RecordsFollowIndex'
      BY <1>2 DEF DistributionInv, RecordsFollowIndex, Scheduled, OrderEntry, scheduleVars
    <2> QED
      BY <1>2, <1>4, <2>1, HistoriesGrow
  <1>12. RoundReceivedBoth'
    <2>1. \A y \in Peers : \A p \in round'.accepted[y] : Acquainted(y, p)'
      <3> TAKE y \in Peers
      <3>1. CASE y = x
        <4>1. round'.accepted[x] = counted
          BY <1>3, <1>7
        <4> QED
          BY <1>6, <3>1, <4>1
      <3>2. CASE y # x
        <4>1. round'.accepted[y] = round.accepted[y]
          BY <1>7, <3>2 DEF DistributionInv, TypeOK
        <4> QED
          BY <1>4, <4>1, HistoriesGrow DEF DistributionInv, RoundReceivedBoth
      <3> QED
        BY <3>1, <3>2
    <2> QED
      BY <1>8, <2>1 DEF RoundReceivedBoth
  <1> QED
    BY <1>10, <1>11, <1>12 DEF DistributionInv

-----------------------------------------------------------------------------
(* The commit of a batch. *)

(* The offers a batch sets are times, and intervals within their bounds, of  *)
(* postings that are stored and stay.                                        *)
LEMMA SetNextOffersType ==
  ASSUME TypeOK, NEW met \in SUBSET Posting, NEW missed \in SUBSET Posting,
         NEW pauses \in [Posting -> Nat], NEW gone \in SUBSET Posting,
         order = {OrderEntry(p) : p \in Scheduled},
         DOMAIN offerIntervals \subseteq Scheduled,
         SetNextOffers(met, missed, pauses, gone), now' = now
  PROVE  /\ ScheduleTypeOK'
         /\ Scheduled' = Scheduled \ gone
         /\ order' = {OrderEntry(p)' : p \in Scheduled'}
         /\ DOMAIN offerIntervals' \subseteq Scheduled'
  <1> DEFINE settled  == (met \cap Scheduled) \ gone
             retrying == (missed \cap Scheduled) \ gone
             Due(p)   == IF p \in settled THEN NextOfferDueFrom(dueTimes[p])
                                          ELSE now + PauseFrom(IntervalOf(p), pauses[p])
             due      == [p \in settled \cup retrying |-> Due(p)]
  <1>1. /\ Reschedule(due, gone)
        /\ offerIntervals' = [p \in (DOMAIN offerIntervals \ (met \cup gone)) \cup retrying |->
                                IF p \in retrying THEN WidenedFrom(IntervalOf(p))
                                                  ELSE offerIntervals[p]]
    BY DEF SetNextOffers
  <1>2. \A p \in Posting : IntervalOf(p) \in Nat /\ WidenedFrom(IntervalOf(p)) \in 1 .. LongestInterval
    <2> TAKE p \in Posting
    <2>1. IntervalOf(p) \in Nat
      BY DEF IntervalOf, TypeOK, ScheduleTypeOK
    <2> QED
      BY <2>1, WidenedType
  <1>3. \A p \in settled \cup retrying : Due(p) \in Nat
    <2> TAKE p \in settled \cup retrying
    <2>1. p \in Posting /\ dueTimes[p] \in Nat /\ pauses[p] \in Nat /\ now \in Nat
      BY DEF Scheduled, TypeOK, ScheduleTypeOK
    <2>2. NextOfferDueFrom(dueTimes[p]) \in Nat
      BY <2>1, NextOfferDueType
    <2>3. PauseFrom(IntervalOf(p), pauses[p]) \in Nat
      BY <1>2, <2>1 DEF PauseFrom, MaxOf
    <2> QED
      BY <2>1, <2>2, <2>3
  <1>4. DOMAIN due = settled \cup retrying /\ \A p \in DOMAIN due : due[p] \in Nat
    BY <1>3
  <1>5. settled \cup retrying \subseteq Scheduled \ gone
    OBVIOUS
  <1> HIDE DEF due, settled, Due
  <1>6. Scheduled' = (Scheduled \ gone) \cup DOMAIN due /\ order' = {OrderEntry(p)' : p \in Scheduled'}
    BY <1>1, <1>4, <1>5, RescheduleMirrors
  <1>7. Scheduled' = Scheduled \ gone
    BY <1>4, <1>5, <1>6
  <1>8. /\ order' \subseteq Nat \X Posting
        /\ DOMAIN dueTimes' \subseteq Posting
        /\ \A p \in DOMAIN dueTimes' : dueTimes'[p] \in Nat
    <2>1. DOMAIN due \subseteq Posting
      BY <1>4, <1>5 DEF Scheduled, TypeOK, ScheduleTypeOK
    <2> QED
      BY <1>1, <1>4, <2>1, RescheduleType DEF TypeOK
  <1>9. /\ DOMAIN offerIntervals' \subseteq Scheduled'
        /\ \A p \in DOMAIN offerIntervals' : offerIntervals'[p] \in 1 .. LongestInterval
    <2>1. DOMAIN offerIntervals' = (DOMAIN offerIntervals \ (met \cup gone)) \cup retrying
      BY <1>1
    <2>2. \A p \in DOMAIN offerIntervals' : offerIntervals'[p] \in 1 .. LongestInterval
      BY <1>1, <1>2, <2>1 DEF TypeOK, ScheduleTypeOK
    <2> QED
      BY <1>7, <2>1, <2>2
  <1>10. DOMAIN offerIntervals' \subseteq Posting
    BY <1>8, <1>9 DEF Scheduled
  <1> QED
    BY <1>6, <1>7, <1>8, <1>9, <1>10 DEF TypeOK, ScheduleTypeOK

(* What the commit records: the peers recorded before, less the stale ones,  *)
(* and those that accepted; each has the posting and its metadata.           *)
LEMMA HoldersAfterType ==
  ASSUME DistributionInv, NEW p \in Posting, NEW stale
  PROVE  /\ HoldersAfter(p, stale, Acceptors(p)) \subseteq Peers
         /\ HoldersAfter(p, stale, Acceptors(p)) # {} => p \in Scheduled
         /\ \A x \in HoldersAfter(p, stale, Acceptors(p)) : Acquainted(x, p)
  BY DEF HoldersAfter, HoldersOf, Acceptors, Acquainted, DistributionInv, TypeOK, LedgerTypeOK,
         RecordsFollowIndex, HoldersReceivedBoth, RoundReceivedBoth

(* Writing the outcome of a batch records holders, offers and hand-offs of   *)
(* stored postings only.                                                     *)
LEMMA CommitKeepsInv ==
  ASSUME DistributionInv, CommitBatch
  PROVE  DistributionInv'
  <1> DEFINE offered == DOMAIN round.offers
             after   == [p \in offered |-> HoldersAfter(p, round.offers[p].stale, Acceptors(p))]
             gone    == {p \in offered : MayHandOff(PositionOfPosting(p), after[p], Reachable)}
             met     == {p \in offered : Cardinality(Acceptors(p)) >= round.offers[p].needed}
             missed  == offered \ met
  <1>1. /\ Record(after, gone)
        /\ SetNextOffers(met, missed, round.pauses, gone)
        /\ stored' = stored \ gone /\ unoffered' = unoffered \ gone
        /\ cycle' = NextBatch /\ round' = NoRound
        /\ UNCHANGED <<now, known, networkVars, heldBackUntil, historyVars, disruptions>>
    BY DEF CommitBatch
  <1>2. /\ offered \subseteq Posting /\ gone \subseteq offered
        /\ met \subseteq offered /\ DOMAIN after = offered
    BY DEF DistributionInv, TypeOK
  <1>3. \A p \in offered : /\ after[p] \subseteq Peers
                           /\ after[p] # {} => p \in Scheduled
                           /\ \A x \in after[p] : Acquainted(x, p)
    <2> TAKE p \in offered
    <2>1. after[p] = HoldersAfter(p, round.offers[p].stale, Acceptors(p)) /\ p \in Posting
      BY <1>2
    <2> QED
      BY <2>1, HoldersAfterType
  <1> HIDE DEF offered, after, gone, met
  <1>4. round.pauses \in [Posting -> Nat]
    BY CycleAssumption DEF DistributionInv, TypeOK
  <1>5. /\ order = {OrderEntry(p) : p \in Scheduled} /\ DOMAIN offerIntervals \subseteq Scheduled
        /\ Scheduled = stored /\ now' = now
    BY <1>1 DEF DistributionInv, RecordsFollowIndex
  <1>6. /\ ScheduleTypeOK' /\ Scheduled' = Scheduled \ gone
        /\ order' = {OrderEntry(p)' : p \in Scheduled'}
        /\ DOMAIN offerIntervals' \subseteq Scheduled'
    <2>1. met \in SUBSET Posting /\ missed \in SUBSET Posting /\ gone \in SUBSET Posting
      BY <1>2
    <2>2. TypeOK
      BY DEF DistributionInv
    <2> QED
      BY <1>1, <1>4, <1>5, <2>1, <2>2, SetNextOffersType
  <1>7. DOMAIN holders' = ((DOMAIN holders \ offered) \cup {p \in offered : after[p] # {}}) \ gone
        /\ \A p \in DOMAIN holders' :
             holders'[p] = IF p \in offered THEN after[p] ELSE holders[p]
    BY <1>1, <1>2 DEF Record
  <1>8. /\ DOMAIN holders' \subseteq Scheduled'
        /\ \A p \in DOMAIN holders' : /\ holders'[p] \in (SUBSET Peers) \ {{}}
                                      /\ \A x \in holders'[p] : Acquainted(x, p)
    <2>1. DOMAIN holders' \subseteq Scheduled'
      BY <1>3, <1>5, <1>6, <1>7 DEF DistributionInv, RecordsFollowIndex
    <2> SUFFICES ASSUME NEW p \in DOMAIN holders'
                 PROVE  /\ holders'[p] \in (SUBSET Peers) \ {{}}
                        /\ \A x \in holders'[p] : Acquainted(x, p)
      BY <2>1
    <2>2. CASE p \in offered
      <3>1. holders'[p] = after[p] /\ after[p] # {}
        BY <1>7, <2>2
      <3>2. after[p] \subseteq Peers /\ \A x \in after[p] : Acquainted(x, p)
        BY <1>3, <2>2
      <3>3. \A x \in holders'[p] : Acquainted(x, p)
        BY <3>1, <3>2, Zenon
      <3>4. holders'[p] \in (SUBSET Peers) \ {{}}
        BY <3>1, <3>2
      <3> QED
        BY <3>3, <3>4
    <2>3. CASE p \notin offered
      <3>1. p \in DOMAIN holders /\ holders'[p] = holders[p]
        BY <1>7, <2>3
      <3> QED
        BY <3>1 DEF DistributionInv, TypeOK, LedgerTypeOK, HoldersReceivedBoth, Acquainted
    <2> QED
      BY <2>2, <2>3
  <1>9. TypeOK'
    <2>1. LedgerTypeOK'
      BY <1>6, <1>8 DEF LedgerTypeOK, ScheduleTypeOK, Scheduled
    <2>2. cycle' \in [stage : Stages, accepting : SUBSET Peers, drainEnds : Nat, full : BOOLEAN]
          /\ cycle'.stage # "describing"
      BY <1>1, IdleCycleType DEF NextBatch, DistributionInv, TypeOK, Stages
    <2>3. stored' \subseteq Posting /\ unoffered' \subseteq Posting
      BY <1>1 DEF DistributionInv, TypeOK
    <2> QED
      BY <1>1, <1>6, <2>1, <2>2, <2>3, NoRoundType
         DEF DistributionInv, TypeOK, networkVars, historyVars
  <1>10. RecordsFollowIndex'
    BY <1>1, <1>5, <1>6, <1>8 DEF RecordsFollowIndex
  <1>11. HoldersReceivedBoth'
    BY <1>1, <1>8 DEF HoldersReceivedBoth, Acquainted, historyVars
  <1>12. RoundReceivedBoth'
    BY <1>1, RoundDropped DEF NextBatch, IdleCycle
  <1> QED
    BY <1>9, <1>10, <1>11, <1>12 DEF DistributionInv

-----------------------------------------------------------------------------
(* The theorems. *)

(* Every step keeps the inductive invariant. *)
LEMMA NextKeepsInv == DistributionInv /\ [Next]_vars => DistributionInv'
  <1> SUFFICES ASSUME DistributionInv, [Next]_vars PROVE DistributionInv'
    OBVIOUS
  <1>1. CASE StoreChanges
    BY <1>1, StoredKeepsInv, EvictKeepsInv DEF StoreChanges
  <1>2. CASE PeersChange
    BY <1>2, PeersChangeKeepsInv
  <1>3. CASE BeginCycle
    BY <1>3, BeginKeepsInv
  <1>4. CASE ReadDueBatch
    BY <1>4, ReadKeepsInv
  <1>5. CASE Offering
    BY <1>5, DeclineKeepsInv, AcceptKeepsInv DEF Offering
  <1>6. CASE DeliverMetadata
    BY <1>6, DeliverKeepsInv
  <1>7. CASE CommitBatch
    BY <1>7, CommitKeepsInv
  <1>8. CASE Restart \/ AbortBatch
    BY <1>8, DropKeepsInv
  <1>9. CASE Tick
    BY <1>9, TickKeepsInv
  <1>10. CASE UNCHANGED vars
    <2>1. UNCHANGED <<scheduleVars, now, holders, stored, known, networkVars, heldBackUntil,
                      cycle, round, historyVars, unoffered, disruptions>>
      BY <1>10 DEF vars
    <2>2. TypeOK'
      BY <2>1 DEF DistributionInv, TypeOK, ScheduleTypeOK, LedgerTypeOK, scheduleVars,
           networkVars, historyVars
    <2> QED
      BY <2>1, <2>2, RecordsUntouched, RoundUntouched DEF DistributionInv
  <1> QED
    BY <1>1, <1>2, <1>3, <1>4, <1>5, <1>6, <1>7, <1>8, <1>9, <1>10 DEF Next

(* The inductive invariant holds in every reachable state. *)
THEOREM InvHolds == Spec => []DistributionInv
  BY InitInv, NextKeepsInv, PTL DEF Spec

(* Every record of the schedule, the ledger and the loop has its shape:      *)
(* intervals stay within the longest one, a batch names only peers.          *)
THEOREM CycleTypeCorrect == Spec => []TypeOK
  <1>1. DistributionInv => TypeOK
    BY DEF DistributionInv
  <1> QED
    BY <1>1, InvHolds, PTL

(* The due times, their order, the retry intervals and the recorded holders  *)
(* are of stored postings, whatever is evicted or stored anew under a batch. *)
THEOREM RecordsNeverDrift == Spec => []RecordsFollowIndex
  <1>1. DistributionInv => RecordsFollowIndex
    BY DEF DistributionInv
  <1> QED
    BY <1>1, InvHolds, PTL

(* A peer is recorded as a holder only after both the posting and the        *)
(* metadata of its URL reached it.                                           *)
THEOREM HoldersHaveBoth == Spec => []HoldersReceivedBoth
  <1>1. DistributionInv => HoldersReceivedBoth
    BY DEF DistributionInv
  <1> QED
    BY <1>1, InvHolds, PTL

(* What the commit hands off has the redundancy in closer peers that have    *)
(* the posting and its metadata.                                             *)
LEMMA CommitHandsOffSafely ==
  ASSUME DistributionInv, CommitBatch, NEW p \in stored \ stored'
  PROVE  Cardinality({x \in CloserThanSelf(Peers, PositionOfPosting(p)) :
                        p \in received[x] /\ URLOf(p) \in described[x]}) >= Redundancy
  <1> DEFINE after  == HoldersAfter(p, round.offers[p].stale, Acceptors(p))
             closer == CloserThanSelf(after \cap Reachable, PositionOfPosting(p))
             given  == {x \in CloserThanSelf(Peers, PositionOfPosting(p)) :
                          p \in received[x] /\ URLOf(p) \in described[x]}
  <1>1. p \in DOMAIN round.offers /\ p \in Posting /\ MayHandOff(PositionOfPosting(p), after, Reachable)
    BY DEF CommitBatch, DistributionInv, TypeOK
  <1>2. Cardinality(closer) >= Redundancy
    BY <1>1 DEF MayHandOff
  <1>3. after \subseteq Peers /\ \A x \in after : Acquainted(x, p)
    BY <1>1, HoldersAfterType
  <1> HIDE DEF after
  <1>4. closer \subseteq given
    BY <1>3 DEF CloserThanSelf, Acquainted
  <1>5. IsFiniteSet(given)
    <2>1. given \subseteq Peers
      BY DEF CloserThanSelf
    <2> QED
      BY <2>1, WindowAssumption, FS_Subset
  <1>6. Cardinality(closer) <= Cardinality(given)
    BY <1>4, <1>5, FS_Subset
  <1>7. Cardinality(closer) \in Nat /\ Cardinality(given) \in Nat
    BY <1>4, <1>5, FS_Subset, FS_CardinalityType
  <1>8. Cardinality(given) >= Redundancy
    <2> HIDE DEF closer, given
    <2> QED
      BY <1>2, <1>6, <1>7, WindowAssumption
  <1> QED
    BY <1>8

(* The node gives up a posting only with its URL, or once as many closer     *)
(* peers as the redundancy asks for got the posting and its metadata.        *)
THEOREM HandOffIsSafe == Spec => HandOffKeepsRedundancy
  <1>1. DistributionInv /\ [Next]_vars =>
          [\A p \in stored \ stored' :
             \/ URLOf(p) \notin known'
             \/ Cardinality({x \in CloserThanSelf(Peers, PositionOfPosting(p)) :
                               p \in received[x] /\ URLOf(p) \in described[x]}) >= Redundancy]_vars
    <2> SUFFICES ASSUME DistributionInv, [Next]_vars, NEW p \in stored \ stored'
                 PROVE  \/ URLOf(p) \notin known'
                        \/ Cardinality({x \in CloserThanSelf(Peers, PositionOfPosting(p)) :
                             p \in received[x] /\ URLOf(p) \in described[x]}) >= Redundancy
      OBVIOUS
    <2>1. CASE \E url \in URLs : EvictURL(url)
      BY <2>1 DEF EvictURL
    <2>2. CASE CommitBatch
      BY <2>2, CommitHandsOffSafely
    <2>3. CASE \/ UNCHANGED vars \/ \E q \in Posting : PostingStored(q)
      BY <2>3 DEF vars, PostingStored
    <2>4. CASE PeersChange \/ Offering
      BY <2>4 DEF PeersChange, Contact, ContactBeyondCapacity, LoseContact,
                  Offering, PeerDeclines, PeerAccepts
    <2>5. CASE \/ BeginCycle \/ ReadDueBatch \/ DeliverMetadata \/ AbortBatch \/ Tick \/ Restart
      BY <2>5 DEF BeginCycle, ReadDueBatch, DeliverMetadata, AbortBatch, Tick, Restart
    <2> QED
      BY <2>1, <2>2, <2>3, <2>4, <2>5 DEF Next, StoreChanges
  <1> QED
    BY <1>1, InvHolds, PTL DEF Spec, HandOffKeepsRedundancy

-----------------------------------------------------------------------------
(* Redundancy met. *)

(* An offer finds a holder for every replica required: the recorded ones it  *)
(* does not find stale, and as many as it needs of others.                   *)
MakesUp(offer, recorded, position, peers) ==
  /\ Cardinality(recorded \ offer.stale) + offer.needed >= RequiredReplicas(position, peers)
  /\ offer.needed > 0 => offer.peers \cap (recorded \ offer.stale) = {}

(* The recorded holders that an offer does not find stale are inside the     *)
(* window, or are not asked; with as many more as it needs there is a holder *)
(* for every replica required (offerFor).                                    *)
LEMMA OfferMakesUp ==
  ASSUME NEW position, NEW recorded \in SUBSET Peers, NEW reachable, NEW recent,
         NEW peers \in SUBSET Peers, NEW eligible \in SUBSET Peers
  PROVE  MakesUp(OfferFor(position, recorded, reachable, recent, peers, eligible),
                 recorded, position, peers)
  <1> DEFINE inside   == HoldersInside(position, recorded, reachable, recent, peers)
             outside  == HoldersOutside(position, recorded, reachable, peers)
             expired  == ExpiredHolders(recorded, reachable, recent)
             required == RequiredReplicas(position, peers)
             missing  == required - Cardinality(inside)
             asked    == ClosestTo(eligible \ (inside \cup outside), position, missing)
             offer    == OfferFor(position, recorded, reachable, recent, peers, eligible)
             kept     == recorded \ offer.stale
  <1>1. /\ inside \subseteq recorded /\ outside \subseteq recorded
        /\ recorded \ expired = inside \cup outside
        /\ recorded \ (expired \cup outside) = inside
    BY DEF HoldersInside, HoldersOutside, ExpiredHolders
  <1>2. /\ IsFiniteSet(inside) /\ Cardinality(inside) \in Nat
        /\ IsFiniteSet(kept) /\ Cardinality(kept) \in Nat
    BY <1>1, WindowAssumption, FS_Subset, FS_CardinalityType
  <1>3. required \in Int
    BY WindowAssumption DEF RequiredReplicas
  <1>4. offer = IF missing <= 0
                  THEN [peers |-> peers \cap inside, needed |-> 0, stale |-> expired \cup outside]
                  ELSE [peers |-> asked, needed |-> missing, stale |-> expired]
    BY DEF OfferFor
  <1>5. asked \subseteq eligible \ (inside \cup outside)
    BY ClosestIsSubset
  <1> HIDE DEF inside, outside, expired, required, asked, offer
  <1>6. inside \subseteq kept
    BY <1>1, <1>4
  <1>7. Cardinality(inside) <= Cardinality(kept)
    BY <1>2, <1>6, FS_Subset
  <1>8. Cardinality(kept) + offer.needed >= required
    BY <1>2, <1>3, <1>4, <1>7
  <1>9. offer.needed > 0 => offer.peers \cap kept = {}
    BY <1>1, <1>4, <1>5
  <1> QED
    BY <1>8, <1>9 DEF required, offer, MakesUp

(* The offers of a batch in flight still make up the replicas they were read *)
(* for, and only those who were offered a posting accept it.                 *)
OffersMakeUp ==
  cycle.stage \in {"offering", "describing"} =>
    \A p \in (DOMAIN round.offers \cap stored) \ unoffered :
      MakesUp(round.offers[p], HoldersOf(p), PositionOfPosting(p), cycle.accepting)

OffersAccepted == \A x \in Peers : round.accepted[x] \subseteq OfferedTo(x)

OffersInv == DistributionInv /\ OffersMakeUp /\ OffersAccepted

(* What is in flight stays good while the batch, the ledger and the peers of *)
(* the cycle are as they were, whatever leaves the store or comes anew.      *)
LEMMA OffersStand ==
  ASSUME OffersInv, UNCHANGED <<round, cycle>>,
         \A p \in (DOMAIN round.offers \cap stored') \ unoffered' :
            p \in stored \ unoffered /\ HoldersOf(p)' = HoldersOf(p)
  PROVE  OffersMakeUp' /\ OffersAccepted'
  <1>1. OffersAccepted'
    BY DEF OffersInv, OffersAccepted, OfferedTo
  <1>2. ASSUME cycle.stage \in {"offering", "describing"},
               NEW p \in (DOMAIN round.offers \cap stored') \ unoffered'
        PROVE  MakesUp(round.offers[p], HoldersOf(p)', PositionOfPosting(p), cycle.accepting)
    BY <1>2 DEF OffersInv, OffersMakeUp
  <1> QED
    BY <1>1, <1>2 DEF OffersMakeUp

(* The store's side: what it stores anew under a batch is set apart.         *)
LEMMA StoreKeepsOffers ==
  ASSUME OffersInv, StoreChanges
  PROVE  OffersMakeUp' /\ OffersAccepted'
  <1>1. ASSUME NEW p \in Posting, PostingStored(p) PROVE OffersMakeUp' /\ OffersAccepted'
    BY <1>1, OffersStand DEF PostingStored, HoldersOf
  <1>2. ASSUME NEW url \in URLs, EvictURL(url) PROVE OffersMakeUp' /\ OffersAccepted'
    <2>1. ASSUME NEW p \in stored' PROVE HoldersOf(p)' = HoldersOf(p) /\ p \in stored
      BY <1>2, <2>1 DEF EvictURL, HoldersOf, LedgerPurged
    <2>2. UNCHANGED <<round, cycle>> /\ unoffered' = unoffered \ {p \in stored : URLOf(p) = url}
          /\ stored' = stored \ {p \in stored : URLOf(p) = url}
      BY <1>2 DEF EvictURL
    <2> QED
      BY <2>1, <2>2, OffersStand
  <1> QED
    BY <1>1, <1>2 DEF StoreChanges

(* A batch is read with the offers the holders recorded then call for.       *)
LEMMA ReadKeepsOffers ==
  ASSUME OffersInv, ReadDueBatch
  PROVE  OffersMakeUp' /\ OffersAccepted'
  <1> DEFINE OfferOf(p) == OfferFor(PositionOfPosting(p), HoldersOf(p), Reachable, Recent,
                                    cycle.accepting, Eligible(cycle.accepting))
             Offers(batch) == [p \in batch \cap stored |-> OfferOf(p)]
  <1>1. PICK batch \in SUBSET Posting :
          /\ round' = [NoRound EXCEPT
                         !.offers = Offers(batch),
                         !.left = UNION {Offers(batch)[p].peers : p \in batch \cap stored}]
          /\ cycle' = [cycle EXCEPT !.stage = "offering",
                                    !.full = Cardinality(batch) = PostingsPerBatch]
    BY Zenon DEF ReadDueBatch
  <1>2. /\ round'.offers = Offers(batch) /\ round'.accepted = [x \in Peers |-> {}]
        /\ cycle'.accepting = cycle.accepting /\ UNCHANGED <<stored, holders>>
    BY <1>1 DEF NoRound, ReadDueBatch, DistributionInv, OffersInv, TypeOK
  <1>3. OffersAccepted'
    BY <1>2 DEF OffersAccepted
  <1>4. ASSUME NEW p \in DOMAIN round'.offers
        PROVE  MakesUp(round'.offers[p], HoldersOf(p)', PositionOfPosting(p), cycle'.accepting)
    <2>1. round'.offers[p] = OfferOf(p) /\ HoldersOf(p)' = HoldersOf(p)
      BY <1>2 DEF HoldersOf
    <2>2. HoldersOf(p) \in SUBSET Peers /\ cycle.accepting \in SUBSET Peers
          /\ Eligible(cycle.accepting) \in SUBSET Peers
      BY HoldersArePeers DEF OffersInv, DistributionInv, TypeOK, Eligible
    <2>3. MakesUp(OfferOf(p), HoldersOf(p), PositionOfPosting(p), cycle.accepting)
      BY <2>2, OfferMakesUp
    <2> QED
      BY <1>2, <2>1, <2>3
  <1> QED
    BY <1>3, <1>4 DEF OffersMakeUp

(* Answers of the peers count for the postings they were offered.            *)
LEMMA AnswersKeepOffers ==
  ASSUME OffersInv, Offering \/ DeliverMetadata
  PROVE  OffersMakeUp' /\ OffersAccepted'
  <1>1. /\ round'.offers = round.offers /\ cycle'.accepting = cycle.accepting
        /\ cycle.stage \in {"offering", "describing"} /\ UNCHANGED <<stored, holders, unoffered>>
    BY DEF Offering, PeerDeclines, PeerAccepts, DeliverMetadata, OffersInv, DistributionInv, TypeOK
  <1>2. \A p : HoldersOf(p)' = HoldersOf(p)
    BY <1>1 DEF HoldersOf
  <1>3. OffersMakeUp'
    BY <1>1, <1>2 DEF OffersInv, OffersMakeUp
  <1>4. \A x \in Peers : round'.accepted[x] = round.accepted[x]
                          \/ round'.accepted[x] \subseteq OfferedTo(x)
    <2>1. CASE Offering
      <3>1. round'.accepted = round.accepted
        BY <2>1 DEF Offering, PeerDeclines, PeerAccepts, OffersInv, DistributionInv, TypeOK
      <3> QED
        BY <3>1
    <2>2. CASE DeliverMetadata
      <3>1. PICK x \in Peers : \E counted \in SUBSET OfferedTo(x) :
              round'.accepted = [round.accepted EXCEPT ![x] = counted]
        <4>1. \A undelivered : PostingsWithMetadataDelivered(round.asked, undelivered)
                                 \in SUBSET OfferedTo(round.asked)
          BY DEF PostingsWithMetadataDelivered
        <4>2. round.asked \in Peers
          BY <2>2 DEF DeliverMetadata, OffersInv, DistributionInv, TypeOK
        <4> QED
          BY <2>2, <4>1, <4>2 DEF DeliverMetadata, OffersInv, DistributionInv, TypeOK
      <3> QED
        BY <3>1 DEF OffersInv, DistributionInv, TypeOK
    <2> QED
      BY <2>1, <2>2
  <1>5. OffersAccepted'
    BY <1>1, <1>4 DEF OffersInv, OffersAccepted, OfferedTo
  <1> QED
    BY <1>3, <1>5

(* A batch that is over, or not read yet, promises nothing.                  *)
LEMMA NoOffers ==
  ASSUME OffersInv, BeginCycle \/ CommitBatch \/ AbortBatch \/ Restart
  PROVE  OffersMakeUp' /\ OffersAccepted'
  <1>1. cycle'.stage \notin {"offering", "describing"}
    BY DEF BeginCycle, CommitBatch, AbortBatch, Restart, NextBatch, IdleCycle, OffersInv,
           DistributionInv, TypeOK
  <1>2. round' = round \/ round' = NoRound
    BY DEF BeginCycle, CommitBatch, AbortBatch, Restart
  <1>3. OffersAccepted'
    BY <1>2 DEF OffersInv, OffersAccepted, OfferedTo, NoRound
  <1> QED
    BY <1>1, <1>3 DEF OffersMakeUp

(* The offers of every batch make up the replicas in every reachable state.  *)
LEMMA OffersHold == Spec => []OffersInv
  <1>1. Init => OffersInv
    BY InitInv DEF Init, OffersInv, OffersMakeUp, OffersAccepted, IdleCycle, NoRound, OfferedTo
  <1>2. OffersInv /\ [Next]_vars => OffersInv'
    <2> SUFFICES ASSUME OffersInv, [Next]_vars PROVE OffersMakeUp' /\ OffersAccepted'
      BY NextKeepsInv DEF OffersInv
    <2>1. CASE StoreChanges
      BY <2>1, StoreKeepsOffers
    <2>2. CASE ReadDueBatch
      BY <2>2, ReadKeepsOffers
    <2>3. CASE Offering \/ DeliverMetadata
      BY <2>3, AnswersKeepOffers
    <2>4. CASE BeginCycle \/ CommitBatch \/ AbortBatch \/ Restart
      BY <2>4, NoOffers
    <2>5. CASE PeersChange \/ Tick \/ UNCHANGED vars
      <3>1. UNCHANGED <<round, cycle, holders, stored, unoffered>>
        BY <2>5 DEF PeersChange, Contact, ContactBeyondCapacity, LoseContact, Tick, vars
      <3> QED
        BY <3>1, OffersStand DEF HoldersOf
    <2> QED
      BY <2>1, <2>2, <2>3, <2>4, <2>5 DEF Next
  <1> QED
    BY <1>1, <1>2, PTL DEF Spec

(* The recorded holders that the batch does not drop.                        *)
Kept(p) == HoldersOf(p) \ round.offers[p].stale

(* A posting the commit takes off the retry intervals has a holder for every *)
(* replica: acceptances add to the holders kept, as nobody kept was asked.   *)
LEMMA CommitRecordsReplicas ==
  ASSUME OffersInv, CommitBatch, NEW p \in (DOMAIN round.offers \cap stored') \ unoffered,
         p \notin DOMAIN offerIntervals'
  PROVE  Cardinality(HoldersOf(p)') >= RequiredReplicas(PositionOfPosting(p), cycle.accepting)
  <1> DEFINE offered == DOMAIN round.offers
             after   == [q \in offered |-> HoldersAfter(q, round.offers[q].stale, Acceptors(q))]
             gone    == {q \in offered : MayHandOff(PositionOfPosting(q), after[q], Reachable)}
             met     == {q \in offered : Cardinality(Acceptors(q)) >= round.offers[q].needed}
             needed  == round.offers[p].needed
             required == RequiredReplicas(PositionOfPosting(p), cycle.accepting)
  <1>1. /\ Record(after, gone) /\ SetNextOffers(met, offered \ met, round.pauses, gone)
        /\ stored' = stored \ gone /\ cycle.stage = "offering"
    BY DEF CommitBatch
  <1>2. p \in stored /\ p \notin gone /\ p \in Scheduled
    BY <1>1 DEF OffersInv, DistributionInv, RecordsFollowIndex
  <1>3. p \in met
    <2>1. DOMAIN offerIntervals' =
             (DOMAIN offerIntervals \ (met \cup gone)) \cup (((offered \ met) \cap Scheduled) \ gone)
      BY <1>1 DEF SetNextOffers
    <2> HIDE DEF met, gone
    <2> QED
      BY <1>2, <2>1
  <1>4. /\ Cardinality(Kept(p)) + needed >= required
        /\ needed > 0 => round.offers[p].peers \cap Kept(p) = {}
    BY <1>1, <1>2 DEF OffersInv, OffersMakeUp, Kept, MakesUp
  <1>5. Acceptors(p) \subseteq round.offers[p].peers /\ Acceptors(p) \subseteq Peers
    BY DEF Acceptors, OffersInv, OffersAccepted, OfferedTo
  <1>6. after[p] = Kept(p) \cup Acceptors(p)
    BY <1>2 DEF HoldersAfter, Kept
  <1>7. HoldersOf(p)' = after[p]
    <2>1. holders' = [q \in ((DOMAIN holders \ offered) \cup {q \in offered : after[q] # {}}) \ gone
                        |-> IF q \in offered THEN after[q] ELSE holders[q]]
      BY <1>1 DEF Record
    <2>2. p \in DOMAIN holders' <=> after[p] # {}
      BY <1>2, <2>1
    <2>3. p \in DOMAIN holders' => holders'[p] = after[p]
      BY <2>1
    <2> HIDE DEF after
    <2> QED
      BY <2>2, <2>3 DEF HoldersOf
  <1>8. Kept(p) \subseteq Peers
    BY HoldersArePeers DEF Kept, OffersInv, DistributionInv
  <1>9. /\ IsFiniteSet(Kept(p)) /\ IsFiniteSet(Acceptors(p))
        /\ Cardinality(Kept(p)) \in Nat /\ Cardinality(Acceptors(p)) \in Nat
        /\ IsFiniteSet(after[p]) /\ Cardinality(after[p]) \in Nat
    <2>1. after[p] \subseteq Peers
      BY <1>5, <1>6, <1>8
    <2> QED
      BY <1>5, <1>8, <2>1, WindowAssumption, FS_Subset, FS_CardinalityType
  <1>10. needed \in Nat /\ required \in Int /\ Cardinality(Acceptors(p)) >= needed
    BY <1>3, WindowAssumption DEF OffersInv, DistributionInv, TypeOK, Offer, RequiredReplicas
  <1> HIDE DEF after, needed, required
  <1>11. CASE needed = 0
    <2>1. Cardinality(Kept(p)) <= Cardinality(after[p])
      BY <1>6, <1>9, FS_Subset
    <2> QED
      BY <1>4, <1>7, <1>9, <1>10, <1>11, <2>1 DEF required
  <1>12. CASE needed > 0
    <2>1. Kept(p) \cap Acceptors(p) = {}
      BY <1>4, <1>5, <1>12
    <2>2. Cardinality(after[p]) = Cardinality(Kept(p)) + Cardinality(Acceptors(p))
      <3>1. Cardinality(Kept(p) \cap Acceptors(p)) = 0
        BY <2>1, FS_EmptySet
      <3>2. Cardinality(Kept(p) \cup Acceptors(p))
              = Cardinality(Kept(p)) + Cardinality(Acceptors(p)) - Cardinality(Kept(p) \cap Acceptors(p))
        BY <1>9, FS_Union
      <3> QED
        BY <1>6, <1>9, <3>1, <3>2
    <2> QED
      BY <1>4, <1>7, <1>9, <1>10, <2>2 DEF required
  <1> QED
    BY <1>10, <1>11, <1>12

(* What a commit takes off the retry intervals has its redundancy recorded,  *)
(* whatever arrived, was evicted or became unreachable under the batch.      *)
THEOREM MetMeansRecorded == Spec => RedundancyMetIsRecorded
  <1>1. OffersInv /\ [Next]_vars =>
          [\A p \in (DOMAIN round.offers \cap stored') \ unoffered :
             CommitBatch /\ p \notin DOMAIN offerIntervals' =>
               Cardinality(HoldersOf(p)') >=
                 RequiredReplicas(PositionOfPosting(p), cycle.accepting)]_vars
    BY CommitRecordsReplicas
  <1> QED
    BY <1>1, OffersHold, PTL DEF Spec, RedundancyMetIsRecorded

=============================================================================
