------------------------- MODULE DistributionCycle --------------------------
(* The distribution of stored postings to the peers the DHT makes            *)
(* responsible for them.  One loop runs cycle after cycle: it reads due      *)
(* postings in one transaction, sends them to peers without holding any, and *)
(* records the results in another.  Postings arrive, are replaced and are    *)
(* evicted in between, peers come and go, and the process may restart.       *)
EXTENDS ReplicaLedger

CONSTANTS Cooldown,            \* a peer that declined is held back at least this long
          MinReachablePeers,   \* peers below which a cycle offers nothing
          DrainBudget,         \* time after which a cycle starts no further batch
          Pauses,              \* bound of the model: pauses a declining peer may ask for
          MaxDisruptions       \* bound of the model: arrivals, evictions, losses, restarts

ASSUME CycleAssumption ==
  /\ Cooldown \in Nat \ {0} /\ MinReachablePeers \in Nat \ {0} /\ DrainBudget \in Nat
  /\ Pauses \subseteq Nat /\ 0 \in Pauses /\ MaxDisruptions \in Nat

VARIABLES stored,          \* the posting bucket
          known,           \* URLs whose metadata is stored
          contact,         \* peer -> what the roster says of it
          accepting,       \* peers whose last seed accepts a remote index
          heldBackUntil,   \* peer -> end of its cooldown, 0 when it has none
          cycle,           \* the loop: its stage, the peers it began with, its budget
          round,           \* the batch in flight
          received,        \* history: peer -> postings it accepted an offer of
          described,       \* history: peer -> URLs it knew or got the metadata of
          unoffered,       \* history: postings no batch has read since they were stored
          disruptions

networkVars == <<contact, accepting>>
historyVars == <<received, described>>
vars == <<scheduleVars, now, holders, stored, known, networkVars, heldBackUntil, cycle, round,
          historyVars, unoffered, disruptions>>

Contacts == {"reachable", "recent", "gone"}

Reachable == {x \in Peers : contact[x] = "reachable"}
Recent    == {x \in Peers : contact[x] # "gone"}

Offer == [peers : SUBSET Peers, needed : 0 .. Redundancy, stale : SUBSET Peers]

NoRound == [offers |-> [p \in {} |-> {}], left |-> {}, asked |-> Self, unknown |-> {},
            accepted |-> [x \in Peers |-> {}], pauses |-> [p \in Posting |-> 0]]

IdleCycle == [stage |-> "idle", accepting |-> {}, drainEnds |-> 0, full |-> FALSE]

Stages == {"idle", "reading", "offering", "describing"}

(* Every record has the shape its codec writes, and the loop is at one of    *)
(* its own steps.                                                            *)
TypeOK ==
  /\ ScheduleTypeOK /\ LedgerTypeOK
  /\ stored \subseteq Posting /\ known \subseteq URLs /\ unoffered \subseteq Posting
  /\ contact \in [Peers -> Contacts] /\ accepting \subseteq Peers
  /\ heldBackUntil \in [Peers -> Nat]
  /\ cycle \in [stage : Stages, accepting : SUBSET Peers, drainEnds : Nat, full : BOOLEAN]
  /\ round = [offers |-> round.offers, left |-> round.left, asked |-> round.asked,
              unknown |-> round.unknown, accepted |-> round.accepted, pauses |-> round.pauses]
  /\ DOMAIN round.offers \subseteq Posting
  /\ \A p \in DOMAIN round.offers : round.offers[p] \in Offer
  /\ round.left \subseteq Peers /\ round.asked \in Peers \cup {Self} /\ round.unknown \subseteq URLs
  /\ round.accepted \in [Peers -> SUBSET Posting]
  /\ round.pauses \in [Posting -> Pauses]
  /\ cycle.stage = "describing" => round.asked \in Peers
  /\ received \in [Peers -> SUBSET Posting] /\ described \in [Peers -> SUBSET URLs]
  /\ disruptions \in 0 .. MaxDisruptions

Init ==
  /\ ScheduleInit /\ LedgerInit
  /\ stored = {} /\ known = {} /\ unoffered = {}
  /\ contact = [x \in Peers |-> "gone"] /\ accepting = {}
  /\ heldBackUntil = [x \in Peers |-> 0]
  /\ cycle = IdleCycle /\ round = NoRound
  /\ received = [x \in Peers |-> {}] /\ described = [x \in Peers |-> {}]
  /\ disruptions = 0

Disrupt == disruptions < MaxDisruptions /\ disruptions' = disruptions + 1

-----------------------------------------------------------------------------
(* The store's side: postingRecords observes it inside its transactions.     *)

(* A posting arrives, new or again, with the metadata of its URL. *)
PostingStored(p) ==
  /\ stored' = stored \cup {p}
  /\ known' = known \cup {URLOf(p)}
  /\ ScheduleStored({p})
  /\ unoffered' = unoffered \cup ({p} \ stored)
  /\ Disrupt
  /\ UNCHANGED <<now, holders, networkVars, heldBackUntil, cycle, round, historyVars>>

(* Eviction drops a URL: its postings, then its metadata. *)
EvictURL(url) ==
  LET postings == {p \in stored : URLOf(p) = url}
  IN  /\ url \in known
      /\ stored' = stored \ postings
      /\ known' = known \ {url}
      /\ SchedulePurged(postings) /\ LedgerPurged(postings)
      /\ unoffered' = unoffered \ postings
      /\ Disrupt
      /\ UNCHANGED <<now, networkVars, heldBackUntil, cycle, round, historyVars>>

-----------------------------------------------------------------------------
(* The roster's side: announcement and admission confirm peers or give them  *)
(* up at any time.                                                           *)

(* A peer is confirmed reachable, with a seed that may say something else.   *)
Contact(x) ==
  /\ contact' = [contact EXCEPT ![x] = "reachable"]
  /\ \E accepts \in BOOLEAN :
       /\ accepting' = IF accepts THEN accepting \cup {x} ELSE accepting \ {x}
       /\ IF accepts /\ contact[x] # "reachable" THEN UNCHANGED disruptions ELSE Disrupt
  /\ UNCHANGED <<scheduleVars, now, holders, stored, known, heldBackUntil, cycle, round,
                 historyVars, unoffered>>

(* A peer is confirmed while the reachable set is full: credible, no more.  *)
ContactBeyondCapacity(x) ==
  /\ contact[x] = "gone"
  /\ contact' = [contact EXCEPT ![x] = "recent"]
  /\ Disrupt
  /\ UNCHANGED <<scheduleVars, now, holders, stored, known, accepting, heldBackUntil, cycle,
                 round, historyVars, unoffered>>

(* A contact fails: the peer leaves the reachable set, then the roster takes *)
(* its credibility, which also ends when no contact renews it.               *)
LoseContact(x) ==
  /\ \E c \in {"recent", "gone"} \ {contact[x]} :
       contact[x] # "gone" /\ contact' = [contact EXCEPT ![x] = c]
  /\ Disrupt
  /\ UNCHANGED <<scheduleVars, now, holders, stored, known, accepting, heldBackUntil, cycle,
                 round, historyVars, unoffered>>

-----------------------------------------------------------------------------
(* The loop. *)

BeginCycle ==
  /\ cycle.stage = "idle"
  /\ Cardinality(Reachable) >= MinReachablePeers
  /\ cycle' = [stage |-> "reading", accepting |-> Reachable \cap accepting,
               drainEnds |-> now + DrainBudget, full |-> FALSE]
  /\ UNCHANGED <<scheduleVars, now, holders, stored, known, networkVars, heldBackUntil, round,
                 historyVars, unoffered, disruptions>>

Eligible(peers) == {x \in peers : heldBackUntil[x] <= now}

(* DueNow: the due postings still stored and the offer each calls for.  The  *)
(* peers are those the cycle began with; holders are looked up now.  Asking  *)
(* for the eligible peers clears the cooldowns that have run out.            *)
ReadDueBatch ==
  /\ cycle.stage = "reading"
  /\ \E batch \in SUBSET Posting :
       LET due       == batch \cap stored
           eligible  == Eligible(cycle.accepting)
           offers    == [p \in due |->
                           OfferFor(PositionOfPosting(p), HoldersOf(p), Reachable, Recent,
                                    cycle.accepting, eligible)]
           asksPeers == \E p \in due : offers[p].needed > 0
       IN  /\ DuePostings(batch)
           /\ round' = [NoRound EXCEPT !.offers = offers,
                                       !.left = UNION {offers[p].peers : p \in due}]
           /\ cycle' = [cycle EXCEPT !.stage = "offering",
                                     !.full = Cardinality(batch) = PostingsPerBatch]
           /\ heldBackUntil' = [x \in Peers |-> IF asksPeers /\ x \in eligible
                                                  THEN 0 ELSE heldBackUntil[x]]
           /\ unoffered' = unoffered \ batch
  /\ UNCHANGED <<scheduleVars, now, holders, stored, known, networkVars, historyVars, disruptions>>

OfferedTo(x) == {p \in DOMAIN round.offers : x \in round.offers[p].peers}
OfferedURLs(x) == {URLOf(p) : p \in OfferedTo(x)}

(* The peer cannot be addressed or reached, or declines, maybe asking for a  *)
(* pause.                                                                    *)
PeerDeclines(x) ==
  /\ cycle.stage = "offering" /\ x \in round.left
  /\ \E pause \in Pauses :
       /\ heldBackUntil' = [heldBackUntil EXCEPT ![x] = now + MaxOf(pause, Cooldown)]
       /\ round' = [round EXCEPT
            !.left = @ \ {x},
            !.pauses = [p \in Posting |-> IF p \in OfferedTo(x) THEN MaxOf(@[p], pause) ELSE @[p]]]
  /\ UNCHANGED <<scheduleVars, now, holders, stored, known, networkVars, cycle, historyVars,
                 unoffered, disruptions>>

(* The peer accepts the postings and names the URLs it does not know.        *)
PeerAccepts(x) ==
  /\ cycle.stage = "offering" /\ x \in round.left
  /\ \E unknown \in SUBSET OfferedURLs(x) :
       /\ round' = [round EXCEPT !.left = @ \ {x}, !.asked = x, !.unknown = unknown]
       /\ described' = [described EXCEPT ![x] = @ \cup (OfferedURLs(x) \ unknown)]
  /\ received' = [received EXCEPT ![x] = @ \cup OfferedTo(x)]
  /\ cycle' = [cycle EXCEPT !.stage = "describing"]
  /\ UNCHANGED <<scheduleVars, now, holders, stored, known, networkVars, heldBackUntil,
                 unoffered, disruptions>>

(* Mutant: an offer accepted counts before its metadata is delivered. *)
PostingsWithoutMetadata(x, undelivered) == OfferedTo(x)

PostingsWithMetadataDelivered(x, undelivered) ==
  {p \in OfferedTo(x) : URLOf(p) \notin undelivered}

(* The metadata goes out in batches and may fail after some of them, or the  *)
(* peer rejects some URLs; what this node no longer knows is not sent at all.*)
DeliverMetadata ==
  LET x     == round.asked
      ours  == round.unknown \cap known
  IN  /\ cycle.stage = "describing"
      /\ \E delivered \in SUBSET ours, failed \in BOOLEAN :
           LET undelivered == IF failed /\ ours # {} THEN round.unknown
                                                     ELSE round.unknown \ delivered
           IN  /\ described' = [described EXCEPT ![x] = @ \cup delivered]
               /\ round' = [round EXCEPT
                    !.asked = Self, !.unknown = {},
                    !.accepted[x] = PostingsWithMetadataDelivered(x, undelivered)]
      /\ heldBackUntil' = [heldBackUntil EXCEPT ![x] = 0]
      /\ cycle' = [cycle EXCEPT !.stage = "offering"]
      /\ UNCHANGED <<scheduleVars, now, holders, stored, known, networkVars, received,
                     unoffered, disruptions>>

Acceptors(p) == {x \in Peers : p \in round.accepted[x]}

(* drainDuePostings: another batch after a full one, while the budget lasts. *)
NextBatch == IF cycle.full /\ now < cycle.drainEnds THEN [cycle EXCEPT !.stage = "reading"]
                                                    ELSE IdleCycle

(* commitBatch: stale holders are dropped, acceptances recorded, postings    *)
(* enough closer peers hold now purged, and the next offers set.             *)
CommitBatch ==
  LET offered  == DOMAIN round.offers
      after    == [p \in offered |-> HoldersAfter(p, round.offers[p].stale, Acceptors(p))]
      gone     == {p \in offered : MayHandOff(PositionOfPosting(p), after[p], Reachable)}
      met      == {p \in offered : Cardinality(Acceptors(p)) >= round.offers[p].needed}
  IN  /\ cycle.stage = "offering" /\ round.left = {}
      /\ Record(after, gone)
      /\ stored' = stored \ gone
      /\ SetNextOffers(met, offered \ met, round.pauses, gone)
      /\ unoffered' = unoffered \ gone
      /\ cycle' = NextBatch /\ round' = NoRound
      /\ UNCHANGED <<now, known, networkVars, heldBackUntil, historyVars, disruptions>>

(* The read or the write fails: nothing is recorded and the cycle ends.      *)
AbortBatch ==
  /\ \/ cycle.stage = "reading"
     \/ cycle.stage = "offering" /\ round.left = {}
  /\ cycle' = IdleCycle /\ round' = NoRound
  /\ Disrupt
  /\ UNCHANGED <<scheduleVars, now, holders, stored, known, networkVars, heldBackUntil,
                 historyVars, unoffered>>

-----------------------------------------------------------------------------

Tick ==
  /\ now < MaxNow
  /\ now' = now + 1
  /\ UNCHANGED <<scheduleVars, holders, stored, known, networkVars, heldBackUntil, cycle, round,
                 historyVars, unoffered, disruptions>>

(* The reachable set, the cooldowns and the batch live in memory; a peer     *)
(* reachable until then stays credible for a while.                          *)
Restart ==
  /\ contact' = [x \in Peers |-> IF contact[x] = "reachable" THEN "recent" ELSE contact[x]]
  /\ heldBackUntil' = [x \in Peers |-> 0]
  /\ cycle' = IdleCycle /\ round' = NoRound
  /\ Disrupt
  /\ UNCHANGED <<scheduleVars, now, holders, stored, known, accepting, historyVars, unoffered>>

StoreChanges == (\E p \in Posting : PostingStored(p)) \/ (\E url \in URLs : EvictURL(url))

PeersChange == \E x \in Peers : Contact(x) \/ ContactBeyondCapacity(x) \/ LoseContact(x)

Offering == \E x \in Peers : PeerDeclines(x) \/ PeerAccepts(x)

Next ==
  \/ StoreChanges \/ PeersChange
  \/ BeginCycle \/ ReadDueBatch \/ Offering \/ DeliverMetadata \/ CommitBatch \/ AbortBatch
  \/ Tick \/ Restart

Spec == Init /\ [][Next]_vars

(* The loop's ticker never stops and every request it makes is answered or   *)
(* times out.                                                                *)
Fairness ==
  WF_vars(BeginCycle \/ ReadDueBatch \/ Offering \/ DeliverMetadata \/ CommitBatch)

FairSpec == Spec /\ Fairness

-----------------------------------------------------------------------------
(* Properties. *)

(* The work queue follows the index: every stored posting, and no other, is  *)
(* due at one time, under which the order lists it; only stored postings     *)
(* have a retry interval or recorded holders.  A batch in flight brings none *)
(* back that was evicted or handed off under it.                             *)
RecordsFollowIndex ==
  /\ Scheduled = stored
  /\ order = {OrderEntry(p) : p \in stored}
  /\ DOMAIN offerIntervals \subseteq stored
  /\ DOMAIN holders \subseteq stored

(* "The posting counts toward redundancy only after both steps reach the     *)
(* peer": a recorded holder has been given the posting, and knew or was      *)
(* given the metadata of its URL.                                            *)
HoldersReceivedBoth ==
  \A p \in DOMAIN holders : \A x \in holders[p] :
    p \in received[x] /\ URLOf(p) \in described[x]

(* The index gives up a posting only with its URL, or once the redundancy in *)
(* peers closer than this node has been given the posting and its metadata.  *)
HandOffKeepsRedundancy ==
  [][\A p \in stored \ stored' :
       \/ URLOf(p) \notin known'
       \/ Cardinality({x \in CloserThanSelf(Peers, PositionOfPosting(p)) :
                         p \in received[x] /\ URLOf(p) \in described[x]}) >= Redundancy]_vars

(* A posting the commit takes off the retry intervals, and that was not      *)
(* stored anew under the batch, has a recorded holder for every replica the  *)
(* window required when the batch was read.                                  *)
RedundancyMetIsRecorded ==
  [][\A p \in (DOMAIN round.offers \cap stored') \ unoffered :
       CommitBatch /\ p \notin DOMAIN offerIntervals' =>
         Cardinality(HoldersOf(p)') >=
           RequiredReplicas(PositionOfPosting(p), cycle.accepting)]_vars

(* A posting that falls due is offered, or goes, unless the cycles stop for  *)
(* want of reachable peers.                                                  *)
DuePostingsAreOffered ==
  \A p \in Posting :
    (p \in Scheduled /\ dueTimes[p] <= now)
      ~> (p \notin Scheduled \/ dueTimes[p] > now
            \/ Cardinality(Reachable) < MinReachablePeers)

(* The code keeps neither of the two below (README, what the code does not   *)
(* keep).                                                                    *)

(* "A newly stored posting is due at once": until a batch has read it. *)
NewlyStoredIsDue == \A p \in unoffered : dueTimes[p] <= now

(* "Inside the window, fewer peers than the redundancy are closer, so the    *)
(* deletion cannot fire": a posting is handed off only by a node outside the *)
(* window its batch was read with.                                           *)
HandOffOutsideWindow ==
  [][\A p \in stored \ stored' :
       CommitBatch => RequiredReplicas(PositionOfPosting(p), cycle.accepting) = Redundancy]_vars

=============================================================================
