----------------------------- MODULE NodeStore ------------------------------
(* The storage core of the node: transferred postings, transferred URL       *)
(* metadata and offered pages arrive concurrently, two background loops      *)
(* expire held postings and evict the stalest URLs, and all of them share    *)
(* one vault.  A vault transaction is one step, because the engine runs      *)
(* write transactions one at a time and a commit is atomic.  What the code   *)
(* does outside a transaction, the capacity check before a write and the     *)
(* usage the sweep measures, is a step of its own.                           *)
EXTENDS PostingIndex, PostingEscrow, URLMetadata

CONSTANTS Handlers,          \* request handlers and page consumers running at once
          Quota,             \* entries the vault may hold before it refuses writes
          HighWater,         \* entries at which a sweep starts to purge
          BatchesPerSweep,   \* batches one sweep purges at most
          MaxEntries,        \* bound of the model: postings in one request
          MaxRows,           \* bound of the model: metadata rows in one request
          MaxCalls           \* bound of the model: requests that get past the check

ASSUME StoreAssumption ==
  /\ IsFiniteSet(Handlers)
  /\ Quota \in Nat \ {0} /\ HighWater \in Nat /\ BatchesPerSweep \in Nat \ {0}
  /\ MaxEntries \in Nat /\ MaxRows \in Nat \ {0} /\ MaxCalls \in Nat   \* a page has a row

VARIABLES calls,     \* handler -> what it is about to do
          received,  \* requests that got past the capacity check so far
          sweep      \* the eviction loop: its stage and the batches it has left

vars == <<indexVars, escrowed, holds, now, metadataVars, calls, received, sweep>>

storeVars == <<indexVars, escrowed, holds, metadataVars>>

Rankings == UNION {[urls -> Ranks] : urls \in SUBSET URLs}

NoRows == [u \in {} |-> 0]

Stages == {"idle", "routing", "storing", "checkingPostings"}

Call == [stage : Stages, rows : Rankings, entries : SUBSET Posting]

Idle == [stage |-> "idle", rows |-> NoRows, entries |-> {}]

NodeTypeOK ==
  /\ calls \in [Handlers -> Call]
  /\ received \in 0 .. MaxCalls
  /\ sweep \in [stage : {"idle", "measuring", "purging"}, left : 0 .. BatchesPerSweep]
  /\ sweep.stage # "idle" => sweep.left > 0

(* Every bucket has the shape its codecs write and every loop is at one of   *)
(* its own steps.                                                            *)
TypeOK == IndexTypeOK /\ EscrowTypeOK /\ MetadataTypeOK /\ NodeTypeOK

Init ==
  /\ IndexInit /\ EscrowInit /\ MetadataInit
  /\ calls = [h \in Handlers |-> Idle]
  /\ received = 0
  /\ sweep = [stage |-> "idle", left |-> 0]

(* UsedBytes: the vault tallies every bucket; one entry weighs one here. *)
UsedBytes ==
  Cardinality(postings) + Cardinality(words) + Cardinality(referenced)
    + Cardinality(Held) + Cardinality(holds)
    + Cardinality(Known) + Cardinality(order) + Cardinality(DOMAIN freshness)

AtCapacity == UsedBytes >= Quota

-----------------------------------------------------------------------------
(* Requests.  A refused request changes nothing, so only the ones that get   *)
(* past the capacity check are steps.                                        *)

Become(h, stage, rows, entries) ==
  calls' = [calls EXCEPT ![h] = [stage |-> stage, rows |-> rows, entries |-> entries]]

Accept(h, stage, rows, entries) ==
  /\ calls[h] = Idle
  /\ ~AtCapacity
  /\ received < MaxCalls
  /\ received' = received + 1
  /\ Become(h, stage, rows, entries)
  /\ UNCHANGED <<storeVars, now, sweep>>

ReceivePostings(h) ==
  \E entries \in SUBSET Posting :
    /\ entries # {} /\ Cardinality(entries) <= MaxEntries
    /\ Accept(h, "routing", NoRows, entries)

ReceiveURLs(h) ==
  \E rows \in Rankings :
    /\ rows # NoRows /\ Cardinality(DOMAIN rows) <= MaxRows
    /\ Accept(h, "storing", rows, {})

(* A page brings the metadata of one URL, then the postings of its words.    *)
OfferPage(h) ==
  \E url \in URLs, rank \in Ranks, pageWords \in SUBSET Words :
    /\ pageWords # {} /\ Cardinality(pageWords) <= MaxEntries
    /\ Accept(h, "storing", [u \in {url} |-> rank], pageWords \X {url})

Awaiting(entries) == {p \in entries : URLOf(p) \in MissingURLs({URLOf(q) : q \in entries})}

(* Mutant: a held posting is admitted as well. *)
RouteThrough(h) ==
  LET entries == calls[h].entries
  IN  /\ calls[h].stage = "routing"
      /\ EscrowHasRoomFor(Awaiting(entries))
      /\ Hold(Awaiting(entries))
      /\ Admit(entries)
      /\ calls' = [calls EXCEPT ![h] = Idle]
      /\ UNCHANGED <<metadataVars, now, received, sweep>>

(* The transaction of a posting receiver: postings of unknown URLs are held, *)
(* the others are admitted.  A full escrow fails all of it.                  *)
RoutePostings(h) ==
  LET entries  == calls[h].entries
      awaiting == Awaiting(entries)
  IN  /\ calls[h].stage = "routing"
      /\ EscrowHasRoomFor(awaiting)
      /\ Hold(awaiting)
      /\ Admit(entries \ awaiting)
      /\ calls' = [calls EXCEPT ![h] = Idle]
      /\ UNCHANGED <<metadataVars, now, received, sweep>>

(* The transaction of a metadata receiver: every row is stored, the ranking  *)
(* hears of it, and what the escrow held for it joins the index.             *)
StoreURLs(h) ==
  LET call     == calls[h]
      released == WaitingFor(DOMAIN call.rows)
  IN  /\ call.stage = "storing"
      /\ StoreRows(call.rows)
      /\ Admit(released)
      /\ Release(released)
      /\ IF call.entries = {}
           THEN calls' = [calls EXCEPT ![h] = Idle]
           ELSE Become(h, "checkingPostings", NoRows, call.entries)
      /\ UNCHANGED <<now, received, sweep>>

(* Mutant: one check serves both transactions of a page. *)
PassPagePostings(h) ==
  /\ calls[h].stage = "checkingPostings"
  /\ Become(h, "routing", NoRows, calls[h].entries)
  /\ UNCHANGED <<storeVars, now, received, sweep>>

(* A page's postings go through the receiver peers use, capacity check       *)
(* first; refused, the page message returns to its queue.                    *)
CheckPagePostings(h) ==
  /\ calls[h].stage = "checkingPostings"
  /\ IF AtCapacity
       THEN calls' = [calls EXCEPT ![h] = Idle]
       ELSE Become(h, "routing", NoRows, calls[h].entries)
  /\ UNCHANGED <<storeVars, now, received, sweep>>

(* The escrow is full, the disk is, or the request's context has ended: the  *)
(* transaction aborts and its request gets a refusal or an error.            *)
Refuse(h) ==
  /\ calls[h] # Idle
  /\ calls' = [calls EXCEPT ![h] = Idle]
  /\ UNCHANGED <<storeVars, now, received, sweep>>

-----------------------------------------------------------------------------
(* The expiry loop. *)

Expire ==
  /\ Expired # {}
  /\ \E batch \in SUBSET Expired : ExpireBatch(batch)
  /\ UNCHANGED <<indexVars, metadataVars, now, calls, received, sweep>>

(* The sweep loop: usage is measured outside the transaction that purges. *)

StartSweep ==
  /\ sweep.stage = "idle"
  /\ UsedBytes >= HighWater   \* otherwise the sweep ends where it starts
  /\ sweep' = [stage |-> "purging", left |-> BatchesPerSweep]
  /\ UNCHANGED <<storeVars, now, calls, received>>

MeasureUsage ==
  /\ sweep.stage = "measuring"
  /\ sweep' = IF UsedBytes < HighWater THEN [stage |-> "idle", left |-> 0]
                                       ELSE [sweep EXCEPT !.stage = "purging"]
  /\ UNCHANGED <<storeVars, now, calls, received>>

(* One batch: the stalest URLs, every posting referencing them, then their   *)
(* metadata.  A batch that deletes no URL ends the sweep.                    *)
PurgeStalest ==
  /\ sweep.stage = "purging"
  /\ \E entries \in SUBSET order :
       LET urls == {e[2] : e \in entries}
       IN  /\ StalestEntries(entries)
           /\ PurgePostings(PostingsReferencing(urls))
           /\ PurgeURLs(urls)
           /\ sweep' = IF sweep.left = 1 \/ urls \cap Known = {}
                         THEN [stage |-> "idle", left |-> 0]
                         ELSE [stage |-> "measuring", left |-> sweep.left - 1]
  /\ UNCHANGED <<escrowed, holds, now, calls, received>>

(* The distribution cycle hands postings off to peers that hold them now: it *)
(* purges postings one by one, whatever became of them since it read them.   *)
HandOff ==
  /\ \E set \in SUBSET Posting : set # {} /\ PurgePostings(set)
  /\ UNCHANGED <<escrowed, holds, metadataVars, now, calls, received, sweep>>

-----------------------------------------------------------------------------

Tick ==
  /\ now < MaxNow
  /\ now' = now + 1
  /\ UNCHANGED <<storeVars, calls, received, sweep>>

(* The process dies and starts again: the vault is all it keeps. *)
Restart ==
  /\ calls' = [h \in Handlers |-> Idle]
  /\ sweep' = [stage |-> "idle", left |-> 0]
  /\ UNCHANGED <<storeVars, now, received>>

Handler(h) ==
  \/ ReceivePostings(h) \/ ReceiveURLs(h) \/ OfferPage(h)
  \/ RoutePostings(h) \/ StoreURLs(h) \/ CheckPagePostings(h) \/ Refuse(h)

Sweeping == StartSweep \/ MeasureUsage \/ PurgeStalest

Next == (\E h \in Handlers : Handler(h)) \/ Expire \/ Sweeping \/ HandOff \/ Tick \/ Restart

Spec == Init /\ [][Next]_vars

(* Both loops tick for as long as the node runs and the clock moves on; a    *)
(* handler waits for nothing but the vault.  A sweep cannot be cut short by  *)
(* a restart every time, hence strong fairness.  Requests need not come.     *)
Fairness ==
  /\ WF_vars(Expire) /\ WF_vars(Tick)
  /\ WF_vars(StartSweep) /\ SF_vars(MeasureUsage) /\ SF_vars(PurgeStalest)
  /\ \A h \in Handlers : WF_vars(RoutePostings(h) \/ StoreURLs(h)
                                   \/ CheckPagePostings(h) \/ Refuse(h))

FairSpec == Spec /\ Fairness

-----------------------------------------------------------------------------
(* Properties. *)

(* What eviction looks up for a URL is exactly what the index stores for it: *)
(* urlreferences "never drifts" from the postings it projects, through       *)
(* admissions, releases from the escrow and purges.                          *)
ReferencesMirror ==
  /\ words = {Reference(p) : p \in postings}
  /\ referenced = {URLOf(p) : p \in postings}

(* The escrow's two buckets agree: every held posting has one hold, at the   *)
(* time of its last arrival, so expiry neither misses a posting nor drops    *)
(* one by a hold it no longer has.                                           *)
HoldsMirror == holds = {HoldOf(p) : p \in Held}

(* The escrow never outgrows its capacity, however requests interleave.      *)
EscrowBounded == Cardinality(Held) <= EscrowCapacity

(* No posting waits for metadata the node already has: an arrival that races *)
(* the metadata it waits for is either routed to the index or released.      *)
OnlyAwaitedHeld == \A p \in Held : URLOf(p) \notin Known

(* "The index carries only postings this node can redistribute": each has    *)
(* the metadata of its URL, across evictions and the two transactions of a   *)
(* page.                                                                     *)
Redistributable == \A p \in postings : URLOf(p) \in Known

(* Eviction can reach every URL: its entry in the order is at the rank of    *)
(* its stored metadata, whatever was stored for it before.                   *)
EveryURLRanked ==
  /\ freshness = urlMetadata
  /\ \A u \in Known : <<urlMetadata[u], u>> \in order

(* No index of the vault drifts from the bucket it projects: the references  *)
(* from the postings, the holds from the escrow, the ranks from the rows.    *)
IndexesAgree == ReferencesMirror /\ HoldsMirror /\ EveryURLRanked

(* The capacity check is outside the transaction, so requests that pass it   *)
(* together overshoot the quota: by no more than one request's growth for    *)
(* each handler.                                                             *)
GrowthOfOneRequest ==
  LET routing == 3 * MaxEntries   \* a posting, its word, its URL
      storing == 3 * MaxRows + EscrowCapacity   \* a release swaps two for three
  IN  IF routing > storing THEN routing ELSE storing

Writing == {h \in Handlers : calls[h].stage \in {"routing", "storing"}}

UsageBounded ==
  UsedBytes < Quota + GrowthOfOneRequest * (Cardinality(Handlers) - Cardinality(Writing))

(* A posting the node took is never lost silently: one leaves the escrow     *)
(* into the index or after its whole hold, and one leaves the index only     *)
(* with the metadata of its URL or handed off.                               *)
NothingLostSilently ==
  [][/\ \A p \in Held \ DOMAIN escrowed' : p \in postings' \/ escrowed[p] + HoldFor < now
     /\ \A p \in postings \ postings' : URLOf(p) \notin DOMAIN urlMetadata' \/ HandOff]_vars

(* Every hold ends: the posting is released, held anew, or dropped, as long  *)
(* as the clock gets past its hold period.                                   *)
HoldsEnd ==
  \A p \in Posting, t \in Time :
    t + HoldFor < MaxNow => (<<t, p>> \in holds ~> <<t, p>> \notin holds)

(* Eviction frees storage: once requests stop, usage stays below the high    *)
(* water mark unless no URL is left to evict.                                *)
SweepFreesStorage == <>[](UsedBytes < HighWater \/ Known = {})

(* The storage core implements the index it promises: a posting is in the    *)
(* index or waiting according to the one set of URLs the node knows, moves   *)
(* between them only with its metadata, and goes with it.                    *)
Index == INSTANCE RWIIndex WITH known <- Known, index <- postings, held <- Held,
                                Capacity <- EscrowCapacity

ImplementsIndex == Index!Spec

(* urlmetastaleness.go:4 says of the order that it never drifts from the     *)
(* metadata it mirrors: it holds no entry but those of the stored metadata.  *)
(* The code does not keep it (README, what the code does not keep).          *)
OrderNeverDrifts == order \subseteq {<<urlMetadata[u], u>> : u \in Known}

=============================================================================
