-------------------------- MODULE NodeStoreProofs ---------------------------
(* What the storage core keeps for every set of words, URLs and handlers and *)
(* every bound: its invariants, how far usage overshoots the quota, what a   *)
(* step never loses, and that it implements RWIIndex.                        *)
EXTENDS NodeStore, TLAPS, FiniteSetTheorems

USE DEF Posting, URLOf, WordOf

-----------------------------------------------------------------------------
(* Type correctness. *)

(* The empty set of rows is a ranking.                                       *)
LEMMA EmptyRanking == NoRows \in Rankings /\ DOMAIN NoRows = {}
<1>1. NoRows \in [{} -> Ranks]
  BY DEF NoRows
<1>2. {} \in SUBSET URLs
  OBVIOUS
<1> QED BY <1>1, <1>2 DEF Rankings, NoRows

(* A handler without a request is in a state of its type.                    *)
LEMMA IdleIsCall == Idle \in Call
BY EmptyRanking DEF Idle, Call, Stages

(* Rows are ranked URLs.                                                     *)
LEMMA RowsAreRanked ==
  ASSUME NEW rows \in Rankings
  PROVE  DOMAIN rows \subseteq URLs /\ \A u \in DOMAIN rows : rows[u] \in Ranks
BY DEF Rankings

(* Storing rows over rows leaves a ranking.                                  *)
LEMMA OverwrittenIsRanking ==
  ASSUME NEW f, PartialRanking(f), NEW rows \in Rankings
  PROVE  PartialRanking(Overwritten(f, rows))
BY RowsAreRanked DEF PartialRanking, Overwritten

(* The clock is the only number the store writes down. *)
LEMMA TypeInit == Init => TypeOK
<1> SUFFICES ASSUME Init PROVE TypeOK
  OBVIOUS
<1>1. IndexTypeOK
  BY DEF Init, IndexInit, IndexTypeOK
<1>2. EscrowTypeOK
  BY EscrowAssumption DEF Init, EscrowInit, EscrowTypeOK, Time
<1>3. MetadataTypeOK
  BY DEF Init, MetadataInit, MetadataTypeOK, PartialRanking
<1>4. NodeTypeOK
  BY IdleIsCall, StoreAssumption DEF Init, NodeTypeOK
<1> QED BY <1>1, <1>2, <1>3, <1>4 DEF TypeOK

(* Admitting postings keeps the types of the index.                          *)
LEMMA AdmitType ==
  ASSUME IndexTypeOK, NEW set \in SUBSET Posting, Admit(set)
  PROVE  IndexTypeOK'
BY DEF IndexTypeOK, Admit, ReferencesStored, Reference

(* Purging postings keeps the types of the index.                            *)
LEMMA PurgeType ==
  ASSUME IndexTypeOK, NEW set, PurgePostings(set)
  PROVE  IndexTypeOK'
BY DEF IndexTypeOK, PurgePostings, ReferencesPurged, Reference

(* Holding postings keeps the types of the escrow.                           *)
LEMMA HoldType ==
  ASSUME EscrowTypeOK, NEW set \in SUBSET Posting, Hold(set), now' = now
  PROVE  EscrowTypeOK'
BY DEF EscrowTypeOK, Hold, Held, HoldOf

(* Dropping holds keeps the types of the escrow.                             *)
LEMMA DropType ==
  ASSUME EscrowTypeOK, NEW dropped, Drop(dropped), now' = now
  PROVE  EscrowTypeOK'
BY DEF EscrowTypeOK, Drop, Held

(* Storing rows keeps the types of the metadata buckets.                     *)
LEMMA StoreRowsType ==
  ASSUME MetadataTypeOK, NEW rows \in Rankings, StoreRows(rows)
  PROVE  MetadataTypeOK'
BY OverwrittenIsRanking, RowsAreRanked DEF MetadataTypeOK, StoreRows, RankStored

(* Purging URLs keeps the types of the metadata buckets.                     *)
LEMMA PurgeURLsType ==
  ASSUME MetadataTypeOK, NEW urls, PurgeURLs(urls)
  PROVE  MetadataTypeOK'
BY DEF MetadataTypeOK, PartialRanking, PurgeURLs, RankPurged, Known

(* A handler that goes on to another stage stays well typed.                 *)
LEMMA BecomeType ==
  ASSUME NodeTypeOK, NEW h \in Handlers, NEW stage \in Stages, NEW rows \in Rankings,
         NEW entries \in SUBSET Posting, Become(h, stage, rows, entries)
  PROVE  calls' \in [Handlers -> Call]
BY DEF NodeTypeOK, Become, Call

(* A handler that ends its request stays well typed.                         *)
LEMMA ToIdleType ==
  ASSUME NodeTypeOK, NEW h \in Handlers, calls' = [calls EXCEPT ![h] = Idle]
  PROVE  calls' \in [Handlers -> Call]
BY IdleIsCall DEF NodeTypeOK

(* A handler that takes a request stays well typed.                          *)
LEMMA AcceptType ==
  ASSUME TypeOK, NEW h \in Handlers, NEW stage \in Stages, NEW rows \in Rankings,
         NEW entries \in SUBSET Posting, Accept(h, stage, rows, entries)
  PROVE  TypeOK'
<1>1. IndexTypeOK' /\ EscrowTypeOK' /\ MetadataTypeOK'
  BY DEF TypeOK, Accept, storeVars, indexVars, metadataVars, IndexTypeOK, EscrowTypeOK,
         MetadataTypeOK, PartialRanking
<1>2. calls' \in [Handlers -> Call]
  BY BecomeType DEF TypeOK, Accept
<1>3. received' \in 0 .. MaxCalls /\ sweep' = sweep
  BY StoreAssumption DEF TypeOK, NodeTypeOK, Accept
<1> QED BY <1>1, <1>2, <1>3 DEF TypeOK, NodeTypeOK

(* A step that leaves the store alone keeps the types of its buckets. *)
LEMMA StoreUntouchedType ==
  ASSUME TypeOK, UNCHANGED storeVars, now' = now
  PROVE  IndexTypeOK' /\ EscrowTypeOK' /\ MetadataTypeOK'
BY DEF TypeOK, storeVars, indexVars, metadataVars, IndexTypeOK, EscrowTypeOK,
       MetadataTypeOK, PartialRanking

(* What a handler carries is rows and postings.                              *)
LEMMA CallTyped ==
  ASSUME TypeOK, NEW h \in Handlers
  PROVE  calls[h].rows \in Rankings /\ calls[h].entries \in SUBSET Posting
BY DEF TypeOK, NodeTypeOK, Call

(* Routing postings to index and escrow keeps every type.                    *)
LEMMA RoutePostingsType ==
  ASSUME TypeOK, NEW h \in Handlers, RoutePostings(h)
  PROVE  TypeOK'
<1> DEFINE entries  == calls[h].entries
           awaiting == Awaiting(entries)
<1>1. entries \in SUBSET Posting /\ awaiting \in SUBSET Posting
  BY CallTyped DEF Awaiting
<1>2. Hold(awaiting) /\ Admit(entries \ awaiting) /\ now' = now
  BY DEF RoutePostings
<1>3. EscrowTypeOK'
  BY <1>1, <1>2, HoldType DEF TypeOK
<1>4. IndexTypeOK'
  BY <1>1, <1>2, AdmitType DEF TypeOK
<1>5. MetadataTypeOK'
  BY DEF RoutePostings, metadataVars, TypeOK, MetadataTypeOK, PartialRanking
<1>6. NodeTypeOK'
  BY ToIdleType DEF RoutePostings, TypeOK, NodeTypeOK
<1> QED BY <1>3, <1>4, <1>5, <1>6 DEF TypeOK

(* Storing URLs and releasing what waited for them keeps every type.         *)
LEMMA StoreURLsType ==
  ASSUME TypeOK, NEW h \in Handlers, StoreURLs(h)
  PROVE  TypeOK'
<1> DEFINE rows     == calls[h].rows
           released == WaitingFor(DOMAIN rows)
<1>1. rows \in Rankings /\ released \in SUBSET Posting
  BY CallTyped DEF WaitingFor, Held, TypeOK, EscrowTypeOK
<1>2. StoreRows(rows) /\ Admit(released) /\ Release(released) /\ now' = now
  BY DEF StoreURLs
<1>3. MetadataTypeOK'
  BY <1>1, <1>2, StoreRowsType DEF TypeOK
<1>4. IndexTypeOK'
  BY <1>1, <1>2, AdmitType DEF TypeOK
<1>5. EscrowTypeOK'
  BY <1>2, DropType DEF TypeOK, Release
<1>6. calls' \in [Handlers -> Call]
  <2>1. CASE calls[h].entries = {}
    BY <2>1, ToIdleType DEF StoreURLs, TypeOK
  <2>2. CASE calls[h].entries # {}
    <3>1. "checkingPostings" \in Stages
      BY DEF Stages
    <3> QED BY <2>2, <3>1, CallTyped, EmptyRanking, BecomeType DEF StoreURLs, TypeOK
  <2> QED BY <2>1, <2>2
<1>7. NodeTypeOK'
  BY <1>6 DEF StoreURLs, TypeOK, NodeTypeOK
<1> QED BY <1>3, <1>4, <1>5, <1>7 DEF TypeOK

(* Purging the stalest URLs keeps every type.                                *)
LEMMA PurgeStalestType ==
  ASSUME TypeOK, PurgeStalest
  PROVE  TypeOK'
<1>1. PICK entries \in SUBSET order :
        LET urls == {e[2] : e \in entries}
        IN  /\ PurgePostings(PostingsReferencing(urls))
            /\ PurgeURLs(urls)
            /\ sweep' = IF sweep.left = 1 \/ urls \cap Known = {}
                          THEN [stage |-> "idle", left |-> 0]
                          ELSE [stage |-> "measuring", left |-> sweep.left - 1]
  BY DEF PurgeStalest
<1>2. IndexTypeOK' /\ MetadataTypeOK'
  BY <1>1, PurgeType, PurgeURLsType DEF TypeOK
<1>3. EscrowTypeOK'
  BY DEF PurgeStalest, TypeOK, EscrowTypeOK
<1>4. /\ sweep' \in [stage : {"idle", "measuring", "purging"}, left : 0 .. BatchesPerSweep]
      /\ sweep'.stage # "idle" => sweep'.left > 0
  <2>1. sweep.left \in 0 .. BatchesPerSweep /\ sweep.stage = "purging" /\ sweep.left > 0
    BY DEF PurgeStalest, TypeOK, NodeTypeOK
  <2> QED BY <1>1, <2>1, StoreAssumption
<1>5. NodeTypeOK'
  BY <1>4 DEF PurgeStalest, TypeOK, NodeTypeOK
<1> QED BY <1>2, <1>3, <1>5 DEF TypeOK

(* Each step of a handler keeps every type.                                  *)
LEMMA HandlerType ==
  ASSUME TypeOK, NEW h \in Handlers, Handler(h)
  PROVE  TypeOK'
<1> USE DEF Stages
<1>1. CASE ReceivePostings(h)
  BY <1>1, AcceptType, EmptyRanking DEF ReceivePostings
<1>2. CASE ReceiveURLs(h)
  BY <1>2, AcceptType DEF ReceiveURLs
<1>3. CASE OfferPage(h)
  <2>1. PICK url \in URLs, rank \in Ranks, pageWords \in SUBSET Words :
          Accept(h, "storing", [u \in {url} |-> rank], pageWords \X {url})
    BY <1>3 DEF OfferPage
  <2>2. [u \in {url} |-> rank] \in Rankings
    <3>1. [u \in {url} |-> rank] \in [{url} -> Ranks] /\ {url} \in SUBSET URLs
      OBVIOUS
    <3> QED BY <3>1 DEF Rankings
  <2>3. pageWords \X {url} \in SUBSET Posting
    OBVIOUS
  <2> QED BY <2>1, <2>2, <2>3, AcceptType
<1>4. CASE RoutePostings(h)
  BY <1>4, RoutePostingsType
<1>5. CASE StoreURLs(h)
  BY <1>5, StoreURLsType
<1>6. CASE CheckPagePostings(h)
  <2>1. calls' \in [Handlers -> Call]
    BY <1>6, ToIdleType, BecomeType, CallTyped, EmptyRanking DEF CheckPagePostings, TypeOK
  <2> QED BY <1>6, <2>1, StoreUntouchedType DEF CheckPagePostings, TypeOK, NodeTypeOK
<1>7. CASE Refuse(h)
  BY <1>7, ToIdleType, StoreUntouchedType DEF Refuse, TypeOK, NodeTypeOK
<1> QED BY <1>1, <1>2, <1>3, <1>4, <1>5, <1>6, <1>7 DEF Handler

(* Each step of the node keeps every type.                                   *)
LEMMA TypeStep == TypeOK /\ [Next]_vars => TypeOK'
<1> SUFFICES ASSUME TypeOK, [Next]_vars PROVE TypeOK'
  OBVIOUS
<1>1. CASE \E h \in Handlers : Handler(h)
  BY <1>1, HandlerType
<1>2. CASE Expire
  <2>1. EscrowTypeOK'
    BY <1>2, DropType DEF Expire, ExpireBatch, TypeOK
  <2> QED BY <1>2, <2>1 DEF Expire, TypeOK, indexVars, metadataVars, IndexTypeOK,
                            MetadataTypeOK, PartialRanking, NodeTypeOK
<1>3. CASE StartSweep
  BY <1>3, StoreUntouchedType, StoreAssumption DEF StartSweep, TypeOK, NodeTypeOK
<1>4. CASE MeasureUsage
  BY <1>4, StoreUntouchedType, StoreAssumption DEF MeasureUsage, TypeOK, NodeTypeOK
<1>5. CASE PurgeStalest
  BY <1>5, PurgeStalestType
<1>6. CASE Tick
  <2>1. EscrowTypeOK'
    BY <1>6, EscrowAssumption DEF Tick, TypeOK, EscrowTypeOK, Time, storeVars
  <2> QED BY <1>6, <2>1 DEF Tick, TypeOK, storeVars, indexVars, metadataVars, IndexTypeOK,
                            MetadataTypeOK, PartialRanking, NodeTypeOK
<1>7. CASE Restart
  BY <1>7, StoreUntouchedType, IdleIsCall, StoreAssumption DEF Restart, TypeOK, NodeTypeOK
<1>8. CASE UNCHANGED vars
  BY <1>8 DEF vars, TypeOK, indexVars, metadataVars, IndexTypeOK, EscrowTypeOK,
              MetadataTypeOK, PartialRanking, NodeTypeOK
<1>9. CASE HandOff
  <2>1. IndexTypeOK'
    BY <1>9, PurgeType DEF HandOff, TypeOK
  <2> QED BY <1>9, <2>1 DEF HandOff, TypeOK, metadataVars, EscrowTypeOK, MetadataTypeOK,
                            PartialRanking, NodeTypeOK
<1> QED BY <1>1, <1>2, <1>3, <1>4, <1>5, <1>6, <1>7, <1>8, <1>9 DEF Next, Sweeping

(* Every bucket of the store keeps its type, and every handler and the sweep *)
(* are always at one of their own steps.                                     *)
THEOREM TypeCorrect == Spec => []TypeOK
<1>1. Init => TypeOK
  BY TypeInit
<1> QED BY <1>1, TypeStep, PTL DEF Spec

-----------------------------------------------------------------------------
(* The store's invariant.  No part of it is inductive alone: a purge takes   *)
(* out of the index what the references list, a release admits what the      *)
(* escrow held, and an expiry drops postings by their holds.                 *)

StoreInv ==
  /\ TypeOK
  /\ ReferencesMirror
  /\ HoldsMirror
  /\ OnlyAwaitedHeld
  /\ Redistributable
  /\ EveryURLRanked

(* Purging what the references list of some URLs purges all their postings. *)
LEMMA PostingsReferencingAll ==
  ASSUME TypeOK, ReferencesMirror, NEW urls
  PROVE  PostingsReferencing(urls) = {p \in postings : URLOf(p) \in urls}
<1>1. \A p \in postings : p = <<p[1], p[2]>>
  BY DEF TypeOK, IndexTypeOK
<1>2. ASSUME NEW p \in PostingsReferencing(urls)
      PROVE  p \in postings /\ URLOf(p) \in urls
  <2>1. PICK r \in words : r[1] \in urls /\ p = <<r[2], r[1]>>
    BY <1>2 DEF PostingsReferencing
  <2>2. PICK q \in postings : r = <<q[2], q[1]>>
    BY DEF ReferencesMirror, Reference
  <2> QED BY <1>1, <2>1, <2>2
<1>3. ASSUME NEW p \in postings, URLOf(p) \in urls
      PROVE  p \in PostingsReferencing(urls)
  <2>1. <<p[2], p[1]>> \in words
    BY DEF ReferencesMirror, Reference
  <2>2. <<p[2], p[1]>> \in {x \in words : x[1] \in urls}
    BY <1>3, <2>1
  <2> QED BY <1>1, <2>2 DEF PostingsReferencing
<1> QED BY <1>2, <1>3

(* Admit writes the references with the postings.                            *)
LEMMA AdmitMirrors ==
  ASSUME TypeOK, ReferencesMirror, NEW set \in SUBSET Posting, Admit(set)
  PROVE  ReferencesMirror'
<1>1. postings' = postings \cup set
  BY DEF Admit
<1>2. words' = {Reference(p) : p \in postings'}
  BY <1>1 DEF ReferencesMirror, Admit, ReferencesStored
<1>3. referenced' = {URLOf(p) : p \in postings'}
  BY <1>1 DEF ReferencesMirror, Admit, ReferencesStored
<1> QED BY <1>2, <1>3 DEF ReferencesMirror

(* Purging postings removes their references and no other.                   *)
LEMMA PurgeMirrors ==
  ASSUME TypeOK, ReferencesMirror, NEW set \in SUBSET Posting, PurgePostings(set)
  PROVE  ReferencesMirror'
<1> DEFINE remaining == words \ {Reference(p) : p \in set}
<1>1. postings \subseteq Posting
  BY DEF TypeOK, IndexTypeOK
<1>2. words' = {Reference(p) : p \in postings'}
  BY <1>1 DEF ReferencesMirror, PurgePostings, ReferencesPurged, Reference
<1>3. referenced' = {URLOf(p) : p \in postings'}
  <2>1. \A u : u \in referenced' <=> u \in referenced /\ ~(u \in {URLOf(p) : p \in set}
                                       /\ \A r \in remaining : r[1] # u)
    BY DEF PurgePostings, ReferencesPurged
  <2>2. words' = remaining
    BY DEF PurgePostings, ReferencesPurged
  <2>3. ASSUME NEW u
        PROVE  (\A r \in remaining : r[1] # u) <=> u \notin {URLOf(p) : p \in postings'}
    <3>1. remaining = {Reference(p) : p \in postings'}
      BY <1>2, <2>2
    <3>2. \A p \in postings' : Reference(p)[1] = URLOf(p)
      BY DEF Reference
    <3> QED BY <3>1, <3>2
  <2>4. postings' \subseteq postings /\ \A p \in postings : p \in postings' \/ p \in set
    BY DEF PurgePostings
  <2> QED BY <2>1, <2>3, <2>4 DEF ReferencesMirror
<1> QED BY <1>2, <1>3 DEF ReferencesMirror

(* Hold writes a posting's hold to both buckets, moving an earlier one.      *)
LEMMA HoldMirrors ==
  ASSUME HoldsMirror, NEW set, Hold(set)
  PROVE  HoldsMirror' /\ Held' = Held \cup set
<1>1. Held' = Held \cup set
  BY DEF Hold, Held
<1>2. \A p \in Held' : HoldOf(p)' = IF p \in set THEN <<now, p>> ELSE HoldOf(p)
  BY <1>1 DEF Hold, HoldOf, Held
<1>3. \A x : x \in holds' <=> (x \in holds /\ x \notin {HoldOf(p) : p \in Held \cap set})
                              \/ x \in {<<now, p>> : p \in set}
  BY DEF Hold
<1>4. ASSUME NEW x \in holds'
      PROVE  \E p \in Held' : x = HoldOf(p)'
  BY <1>1, <1>2, <1>3, <1>4 DEF HoldsMirror
<1>5. ASSUME NEW p \in Held'
      PROVE  HoldOf(p)' \in holds'
  <2>1. CASE p \in set
    BY <1>2, <1>3, <2>1
  <2>2. CASE p \notin set
    <3>1. HoldOf(p) \in holds /\ p \in Held
      BY <1>1, <2>2 DEF HoldsMirror
    <3>2. \A q \in set : HoldOf(q) # HoldOf(p)
      BY <2>2 DEF HoldOf
    <3> QED BY <1>2, <1>3, <2>2, <3>1, <3>2
  <2> QED BY <2>1, <2>2
<1> QED BY <1>1, <1>4, <1>5 DEF HoldsMirror

(* Drop removes holds from both buckets.                                     *)
LEMMA DropMirrors ==
  ASSUME HoldsMirror, NEW set \in SUBSET Held, Drop({HoldOf(p) : p \in set})
  PROVE  HoldsMirror' /\ Held' = Held \ set /\ \A p \in Held' : escrowed'[p] = escrowed[p]
<1>1. {h[2] : h \in {HoldOf(p) : p \in set}} = set
  <2>1. \A p : HoldOf(p)[2] = p
    BY DEF HoldOf
  <2> QED BY <2>1
<1>2. Held' = Held \ set
  BY <1>1 DEF Drop, Held
<1>3. \A p \in Held' : HoldOf(p)' = HoldOf(p) /\ escrowed'[p] = escrowed[p]
  BY <1>1, <1>2 DEF Drop, HoldOf, Held
<1>4. \A p, q \in Held : HoldOf(p) = HoldOf(q) => p = q
  BY DEF HoldOf
<1>5. holds' = holds \ {HoldOf(p) : p \in set}
  BY DEF Drop
<1> QED BY <1>2, <1>3, <1>4, <1>5 DEF HoldsMirror

(* An expired hold is the hold of a held posting. *)
LEMMA BatchIsOfHeld ==
  ASSUME HoldsMirror, NEW batch \in SUBSET Expired
  PROVE  /\ {h[2] : h \in batch} \subseteq Held
         /\ batch = {HoldOf(p) : p \in {h[2] : h \in batch}}
         /\ \A p \in {h[2] : h \in batch} : escrowed[p] + HoldFor < now
<1>1. \A h \in batch : \E p \in Held : h = HoldOf(p) /\ h[1] + HoldFor < now
  BY DEF Expired, HoldsMirror
<1>2. \A h \in batch : h[2] \in Held /\ h = HoldOf(h[2]) /\ escrowed[h[2]] + HoldFor < now
  BY <1>1 DEF HoldOf
<1> QED BY <1>2

(* The net effect of each transaction on what the node knows, indexes and    *)
(* holds.                                                                    *)
LEMMA RouteEffect ==
  ASSUME StoreInv, NEW h \in Handlers, RoutePostings(h)
  PROVE  LET awaiting == {p \in calls[h].entries : URLOf(p) \notin Known}
         IN  /\ awaiting = Awaiting(calls[h].entries)
             /\ postings' = postings \cup (calls[h].entries \ awaiting)
             /\ Held' = Held \cup awaiting
             /\ Known' = Known
             /\ EscrowHasRoomFor(awaiting)
<1>1. Awaiting(calls[h].entries) = {p \in calls[h].entries : URLOf(p) \notin Known}
  BY DEF Awaiting, MissingURLs
<1>2. Held' = Held \cup Awaiting(calls[h].entries)
  BY HoldMirrors DEF RoutePostings, StoreInv
<1> QED BY <1>1, <1>2 DEF RoutePostings, Admit, metadataVars, Known

(* What StoreURLs does to index, escrow and known URLs.                      *)
LEMMA StoreEffect ==
  ASSUME StoreInv, NEW h \in Handlers, StoreURLs(h)
  PROVE  LET urls     == DOMAIN calls[h].rows
             released == {p \in Held : URLOf(p) \in urls}
         IN  /\ postings' = postings \cup released
             /\ Held' = Held \ released
             /\ Known' = Known \cup urls
             /\ HoldsMirror'
             /\ ReferencesMirror'
<1> DEFINE released == WaitingFor(DOMAIN calls[h].rows)
<1>1. released \in SUBSET Held /\ released = {p \in Held : URLOf(p) \in DOMAIN calls[h].rows}
  BY DEF WaitingFor
<1>2. HoldsMirror' /\ Held' = Held \ released
  BY <1>1, DropMirrors DEF StoreURLs, Release, StoreInv
<1>3. postings' = postings \cup released
  BY DEF StoreURLs, Admit
<1>4. released \in SUBSET Posting
  BY <1>1 DEF StoreInv, TypeOK, EscrowTypeOK, Held
<1>5. ReferencesMirror'
  BY <1>4, AdmitMirrors DEF StoreURLs, StoreInv
<1>6. Known' = Known \cup DOMAIN calls[h].rows
  BY DEF StoreURLs, StoreRows, Overwritten, Known
<1> QED BY <1>1, <1>2, <1>3, <1>5, <1>6

(* What an expiry batch does to the escrow.                                  *)
LEMMA ExpireEffect ==
  ASSUME StoreInv, Expire
  PROVE  /\ HoldsMirror'
         /\ Held' \subseteq Held
         /\ \A p \in Held \ Held' : escrowed[p] + HoldFor < now
         /\ postings' = postings /\ Known' = Known
<1>1. PICK batch \in SUBSET Expired : Drop(batch)
  BY DEF Expire, ExpireBatch
<1> DEFINE set == {h[2] : h \in batch}
<1>2. HoldsMirror' /\ Held' = Held \ set
  BY <1>1, BatchIsOfHeld, DropMirrors DEF StoreInv
<1>3. \A p \in set : escrowed[p] + HoldFor < now
  BY BatchIsOfHeld DEF StoreInv
<1> QED BY <1>2, <1>3 DEF Expire, indexVars, metadataVars, Known

(* What a purge does to index and known URLs.                                *)
LEMMA PurgeEffect ==
  ASSUME StoreInv, PurgeStalest
  PROVE  \E urls \in SUBSET URLs :
           /\ PurgeURLs(urls)
           /\ postings' = {p \in postings : URLOf(p) \notin urls}
           /\ ReferencesMirror'
           /\ Known' = Known \ urls
<1>1. PICK entries \in SUBSET order :
        LET urls == {e[2] : e \in entries}
        IN  PurgePostings(PostingsReferencing(urls)) /\ PurgeURLs(urls)
  BY DEF PurgeStalest
<1> DEFINE urls == {e[2] : e \in entries}
<1>2. urls \in SUBSET URLs
  BY DEF StoreInv, TypeOK, MetadataTypeOK
<1>3. PostingsReferencing(urls) = {p \in postings : URLOf(p) \in urls}
  BY PostingsReferencingAll DEF StoreInv
<1>4. postings' = {p \in postings : URLOf(p) \notin urls}
  BY <1>1, <1>3 DEF PurgePostings
<1>5. ReferencesMirror'
  <2>1. PostingsReferencing(urls) \in SUBSET Posting
    BY <1>3 DEF StoreInv, TypeOK, IndexTypeOK
  <2> QED BY <1>1, <2>1, PurgeMirrors DEF StoreInv
<1>6. Known' = Known \ urls
  BY <1>1 DEF PurgeURLs, Known
<1> QED BY <1>1, <1>2, <1>4, <1>5, <1>6

-----------------------------------------------------------------------------
(* The invariant is inductive. *)

(* The empty store satisfies the invariant.                                  *)
LEMMA StoreInvInit == Init => StoreInv
<1> SUFFICES ASSUME Init PROVE StoreInv
  OBVIOUS
<1>1. TypeOK
  BY TypeInit
<1>2. ReferencesMirror /\ Redistributable
  BY DEF Init, IndexInit, ReferencesMirror, Redistributable
<1>3. HoldsMirror /\ OnlyAwaitedHeld
  BY DEF Init, EscrowInit, HoldsMirror, OnlyAwaitedHeld, Held
<1>4. EveryURLRanked
  BY DEF Init, MetadataInit, EveryURLRanked, Known
<1> QED BY <1>1, <1>2, <1>3, <1>4 DEF StoreInv

(* A step that leaves the buckets alone keeps the invariant.                 *)
LEMMA StoreInvUntouched ==
  ASSUME StoreInv, TypeOK', UNCHANGED storeVars
  PROVE  StoreInv'
BY DEF StoreInv, storeVars, indexVars, metadataVars, ReferencesMirror, HoldsMirror, Held,
       HoldOf, Known, OnlyAwaitedHeld, Redistributable, EveryURLRanked

(* Routing keeps the invariant.                                              *)
LEMMA RouteKeepsInv ==
  ASSUME StoreInv, TypeOK', NEW h \in Handlers, RoutePostings(h)
  PROVE  StoreInv'
<1> DEFINE awaiting == {p \in calls[h].entries : URLOf(p) \notin Known}
<1>1. /\ postings' = postings \cup (calls[h].entries \ awaiting)
      /\ Held' = Held \cup awaiting
      /\ Known' = Known
  BY RouteEffect
<1>2. OnlyAwaitedHeld' /\ Redistributable'
  BY <1>1 DEF StoreInv, OnlyAwaitedHeld, Redistributable
<1>3. ReferencesMirror'
  <2>1. calls[h].entries \ Awaiting(calls[h].entries) \in SUBSET Posting
    BY CallTyped DEF StoreInv
  <2> QED BY <2>1, AdmitMirrors DEF RoutePostings, StoreInv
<1>4. HoldsMirror'
  BY HoldMirrors DEF RoutePostings, StoreInv
<1>5. EveryURLRanked'
  BY DEF RoutePostings, StoreInv, EveryURLRanked, metadataVars, Known
<1> QED BY <1>2, <1>3, <1>4, <1>5 DEF StoreInv

(* Storing URLs keeps the invariant.                                         *)
LEMMA StoreKeepsInv ==
  ASSUME StoreInv, TypeOK', NEW h \in Handlers, StoreURLs(h)
  PROVE  StoreInv'
<1> DEFINE rows == calls[h].rows
<1>1. OnlyAwaitedHeld' /\ Redistributable' /\ HoldsMirror' /\ ReferencesMirror'
  BY StoreEffect DEF StoreInv, OnlyAwaitedHeld, Redistributable
<1>2. EveryURLRanked'
  <2>1. StoreRows(rows)
    BY DEF StoreURLs
  <2>2. freshness' = urlMetadata'
    BY <2>1 DEF StoreRows, RankStored, StoreInv, EveryURLRanked
  <2>3. ASSUME NEW u \in Known'
        PROVE  <<urlMetadata'[u], u>> \in order'
    <3>1. u \in Known \cup DOMAIN rows
      BY <2>1 DEF StoreRows, Overwritten, Known
    <3>2. urlMetadata'[u] = IF u \in DOMAIN rows THEN rows[u] ELSE urlMetadata[u]
      BY <2>1, <3>1 DEF StoreRows, Overwritten, Known
    <3> QED BY <2>1, <3>1, <3>2 DEF StoreRows, RankStored, StoreInv, EveryURLRanked
  <2> QED BY <2>2, <2>3 DEF EveryURLRanked
<1> QED BY <1>1, <1>2 DEF StoreInv

(* Expiry keeps the invariant.                                               *)
LEMMA ExpireKeepsInv ==
  ASSUME StoreInv, TypeOK', Expire
  PROVE  StoreInv'
<1>1. HoldsMirror' /\ OnlyAwaitedHeld'
  BY ExpireEffect DEF StoreInv, OnlyAwaitedHeld
<1> QED BY <1>1 DEF Expire, StoreInv, indexVars, metadataVars, ReferencesMirror,
                    Redistributable, EveryURLRanked, Known

(* Eviction keeps the invariant.                                             *)
LEMMA PurgeKeepsInv ==
  ASSUME StoreInv, TypeOK', PurgeStalest
  PROVE  StoreInv'
<1>1. PICK urls \in SUBSET URLs :
        /\ PurgeURLs(urls)
        /\ postings' = {p \in postings : URLOf(p) \notin urls}
        /\ ReferencesMirror'
        /\ Known' = Known \ urls
  BY PurgeEffect
<1>2. HoldsMirror' /\ OnlyAwaitedHeld'
  BY <1>1 DEF PurgeStalest, StoreInv, HoldsMirror, Held, HoldOf, OnlyAwaitedHeld
<1>3. Redistributable'
  BY <1>1 DEF StoreInv, Redistributable
<1>4. EveryURLRanked'
  <2>1. freshness = urlMetadata
    BY DEF StoreInv, EveryURLRanked
  <2>2. freshness' = urlMetadata'
    <3>1. DOMAIN freshness \ (urls \cap Known) = Known \ urls
      BY <2>1 DEF Known
    <3> QED BY <1>1, <2>1, <3>1 DEF PurgeURLs, RankPurged
  <2>3. ASSUME NEW u \in Known'
        PROVE  <<urlMetadata'[u], u>> \in order'
    <3>1. u \in Known /\ u \notin urls /\ urlMetadata'[u] = urlMetadata[u]
      BY <1>1 DEF PurgeURLs, Known
    <3>2. <<urlMetadata[u], u>> \in order
      BY <3>1 DEF StoreInv, EveryURLRanked
    <3> QED BY <1>1, <3>1, <3>2 DEF PurgeURLs, RankPurged
  <2> QED BY <2>2, <2>3 DEF EveryURLRanked
<1> QED BY <1>1, <1>2, <1>3, <1>4 DEF StoreInv

(* A hand-off keeps the invariant.                                           *)
LEMMA HandOffKeepsInv ==
  ASSUME StoreInv, TypeOK', HandOff
  PROVE  StoreInv'
<1>1. PICK set \in SUBSET Posting : PurgePostings(set)
  BY DEF HandOff
<1>2. ReferencesMirror'
  BY <1>1, PurgeMirrors DEF StoreInv
<1>3. Redistributable'
  BY <1>1 DEF HandOff, PurgePostings, StoreInv, Redistributable, metadataVars, Known
<1> QED BY <1>2, <1>3 DEF HandOff, StoreInv, HoldsMirror, Held, HoldOf, OnlyAwaitedHeld,
                          EveryURLRanked, metadataVars, Known

(* Every other action leaves the buckets alone. *)
LEMMA OtherHandlerSteps ==
  ASSUME NEW h \in Handlers, Handler(h), ~RoutePostings(h), ~StoreURLs(h)
  PROVE  UNCHANGED storeVars
BY DEF Handler, ReceivePostings, ReceiveURLs, OfferPage, Accept, CheckPagePostings, Refuse

(* Every step keeps the invariant.                                           *)
LEMMA StoreInvStep == StoreInv /\ [Next]_vars => StoreInv'
<1> SUFFICES ASSUME StoreInv, [Next]_vars PROVE StoreInv'
  OBVIOUS
<1>1. TypeOK'
  BY TypeStep DEF StoreInv
<1>2. CASE \E h \in Handlers : Handler(h)
  BY <1>1, <1>2, RouteKeepsInv, StoreKeepsInv, OtherHandlerSteps, StoreInvUntouched
<1>3. CASE Expire
  BY <1>1, <1>3, ExpireKeepsInv
<1>4. CASE PurgeStalest
  BY <1>1, <1>4, PurgeKeepsInv
<1>5. CASE StartSweep \/ MeasureUsage \/ Tick \/ Restart
  BY <1>1, <1>5, StoreInvUntouched DEF StartSweep, MeasureUsage, Tick, Restart
<1>6. CASE UNCHANGED vars
  BY <1>1, <1>6, StoreInvUntouched DEF vars, storeVars
<1>7. CASE HandOff
  BY <1>1, <1>7, HandOffKeepsInv
<1> QED BY <1>2, <1>3, <1>4, <1>5, <1>6, <1>7 DEF Next, Sweeping

(* The invariant holds in every reachable state.                             *)
LEMMA StoreInvAlways == Spec => []StoreInv
BY StoreInvInit, StoreInvStep, PTL DEF Spec

(* No index of the vault drifts from its bucket: eviction finds every posting *)
(* of a URL, expiry every hold, and the order every URL at its stored rank.  *)
THEOREM IndexesNeverDrift == Spec => []IndexesAgree
<1>1. StoreInv => IndexesAgree
  BY DEF StoreInv, IndexesAgree
<1> QED BY <1>1, StoreInvAlways, PTL

(* No posting waits for metadata the node has. *)
THEOREM HeldPostingsAwait == Spec => []OnlyAwaitedHeld
<1>1. StoreInv => OnlyAwaitedHeld
  BY DEF StoreInv
<1> QED BY <1>1, StoreInvAlways, PTL

(* Every posting of the index has the metadata a redistribution needs. *)
THEOREM IndexIsRedistributable == Spec => []Redistributable
<1>1. StoreInv => Redistributable
  BY DEF StoreInv
<1> QED BY <1>1, StoreInvAlways, PTL

-----------------------------------------------------------------------------
(* The escrow's bound: a request's awaiting postings fit or are all held.    *)

(* The escrow holds finitely many postings.                                  *)
LEMMA HeldIsFinite == TypeOK => IsFiniteSet(Held)
<1>1. IsFiniteSet(Posting)
  BY KeysAssumption, FS_Product
<1>2. TypeOK => Held \subseteq Posting
  BY DEF TypeOK, EscrowTypeOK, Held
<1> QED BY <1>1, <1>2, FS_Subset

(* The empty escrow is within its capacity.                                  *)
LEMMA EscrowBoundedInit == Init => EscrowBounded
<1>1. Init => Held = {}
  BY DEF Init, EscrowInit, Held
<1> QED BY <1>1, FS_EmptySet, EscrowAssumption DEF EscrowBounded

(* A request's awaiting postings fit or are all held, so no step outgrows the *)
(* escrow.                                                                   *)
LEMMA EscrowBoundedStep == StoreInv /\ EscrowBounded /\ [Next]_vars => EscrowBounded'
<1> SUFFICES ASSUME StoreInv, EscrowBounded, [Next]_vars PROVE EscrowBounded'
  OBVIOUS
<1>1. ASSUME Held' \subseteq Held PROVE EscrowBounded'
  <2>1. IsFiniteSet(Held) /\ IsFiniteSet(Held')
    BY <1>1, HeldIsFinite, FS_Subset DEF StoreInv
  <2>2. Cardinality(Held') \in Nat /\ Cardinality(Held) \in Nat
        /\ Cardinality(Held') <= Cardinality(Held)
    BY <1>1, <2>1, FS_Subset, FS_CardinalityType
  <2> QED BY <2>2, EscrowAssumption DEF EscrowBounded
<1>2. ASSUME NEW h \in Handlers, RoutePostings(h) PROVE EscrowBounded'
  <2> DEFINE awaiting == {p \in calls[h].entries : URLOf(p) \notin Known}
  <2>1. Held' = Held \cup awaiting /\ EscrowHasRoomFor(awaiting)
    BY <1>2, RouteEffect
  <2>2. CASE awaiting \subseteq Held
    <3>1. Held' = Held
      BY <2>1, <2>2
    <3> QED BY <1>1, <3>1
  <2>3. CASE Cardinality(Held \cup awaiting) <= EscrowCapacity
    BY <2>1, <2>3 DEF EscrowBounded
  <2> QED BY <2>1, <2>2, <2>3 DEF EscrowHasRoomFor
<1>3. ASSUME NEW h \in Handlers, StoreURLs(h) PROVE EscrowBounded'
  BY <1>1, <1>3, StoreEffect
<1>4. CASE Expire
  BY <1>1, <1>4, ExpireEffect
<1>5. ASSUME UNCHANGED escrowed PROVE EscrowBounded'
  BY <1>5 DEF EscrowBounded, Held
<1>6. CASE \E h \in Handlers : Handler(h)
  BY <1>2, <1>3, <1>5, <1>6, OtherHandlerSteps DEF storeVars
<1>7. CASE Sweeping \/ HandOff \/ Tick \/ Restart \/ UNCHANGED vars
  BY <1>5, <1>7 DEF Sweeping, StartSweep, MeasureUsage, PurgeStalest, HandOff, Tick,
                    Restart, vars, storeVars
<1> QED BY <1>4, <1>6, <1>7 DEF Next
(* The escrow never outgrows its capacity. *)
THEOREM EscrowStaysBounded == Spec => []EscrowBounded
BY EscrowBoundedInit, EscrowBoundedStep, StoreInvAlways, PTL DEF Spec

-----------------------------------------------------------------------------
(* The bound on usage.  Every transaction adds no more than one request's    *)
(* share, and the request was let past the check while usage was below the   *)
(* quota; the bound therefore counts the handlers that are not writing, the  *)
(* share of each may be in the vault already.                                *)

(* A set that gained no more than another one's members outgrew it by no     *)
(* more than them.                                                           *)
LEMMA GrowsByMembers ==
  ASSUME NEW S, IsFiniteSet(S), NEW D, IsFiniteSet(D), NEW T \in SUBSET (S \cup D)
  PROVE  /\ IsFiniteSet(T)
         /\ Cardinality(T) \in Nat /\ Cardinality(S) \in Nat /\ Cardinality(D) \in Nat
         /\ Cardinality(T) <= Cardinality(S) + Cardinality(D)
<1>1. IsFiniteSet(S \cup D)
  BY FS_Union
<1>2. /\ Cardinality(S \cup D) = Cardinality(S) + Cardinality(D) - Cardinality(S \cap D)
      /\ Cardinality(S \cap D) \in Nat
  BY FS_Union, FS_Intersection, FS_CardinalityType
<1>3. IsFiniteSet(T) /\ Cardinality(T) <= Cardinality(S \cup D)
  BY <1>1, FS_Subset
<1> QED BY <1>2, <1>3, FS_CardinalityType

(* The values of a function are no more than its arguments.                  *)
LEMMA ValuesAreNoMore ==
  ASSUME NEW S, IsFiniteSet(S), NEW f, DOMAIN f = S, f = [x \in S |-> f[x]],
         NEW T, T = {f[x] : x \in S}
  PROVE  IsFiniteSet(T) /\ Cardinality(T) <= Cardinality(S) /\ Cardinality(T) \in Nat
<1>1. f \in Surjection(S, T)
  BY DEF Surjection
<1> QED BY <1>1, FS_Surjection, FS_CardinalityType

(* A set of postings has no more references than postings.                   *)
LEMMA ReferencesAreNoMore ==
  ASSUME NEW set, IsFiniteSet(set)
  PROVE  /\ IsFiniteSet({Reference(p) : p \in set})
         /\ Cardinality({Reference(p) : p \in set}) \in Nat
         /\ Cardinality({Reference(p) : p \in set}) <= Cardinality(set)
         /\ IsFiniteSet({URLOf(p) : p \in set})
         /\ Cardinality({URLOf(p) : p \in set}) \in Nat
         /\ Cardinality({URLOf(p) : p \in set}) <= Cardinality(set)
<1>1. PICK f : f = [p \in set |-> Reference(p)]
  OBVIOUS
<1>2. PICK g : g = [p \in set |-> URLOf(p)]
  OBVIOUS
<1>3. PICK R : R = {Reference(p) : p \in set}
  OBVIOUS
<1>4. PICK U : U = {URLOf(p) : p \in set}
  OBVIOUS
<1>5. R = {f[p] : p \in set} /\ DOMAIN f = set /\ f = [p \in set |-> f[p]]
  BY <1>1, <1>3
<1>6. U = {g[p] : p \in set} /\ DOMAIN g = set /\ g = [p \in set |-> g[p]]
  BY <1>2, <1>4
<1>7. IsFiniteSet(R) /\ Cardinality(R) <= Cardinality(set) /\ Cardinality(R) \in Nat
  BY <1>5, ValuesAreNoMore
<1>8. IsFiniteSet(U) /\ Cardinality(U) <= Cardinality(set) /\ Cardinality(U) \in Nat
  BY <1>6, ValuesAreNoMore
<1> QED BY <1>3, <1>4, <1>7, <1>8

(* Each held posting has one hold.                                           *)
LEMMA AsManyHolds ==
  ASSUME NEW e, IsFiniteSet(DOMAIN e), NEW hs, hs = {<<e[p], p>> : p \in DOMAIN e}
  PROVE  IsFiniteSet(hs) /\ Cardinality(hs) = Cardinality(DOMAIN e)
<1> DEFINE f == [p \in DOMAIN e |-> <<e[p], p>>]
<1>1. f \in Bijection(DOMAIN e, hs)
  <2>1. f \in [DOMAIN e -> hs] /\ \A p \in DOMAIN e : f[p] = <<e[p], p>>
    OBVIOUS
  <2>2. \A p, q \in DOMAIN e : f[p] = f[q] => p = q
    BY <2>1
  <2>3. \A t \in hs : \E p \in DOMAIN e : f[p] = t
    BY <2>1
  <2> HIDE DEF f
  <2> QED BY <2>1, <2>2, <2>3 DEF Bijection, Injection, Surjection, IsInjective
<1> QED BY <1>1, FS_Bijection DEF ExistsBijection

(* The buckets are finite, and their tallies are numbers.                    *)
LEMMA TalliesAreNumbers ==
  ASSUME StoreInv, IsFiniteSet(order)
  PROVE  /\ IsFiniteSet(postings) /\ Cardinality(postings) \in Nat
         /\ IsFiniteSet(words) /\ Cardinality(words) \in Nat
         /\ IsFiniteSet(referenced) /\ Cardinality(referenced) \in Nat
         /\ IsFiniteSet(Held) /\ Cardinality(Held) \in Nat
         /\ IsFiniteSet(holds) /\ Cardinality(holds) = Cardinality(Held)
         /\ IsFiniteSet(Known) /\ Cardinality(Known) \in Nat
         /\ IsFiniteSet(order) /\ Cardinality(order) \in Nat
         /\ IsFiniteSet(DOMAIN freshness) /\ Cardinality(DOMAIN freshness) \in Nat
         /\ UsedBytes \in Nat
<1>1. IsFiniteSet(Posting) /\ IsFiniteSet(URLs \X Words) /\ IsFiniteSet(URLs)
  <2>1. IsFiniteSet(Words) /\ IsFiniteSet(URLs)
    BY KeysAssumption
  <2>2. IsFiniteSet(Words \X URLs) /\ IsFiniteSet(URLs \X Words)
    BY <2>1, FS_Product
  <2> QED BY <2>1, <2>2
<1>2. /\ postings \in SUBSET Posting /\ words \in SUBSET (URLs \X Words)
      /\ referenced \in SUBSET URLs /\ Known \in SUBSET URLs
      /\ DOMAIN freshness \in SUBSET URLs
  BY DEF StoreInv, TypeOK, IndexTypeOK, MetadataTypeOK, PartialRanking, Known
<1>3. /\ IsFiniteSet(postings) /\ IsFiniteSet(words) /\ IsFiniteSet(referenced)
      /\ IsFiniteSet(Known) /\ IsFiniteSet(DOMAIN freshness)
  BY <1>1, <1>2, FS_Subset
<1>4. IsFiniteSet(Held) /\ IsFiniteSet(holds) /\ Cardinality(holds) = Cardinality(Held)
  BY HeldIsFinite, AsManyHolds DEF StoreInv, HoldsMirror, Held, HoldOf
<1>5. /\ Cardinality(postings) \in Nat /\ Cardinality(words) \in Nat
      /\ Cardinality(referenced) \in Nat /\ Cardinality(Held) \in Nat
      /\ Cardinality(Known) \in Nat /\ Cardinality(order) \in Nat
      /\ Cardinality(DOMAIN freshness) \in Nat
  BY <1>3, <1>4, FS_CardinalityType
<1> QED BY <1>3, <1>4, <1>5 DEF UsedBytes

(* Admitting postings adds each of them, its word and its URL at most.       *)
LEMMA AdmitGrowth ==
  ASSUME IsFiniteSet(postings), IsFiniteSet(words), IsFiniteSet(referenced),
         NEW set, IsFiniteSet(set), Admit(set)
  PROVE  /\ Cardinality(postings') <= Cardinality(postings) + Cardinality(set)
         /\ Cardinality(words') <= Cardinality(words) + Cardinality(set)
         /\ Cardinality(referenced') <= Cardinality(referenced) + Cardinality(set)
         /\ Cardinality(postings') \in Nat /\ Cardinality(words') \in Nat
         /\ Cardinality(referenced') \in Nat /\ Cardinality(set) \in Nat
<1> DEFINE R == {Reference(p) : p \in set}
           U == {URLOf(p) : p \in set}
<1>1. /\ IsFiniteSet(R) /\ Cardinality(R) \in Nat /\ Cardinality(R) <= Cardinality(set)
      /\ IsFiniteSet(U) /\ Cardinality(U) \in Nat /\ Cardinality(U) <= Cardinality(set)
  BY ReferencesAreNoMore
<1>2. /\ postings' \in SUBSET (postings \cup set) /\ words' \in SUBSET (words \cup R)
      /\ referenced' \in SUBSET (referenced \cup U)
  BY DEF Admit, ReferencesStored
<1> HIDE DEF R, U
<1>3. /\ Cardinality(postings') <= Cardinality(postings) + Cardinality(set)
      /\ Cardinality(postings') \in Nat /\ Cardinality(set) \in Nat
  BY <1>2, GrowsByMembers
<1>4. /\ Cardinality(words') <= Cardinality(words) + Cardinality(R)
      /\ Cardinality(words') \in Nat /\ Cardinality(words) \in Nat
  BY <1>1, <1>2, GrowsByMembers
<1>5. /\ Cardinality(referenced') <= Cardinality(referenced) + Cardinality(U)
      /\ Cardinality(referenced') \in Nat /\ Cardinality(referenced) \in Nat
  BY <1>1, <1>2, GrowsByMembers
<1> QED BY <1>1, <1>3, <1>4, <1>5

-----------------------------------------------------------------------------
(* What a request carries is within its limits.                              *)
RequestsBounded ==
  \A h \in Handlers : /\ Cardinality(calls[h].entries) <= MaxEntries
                      /\ IsFiniteSet(DOMAIN calls[h].rows)
                      /\ Cardinality(DOMAIN calls[h].rows) <= MaxRows

UsageInv == StoreInv /\ EscrowBounded /\ IsFiniteSet(order) /\ RequestsBounded /\ UsageBounded

(* Routing a request adds three entries at most for each of its postings.    *)
LEMMA RouteGrowth ==
  ASSUME StoreInv, StoreInv', IsFiniteSet(order), RequestsBounded,
         NEW h \in Handlers, RoutePostings(h)
  PROVE  UsedBytes' \in Nat /\ UsedBytes' <= UsedBytes + 3 * MaxEntries
<1>1. PICK entries : entries = calls[h].entries
  OBVIOUS
<1>2. PICK awaiting : awaiting = {p \in entries : URLOf(p) \notin Known}
  OBVIOUS
<1>3. entries \in SUBSET Posting /\ IsFiniteSet(entries)
  <2>1. entries \in SUBSET Posting
    BY <1>1, CallTyped DEF StoreInv
  <2>2. IsFiniteSet(Posting)
    BY KeysAssumption, FS_Product
  <2> QED BY <2>1, <2>2, FS_Subset
<1>4. /\ IsFiniteSet(awaiting) /\ IsFiniteSet(entries \ awaiting)
      /\ Cardinality(entries) = Cardinality(awaiting) + Cardinality(entries \ awaiting)
      /\ Cardinality(awaiting) \in Nat /\ Cardinality(entries \ awaiting) \in Nat
  <2>1. awaiting \in SUBSET entries /\ entries \ awaiting \in SUBSET entries
    BY <1>2
  <2>2. IsFiniteSet(awaiting) /\ IsFiniteSet(entries \ awaiting)
    BY <1>3, <2>1, FS_Subset
  <2>3. awaiting \cup (entries \ awaiting) = entries /\ awaiting \cap (entries \ awaiting) = {}
    BY <2>1
  <2>4. Cardinality(entries)
          = Cardinality(awaiting) + Cardinality(entries \ awaiting) - Cardinality({})
    BY <2>2, <2>3, FS_Union
  <2> QED BY <2>2, <2>4, FS_CardinalityType, FS_EmptySet
<1>5. Held' = Held \cup awaiting /\ Admit(entries \ awaiting)
  BY <1>1, <1>2, RouteEffect DEF RoutePostings
<1>6. UNCHANGED metadataVars
  BY DEF RoutePostings
<1>7. Cardinality(entries) <= MaxEntries /\ MaxEntries \in Nat
  BY <1>1, StoreAssumption DEF RequestsBounded
<1>8. Cardinality(Held') <= Cardinality(Held) + Cardinality(awaiting) /\ Cardinality(Held') \in Nat
  BY <1>4, <1>5, GrowsByMembers, TalliesAreNumbers
<1>9. Cardinality(holds') = Cardinality(Held')
  <2>1. HoldsMirror' /\ IsFiniteSet(Held')
    BY <1>4, <1>5, TalliesAreNumbers, FS_Union DEF StoreInv
  <2> QED BY <2>1, AsManyHolds DEF HoldsMirror, Held, HoldOf
<1> QED BY <1>4, <1>5, <1>6, <1>7, <1>8, <1>9, AdmitGrowth, TalliesAreNumbers
        DEF UsedBytes, metadataVars, Known

(* Storing a request's rows adds three entries at most for each of them, and *)
(* one for each posting that leaves the escrow for the index.                *)
LEMMA StoreGrowth ==
  ASSUME StoreInv, StoreInv', IsFiniteSet(order), RequestsBounded, EscrowBounded,
         NEW h \in Handlers, StoreURLs(h)
  PROVE  /\ IsFiniteSet(order') /\ UsedBytes' \in Nat
         /\ UsedBytes' <= UsedBytes + 3 * MaxRows + EscrowCapacity
<1>1. PICK rows : rows = calls[h].rows
  OBVIOUS
<1>2. PICK released : released = {p \in Held : URLOf(p) \in DOMAIN rows}
  OBVIOUS
<1>3. /\ IsFiniteSet(DOMAIN rows) /\ Cardinality(DOMAIN rows) <= MaxRows
      /\ Cardinality(DOMAIN rows) \in Nat /\ MaxRows \in Nat /\ EscrowCapacity \in Nat
  BY <1>1, StoreAssumption, EscrowAssumption, FS_CardinalityType DEF RequestsBounded
<1>4. /\ Held' = Held \ released /\ Admit(released) /\ StoreRows(rows)
  BY <1>1, <1>2, StoreEffect DEF StoreURLs, WaitingFor
<1>5. /\ IsFiniteSet(released) /\ IsFiniteSet(Held') /\ Cardinality(released) \in Nat
      /\ Cardinality(Held') + Cardinality(released) = Cardinality(Held)
      /\ Cardinality(Held') \in Nat
  <2>1. released \in SUBSET Held /\ Held' \in SUBSET Held
    BY <1>2, <1>4
  <2>2. IsFiniteSet(released) /\ IsFiniteSet(Held')
    BY <2>1, TalliesAreNumbers, FS_Subset
  <2>3. Held' \cup released = Held /\ Held' \cap released = {}
    BY <1>4, <2>1
  <2>4. Cardinality(Held) = Cardinality(Held') + Cardinality(released) - Cardinality({})
    BY <2>2, <2>3, FS_Union
  <2> QED BY <2>2, <2>4, FS_CardinalityType, FS_EmptySet
<1>6. Cardinality(holds') = Cardinality(Held')
  BY <1>5, AsManyHolds DEF StoreInv, HoldsMirror, Held, HoldOf
<1>7. /\ Known' = Known \cup DOMAIN rows
      /\ DOMAIN freshness' = DOMAIN freshness \cup DOMAIN rows
      /\ order' = order \cup {<<rows[u], u>> : u \in DOMAIN rows}
  BY <1>4 DEF StoreRows, RankStored, Overwritten, Known
<1>8. /\ Cardinality(Known') <= Cardinality(Known) + Cardinality(DOMAIN rows)
      /\ Cardinality(Known') \in Nat
  BY <1>3, <1>7, GrowsByMembers, TalliesAreNumbers
<1>9. /\ Cardinality(DOMAIN freshness') <= Cardinality(DOMAIN freshness) + Cardinality(DOMAIN rows)
      /\ Cardinality(DOMAIN freshness') \in Nat
  BY <1>3, <1>7, GrowsByMembers, TalliesAreNumbers
<1>10. /\ IsFiniteSet(order')
       /\ Cardinality(order') <= Cardinality(order) + Cardinality(DOMAIN rows)
       /\ Cardinality(order') \in Nat
  <2>1. PICK added : added = {<<rows[u], u>> : u \in DOMAIN rows}
    OBVIOUS
  <2>2. IsFiniteSet(added) /\ Cardinality(added) = Cardinality(DOMAIN rows)
    BY <1>3, <2>1, AsManyHolds
  <2>3. order' \in SUBSET (order \cup added)
    BY <1>7, <2>1
  <2> QED BY <2>2, <2>3, GrowsByMembers
<1>11. Cardinality(released) <= EscrowCapacity
  BY <1>3, <1>5 DEF EscrowBounded
<1>12. /\ Cardinality(postings') <= Cardinality(postings) + Cardinality(released)
       /\ Cardinality(words') <= Cardinality(words) + Cardinality(released)
       /\ Cardinality(referenced') <= Cardinality(referenced) + Cardinality(released)
       /\ Cardinality(postings') \in Nat /\ Cardinality(words') \in Nat
       /\ Cardinality(referenced') \in Nat
  BY <1>4, <1>5, AdmitGrowth, TalliesAreNumbers
<1> QED BY <1>3, <1>5, <1>6, <1>8, <1>9, <1>10, <1>11, <1>12, TalliesAreNumbers DEF UsedBytes

(* A purge or an expiry adds to no bucket, so usage does not rise.           *)
LEMMA ShrinkingLowersUsage ==
  ASSUME StoreInv, StoreInv', IsFiniteSet(order), postings' \subseteq postings, words' \subseteq words,
         referenced' \subseteq referenced, Held' \subseteq Held, Known' \subseteq Known,
         order' \subseteq order, DOMAIN freshness' \subseteq DOMAIN freshness
  PROVE  IsFiniteSet(order') /\ UsedBytes' \in Nat /\ UsedBytes' <= UsedBytes
<1>1. /\ Cardinality(postings') <= Cardinality(postings) /\ Cardinality(postings') \in Nat
      /\ Cardinality(words') <= Cardinality(words) /\ Cardinality(words') \in Nat
      /\ Cardinality(referenced') <= Cardinality(referenced) /\ Cardinality(referenced') \in Nat
      /\ Cardinality(Known') <= Cardinality(Known) /\ Cardinality(Known') \in Nat
      /\ Cardinality(order') <= Cardinality(order) /\ Cardinality(order') \in Nat
      /\ Cardinality(DOMAIN freshness') <= Cardinality(DOMAIN freshness)
      /\ Cardinality(DOMAIN freshness') \in Nat
      /\ Cardinality(Held') <= Cardinality(Held) /\ Cardinality(Held') \in Nat
      /\ IsFiniteSet(Held') /\ IsFiniteSet(order')
  BY TalliesAreNumbers, FS_Subset, FS_CardinalityType
<1>2. Cardinality(holds') = Cardinality(Held')
  BY <1>1, AsManyHolds DEF StoreInv, HoldsMirror, Held, HoldOf
<1> QED BY <1>1, <1>2, TalliesAreNumbers DEF UsedBytes

-----------------------------------------------------------------------------
(* The bound grows by one request's share whenever a handler stops writing.  *)

(* The share of one request covers both transactions.                        *)
LEMMA ShareCovers ==
  /\ GrowthOfOneRequest \in Nat
  /\ 3 * MaxEntries <= GrowthOfOneRequest
  /\ 3 * MaxRows + EscrowCapacity <= GrowthOfOneRequest
BY StoreAssumption, EscrowAssumption DEF GrowthOfOneRequest

(* Shares of numbers are numbers, and more handlers have more of them.       *)
LEMMA Shares ==
  ASSUME NEW g \in Nat, NEW j \in Nat, NEW k \in Nat, j <= k
  PROVE  /\ g * j \in Nat /\ g * k \in Nat
         /\ g * j <= g * k
         /\ g * (k + 1) = g * k + g
<1>1. PICK d \in Nat : k = j + d
  <2>1. k - j \in Nat /\ k = j + (k - j)
    OBVIOUS
  <2> QED BY <2>1
<1>2. g * j \in Nat /\ g * d \in Nat /\ g * k = g * j + g * d
  BY <1>1
<1> QED BY <1>2

(* Some handlers are writing, the others leave room.                         *)
LEMMA WritersAreHandlers ==
  ASSUME NEW W \in SUBSET Handlers
  PROVE  /\ IsFiniteSet(W) /\ Cardinality(W) \in Nat /\ Cardinality(Handlers) \in Nat
         /\ Cardinality(Handlers) - Cardinality(W) \in Nat
BY StoreAssumption, FS_Subset, FS_CardinalityType

(* The bound over the handlers that write.                                   *)
BoundWith(W) == Quota + GrowthOfOneRequest * (Cardinality(Handlers) - Cardinality(W))

(* The fewer handlers write, the higher the bound; none is below the quota.  *)
LEMMA BoundRises ==
  ASSUME NEW W \in SUBSET Handlers, NEW V \in SUBSET W
  PROVE  BoundWith(W) \in Nat /\ Quota <= BoundWith(W) /\ BoundWith(W) <= BoundWith(V)
<1>1. PICK k \in Nat : k = Cardinality(Handlers) - Cardinality(W)
  BY WritersAreHandlers
<1>2. PICK m \in Nat : m = Cardinality(Handlers) - Cardinality(V)
  BY WritersAreHandlers
<1>3. k <= m
  BY <1>1, <1>2, WritersAreHandlers, FS_Subset
<1>4. PICK g \in Nat : g = GrowthOfOneRequest
  BY ShareCovers
<1>5. g * k \in Nat /\ g * m \in Nat /\ g * k <= g * m
  BY <1>3, Shares
<1>6. BoundWith(W) = Quota + g * k /\ BoundWith(V) = Quota + g * m
  BY <1>1, <1>2, <1>4 DEF BoundWith
<1> QED BY <1>5, <1>6, StoreAssumption

(* A handler that stops writing leaves its share to the bound.               *)
LEMMA BoundLeft ==
  ASSUME NEW W \in SUBSET Handlers, NEW h \in W
  PROVE  BoundWith(W \ {h}) = BoundWith(W) + GrowthOfOneRequest
<1>1. PICK k \in Nat : k = Cardinality(Handlers) - Cardinality(W)
  BY WritersAreHandlers
<1>2. Cardinality(Handlers) - Cardinality(W \ {h}) = k + 1
  BY <1>1, WritersAreHandlers, FS_RemoveElement
<1>3. PICK g \in Nat : g = GrowthOfOneRequest
  BY ShareCovers
<1>4. g * k \in Nat /\ g * (k + 1) = g * k + g
  BY Shares
<1>5. BoundWith(W) = Quota + g * k /\ BoundWith(W \ {h}) = Quota + g * (k + 1)
  BY <1>1, <1>2, <1>3 DEF BoundWith
<1> QED BY <1>3, <1>4, <1>5, StoreAssumption

(* A step that neither adds to the store nor lets another handler write      *)
(* keeps the bound.                                                          *)
LEMMA NoMoreUse ==
  ASSUME UsageInv, NEW used \in Nat, used <= UsedBytes, NEW V \in SUBSET Writing
  PROVE  used < BoundWith(V)
<1>1. Writing \in SUBSET Handlers
  BY DEF Writing
<1>2. UsedBytes < BoundWith(Writing) /\ UsedBytes \in Nat
  BY TalliesAreNumbers DEF UsageInv, UsageBounded, BoundWith
<1>3. BoundWith(Writing) \in Nat /\ BoundWith(V) \in Nat /\ BoundWith(Writing) <= BoundWith(V)
  <2>1. V \in SUBSET Handlers /\ V \in SUBSET V
    BY <1>1
  <2> QED BY <1>1, <2>1, BoundRises
<1> QED BY <1>2, <1>3

(* A handler's transaction uses no more than its share.                      *)
LEMMA OneShareUsed ==
  ASSUME UsageInv, NEW h \in Writing, NEW used \in Nat, used <= UsedBytes + GrowthOfOneRequest
  PROVE  used < BoundWith(Writing \ {h})
<1>1. Writing \in SUBSET Handlers
  BY DEF Writing
<1>2. UsedBytes < BoundWith(Writing) /\ UsedBytes \in Nat
  BY TalliesAreNumbers DEF UsageInv, UsageBounded, BoundWith
<1>3. BoundWith(Writing \ {h}) = BoundWith(Writing) + GrowthOfOneRequest
  BY <1>1, BoundLeft
<1>4. BoundWith(Writing) \in Nat
  <2>1. Writing \in SUBSET Writing
    OBVIOUS
  <2> QED BY <1>1, <2>1, BoundRises
<1> QED BY <1>2, <1>3, <1>4, ShareCovers

(* A request enters within its limits, and only while the vault has room.    *)
LEMMA AcceptKeepsUsage ==
  ASSUME UsageInv, NEW h \in Handlers, NEW stage \in Stages, NEW rows \in Rankings, NEW entries,
         IsFiniteSet(DOMAIN rows), Cardinality(DOMAIN rows) <= MaxRows,
         Cardinality(entries) <= MaxEntries, Accept(h, stage, rows, entries)
  PROVE  RequestsBounded' /\ UsageBounded'
<1>1. calls \in [Handlers -> Call]
  BY DEF UsageInv, StoreInv, TypeOK, NodeTypeOK
<1>2. RequestsBounded'
  BY <1>1 DEF Accept, Become, UsageInv, RequestsBounded
<1>3. UsedBytes' = UsedBytes /\ UsedBytes < Quota /\ UsedBytes \in Nat
  BY TalliesAreNumbers, StoreAssumption
     DEF Accept, storeVars, indexVars, metadataVars, UsedBytes, Held, Known, AtCapacity, UsageInv
<1>4. Quota <= BoundWith(Writing') /\ BoundWith(Writing') \in Nat
  <2>1. Writing' \in SUBSET Handlers /\ Writing' \in SUBSET Writing'
    BY DEF Writing
  <2> QED BY <2>1, BoundRises
<1> QED BY <1>2, <1>3, <1>4, StoreAssumption DEF UsageBounded, BoundWith

(* A step that leaves the store alone and starts no transaction keeps what   *)
(* requests carry and the bound.                                             *)
LEMMA WaitingKeepsUsage ==
  ASSUME UsageInv, UNCHANGED storeVars, RequestsBounded', Writing' \subseteq Writing
  PROVE  UsageBounded' /\ IsFiniteSet(order')
<1>1. UsedBytes' = UsedBytes /\ UsedBytes \in Nat /\ order' = order
  BY TalliesAreNumbers
     DEF storeVars, indexVars, metadataVars, UsedBytes, Held, Known, UsageInv
<1>2. PICK used \in Nat : used = UsedBytes /\ used <= UsedBytes
  BY <1>1
<1>3. PICK V : V = Writing'
  OBVIOUS
<1>4. used < BoundWith(V)
  BY <1>2, <1>3, NoMoreUse
<1> QED BY <1>1, <1>2, <1>3, <1>4 DEF UsageBounded, BoundWith, UsageInv

(* A handler without a request carries nothing.                              *)
LEMMA IdleIsBounded ==
  /\ Cardinality(Idle.entries) <= MaxEntries /\ IsFiniteSet(DOMAIN Idle.rows)
  /\ Cardinality(DOMAIN Idle.rows) <= MaxRows /\ Cardinality(DOMAIN NoRows) <= MaxRows
  /\ IsFiniteSet(DOMAIN NoRows) /\ Cardinality({}) <= MaxEntries
BY StoreAssumption, FS_EmptySet, EmptyRanking DEF Idle

(* A page brings one row, and a posting for each of its words.               *)
LEMMA PageIsBounded ==
  ASSUME NEW url \in URLs, NEW rank \in Ranks, NEW pageWords \in SUBSET Words,
         Cardinality(pageWords) <= MaxEntries
  PROVE  LET rows == [u \in {url} |-> rank]
         IN  /\ rows \in Rankings
             /\ IsFiniteSet(DOMAIN rows) /\ Cardinality(DOMAIN rows) <= MaxRows
             /\ Cardinality(pageWords \X {url}) <= MaxEntries
<1>1. PICK rows : rows = [u \in {url} |-> rank]
  OBVIOUS
<1>2. rows \in [{url} -> Ranks] /\ {url} \in SUBSET URLs /\ DOMAIN rows = {url}
  BY <1>1
<1>3. rows \in Rankings
  BY <1>2 DEF Rankings
<1>4. IsFiniteSet({url}) /\ Cardinality({url}) = 1
  BY FS_Singleton
<1>5. IsFiniteSet(pageWords) /\ Cardinality(pageWords) \in Nat
  BY KeysAssumption, FS_Subset, FS_CardinalityType
<1>6. Cardinality(pageWords \X {url}) = Cardinality(pageWords) * 1
  BY <1>4, <1>5, FS_Product
<1> QED BY <1>1, <1>2, <1>3, <1>4, <1>5, <1>6, StoreAssumption

(* A handler's step keeps the bound.                                         *)
LEMMA HandlerKeepsUsage ==
  ASSUME UsageInv, StoreInv', NEW h \in Handlers, Handler(h)
  PROVE  IsFiniteSet(order') /\ RequestsBounded' /\ UsageBounded'
<1>1. calls \in [Handlers -> Call]
  BY DEF UsageInv, StoreInv, TypeOK, NodeTypeOK
<1>2. ASSUME calls' = [calls EXCEPT ![h] = Idle]
      PROVE  RequestsBounded' /\ Writing' = Writing \ {h}
  BY <1>1, <1>2, IdleIsBounded DEF RequestsBounded, UsageInv, Writing, Idle
<1>3. ASSUME NEW stage \in Stages, Become(h, stage, NoRows, calls[h].entries)
      PROVE  RequestsBounded'
  BY <1>1, <1>3, IdleIsBounded DEF RequestsBounded, UsageInv, Become
<1>4. CASE ReceivePostings(h) \/ ReceiveURLs(h) \/ OfferPage(h)
  <2>0. IsFiniteSet(order')
    BY <1>4 DEF UsageInv, ReceivePostings, ReceiveURLs, OfferPage, Accept, storeVars, metadataVars
  <2>1. CASE ReceivePostings(h)
    BY <2>0, <2>1, AcceptKeepsUsage, IdleIsBounded, EmptyRanking DEF ReceivePostings, Stages
  <2>2. CASE ReceiveURLs(h)
    <3>1. PICK rows \in Rankings :
            Cardinality(DOMAIN rows) <= MaxRows /\ Accept(h, "storing", rows, {})
      BY <2>2 DEF ReceiveURLs
    <3>2. IsFiniteSet(DOMAIN rows)
      BY RowsAreRanked, KeysAssumption, FS_Subset
    <3> QED BY <2>0, <3>1, <3>2, AcceptKeepsUsage, IdleIsBounded DEF Stages
  <2>3. CASE OfferPage(h)
    <3>1. PICK url \in URLs, rank \in Ranks, pageWords \in SUBSET Words :
            /\ Cardinality(pageWords) <= MaxEntries
            /\ Accept(h, "storing", [u \in {url} |-> rank], pageWords \X {url})
      BY <2>3 DEF OfferPage
    <3> QED BY <2>0, <3>1, PageIsBounded, AcceptKeepsUsage DEF Stages
  <2> QED BY <1>4, <2>1, <2>2, <2>3
<1>5. CASE RoutePostings(h)
  <2>1. RequestsBounded' /\ Writing' = Writing \ {h} /\ h \in Writing /\ order' = order
    BY <1>2, <1>5 DEF RoutePostings, metadataVars, Writing
  <2>2. UsedBytes' \in Nat /\ UsedBytes' <= UsedBytes + 3 * MaxEntries
    BY <1>5, RouteGrowth DEF UsageInv
  <2>3. PICK used \in Nat : used = UsedBytes'
    BY <2>2
  <2>4. used <= UsedBytes + GrowthOfOneRequest
    BY <2>2, <2>3, ShareCovers, StoreAssumption, TalliesAreNumbers DEF UsageInv
  <2>5. used < BoundWith(Writing \ {h})
    BY <2>1, <2>4, OneShareUsed
  <2> QED BY <2>1, <2>3, <2>5 DEF UsageInv, UsageBounded, BoundWith
<1>6. CASE StoreURLs(h)
  <2>1. RequestsBounded' /\ Writing' = Writing \ {h} /\ h \in Writing
    <3>1. CASE calls[h].entries = {}
      BY <1>2, <1>6, <3>1 DEF StoreURLs, Writing
    <3>2. CASE calls[h].entries # {}
      <4>1. Become(h, "checkingPostings", NoRows, calls[h].entries)
        BY <1>6, <3>2 DEF StoreURLs
      <4>2. Writing' = Writing \ {h}
        BY <1>1, <4>1 DEF Become, Writing
      <4> QED BY <1>3, <1>6, <4>1, <4>2 DEF Stages, StoreURLs, Writing
    <3> QED BY <3>1, <3>2
  <2>2. /\ UsedBytes' \in Nat /\ UsedBytes' <= UsedBytes + 3 * MaxRows + EscrowCapacity
        /\ IsFiniteSet(order')
    BY <1>6, StoreGrowth DEF UsageInv
  <2>3. PICK used \in Nat : used = UsedBytes'
    BY <2>2
  <2>4. used <= UsedBytes + GrowthOfOneRequest
    BY <2>2, <2>3, ShareCovers, StoreAssumption, EscrowAssumption, TalliesAreNumbers DEF UsageInv
  <2>5. used < BoundWith(Writing \ {h})
    BY <2>1, <2>4, OneShareUsed
  <2> QED BY <2>1, <2>2, <2>3, <2>5 DEF UsageBounded, BoundWith
<1>7. CASE CheckPagePostings(h)
  <2>1. CASE AtCapacity
    BY <1>2, <1>7, <2>1, WaitingKeepsUsage DEF CheckPagePostings
  <2>2. CASE ~AtCapacity
    <3>1. Become(h, "routing", NoRows, calls[h].entries) /\ UNCHANGED storeVars
      BY <1>7, <2>2 DEF CheckPagePostings
    <3>2. RequestsBounded'
      BY <1>3, <3>1 DEF Stages
    <3>3. UsedBytes' = UsedBytes /\ UsedBytes < Quota /\ UsedBytes \in Nat /\ order' = order
      BY <2>2, <3>1, TalliesAreNumbers, StoreAssumption
         DEF storeVars, indexVars, metadataVars, UsedBytes, Held, Known, AtCapacity, UsageInv
    <3>4. Quota <= BoundWith(Writing') /\ BoundWith(Writing') \in Nat
      <4>1. Writing' \in SUBSET Handlers /\ Writing' \in SUBSET Writing'
        BY DEF Writing
      <4> QED BY <4>1, BoundRises
    <3> QED BY <3>2, <3>3, <3>4, StoreAssumption DEF UsageBounded, BoundWith, UsageInv
  <2> QED BY <2>1, <2>2
<1>8. CASE Refuse(h)
  BY <1>2, <1>8, WaitingKeepsUsage DEF Refuse
<1> QED BY <1>4, <1>5, <1>6, <1>7, <1>8 DEF Handler

(* Every step keeps the bound.                                               *)
LEMMA UsageStep ==
  ASSUME UsageInv, StoreInv', [Next]_vars
  PROVE  IsFiniteSet(order') /\ RequestsBounded' /\ UsageBounded'
<1>1. ASSUME UNCHANGED calls PROVE RequestsBounded' /\ Writing' = Writing
  BY <1>1 DEF UsageInv, RequestsBounded, Writing
<1>2. ASSUME UNCHANGED calls, postings' \subseteq postings, words' \subseteq words,
             referenced' \subseteq referenced, Held' \subseteq Held, Known' \subseteq Known,
             order' \subseteq order, DOMAIN freshness' \subseteq DOMAIN freshness
      PROVE  IsFiniteSet(order') /\ RequestsBounded' /\ UsageBounded'
  <2>1. IsFiniteSet(order') /\ UsedBytes' \in Nat /\ UsedBytes' <= UsedBytes
    BY <1>2, ShrinkingLowersUsage DEF UsageInv
  <2>2. PICK used \in Nat : used = UsedBytes' /\ used <= UsedBytes
    BY <2>1
  <2>3. Writing \in SUBSET Writing
    OBVIOUS
  <2>4. used < BoundWith(Writing)
    BY <2>2, <2>3, NoMoreUse
  <2> QED BY <1>1, <1>2, <2>1, <2>2, <2>4 DEF UsageBounded, BoundWith
<1>3. CASE \E h \in Handlers : Handler(h)
  BY <1>3, HandlerKeepsUsage
<1>4. CASE Expire
  <2>1. Held' \subseteq Held
    BY <1>4, ExpireEffect DEF UsageInv
  <2> QED BY <1>2, <1>4, <2>1 DEF Expire, indexVars, metadataVars, Known
<1>5. CASE PurgeStalest
  <2>1. PICK entries \in SUBSET order :
          LET urls == {e[2] : e \in entries}
          IN  PurgePostings(PostingsReferencing(urls)) /\ PurgeURLs(urls)
    BY <1>5 DEF PurgeStalest
  <2>2. /\ postings' \subseteq postings /\ words' \subseteq words /\ referenced' \subseteq referenced
        /\ Known' \subseteq Known /\ order' \subseteq order
        /\ DOMAIN freshness' \subseteq DOMAIN freshness
    BY <2>1 DEF PurgePostings, ReferencesPurged, PurgeURLs, RankPurged, Known
  <2>3. Held' = Held /\ UNCHANGED calls
    BY <1>5 DEF PurgeStalest, Held
  <2> QED BY <1>2, <2>2, <2>3
<1>6. CASE HandOff
  <2>1. postings' \subseteq postings /\ words' \subseteq words /\ referenced' \subseteq referenced
    BY <1>6 DEF HandOff, PurgePostings, ReferencesPurged
  <2> QED BY <1>2, <1>6, <2>1 DEF HandOff, metadataVars, Held, Known
<1>7. CASE StartSweep \/ MeasureUsage \/ Tick \/ UNCHANGED vars
  BY <1>1, <1>7, WaitingKeepsUsage DEF StartSweep, MeasureUsage, Tick, vars, storeVars
<1>8. CASE Restart
  <2>1. Writing' = {}
    BY <1>8 DEF Restart, Writing, Idle
  <2>2. RequestsBounded'
    BY <1>8, IdleIsBounded DEF Restart, RequestsBounded
  <2> QED BY <1>8, <2>1, <2>2, WaitingKeepsUsage DEF Restart
<1> QED BY <1>3, <1>4, <1>5, <1>6, <1>7, <1>8 DEF Next, Sweeping

(* The empty store is within the bound.                                      *)
LEMMA UsageInit == Init => UsageInv
<1> SUFFICES ASSUME Init PROVE UsageInv
  OBVIOUS
<1>1. StoreInv /\ EscrowBounded
  BY StoreInvInit, EscrowBoundedInit
<1>2. RequestsBounded /\ Writing = {}
  BY IdleIsBounded DEF Init, RequestsBounded, Writing, Idle
<1>3. UsedBytes = 0 /\ IsFiniteSet(order)
  BY FS_EmptySet DEF Init, IndexInit, EscrowInit, MetadataInit, UsedBytes, Held, Known
<1>4. Quota <= BoundWith({}) /\ BoundWith({}) \in Nat
  BY BoundRises
<1>5. UsageBounded
  BY <1>2, <1>3, <1>4, StoreAssumption DEF UsageBounded, BoundWith
<1> QED BY <1>1, <1>2, <1>3, <1>5 DEF UsageInv

(* Handlers that pass the capacity check together overshoot the quota by no  *)
(* more than one request's growth for each of them.                          *)
THEOREM UsageStaysBounded == Spec => []UsageBounded
<1>1. UsageInv /\ [Next]_vars => UsageInv'
  BY UsageStep, StoreInvStep, EscrowBoundedStep DEF UsageInv
<1>2. UsageInv => UsageBounded
  BY DEF UsageInv
<1> QED BY <1>1, <1>2, UsageInit, PTL DEF Spec

-----------------------------------------------------------------------------
(* What a step may never do. *)

KeepsPostings ==
  /\ \A p \in Held \ DOMAIN escrowed' : p \in postings' \/ escrowed[p] + HoldFor < now
  /\ \A p \in postings \ postings' : URLOf(p) \notin DOMAIN urlMetadata' \/ HandOff

(* No posting the node took is lost but to the end of its hold, with the     *)
(* metadata of its URL, or handed off.                                       *)
THEOREM PostingsAreKept == Spec => NothingLostSilently
<1>1. StoreInv /\ [Next]_vars => [KeepsPostings]_vars
  <2> SUFFICES ASSUME StoreInv, [Next]_vars PROVE KeepsPostings \/ UNCHANGED vars
    OBVIOUS
  <2> USE DEF Held, Known
  <2>1. ASSUME NEW h \in Handlers, RoutePostings(h) PROVE KeepsPostings
    BY <2>1, RouteEffect DEF KeepsPostings
  <2>2. ASSUME NEW h \in Handlers, StoreURLs(h) PROVE KeepsPostings
    BY <2>2, StoreEffect DEF KeepsPostings
  <2>3. CASE Expire
    BY <2>3, ExpireEffect DEF KeepsPostings
  <2>4. CASE PurgeStalest
    <3>1. PICK urls \in SUBSET URLs :
            /\ postings' = {p \in postings : URLOf(p) \notin urls}
            /\ Known' = Known \ urls
      BY <2>4, PurgeEffect
    <3> QED BY <2>4, <3>1 DEF PurgeStalest, KeepsPostings
  <2>5. ASSUME UNCHANGED storeVars PROVE KeepsPostings
    BY <2>5 DEF storeVars, indexVars, metadataVars, KeepsPostings
  <2>6. CASE \E h \in Handlers : Handler(h)
    BY <2>1, <2>2, <2>5, <2>6, OtherHandlerSteps
  <2>7. CASE StartSweep \/ MeasureUsage \/ Tick \/ Restart
    BY <2>5, <2>7 DEF StartSweep, MeasureUsage, Tick, Restart
  <2>8. CASE HandOff
    BY <2>8 DEF HandOff, KeepsPostings
  <2> QED BY <2>3, <2>4, <2>6, <2>7, <2>8 DEF Next, Sweeping
<1>2. [KeepsPostings]_vars =>
        [/\ \A p \in Held \ DOMAIN escrowed' : p \in postings' \/ escrowed[p] + HoldFor < now
         /\ \A p \in postings \ postings' : URLOf(p) \notin DOMAIN urlMetadata' \/ HandOff]_vars
  BY DEF KeepsPostings
<1> QED BY <1>1, <1>2, StoreInvAlways, PTL DEF Spec, NothingLostSilently

-----------------------------------------------------------------------------
(* The storage core implements the index it promises. *)

USE DEF Index!Posting, Index!URLOf

(* The empty store is the empty abstract index.                              *)
LEMMA IndexInitialized == Init => Index!Init
BY DEF Init, IndexInit, EscrowInit, MetadataInit, Index!Init, Known, Held

(* Routing is the abstract arrival of postings.                              *)
LEMMA RouteArrives ==
  ASSUME StoreInv, NEW h \in Handlers, RoutePostings(h)
  PROVE  Index!Next
<1> DEFINE entries  == calls[h].entries
           awaiting == {p \in entries : URLOf(p) \notin Known}
<1>1. entries \in SUBSET Posting
  BY CallTyped DEF StoreInv
<1>2. entries \ Index!PostingsOf(Known) = awaiting
  BY <1>1 DEF Index!PostingsOf
<1>3. Index!Arrive(entries)
  <2>1. /\ postings' = postings \cup (entries \ awaiting)
        /\ Held' = Held \cup awaiting
        /\ Known' = Known
        /\ awaiting \subseteq Held \/ Cardinality(Held \cup awaiting) <= EscrowCapacity
    BY RouteEffect DEF EscrowHasRoomFor
  <2>2. Index!Cardinality(Held \cup awaiting) = Cardinality(Held \cup awaiting)
    BY DEF Cardinality, Index!Cardinality
  <2> HIDE DEF entries, awaiting
  <2> QED BY <1>2, <2>1, <2>2 DEF Index!Arrive
<1> QED BY <1>1, <1>3 DEF Index!Next

(* Storing URLs is the abstract learning of metadata.                        *)
LEMMA StoreLearns ==
  ASSUME StoreInv, NEW h \in Handlers, StoreURLs(h)
  PROVE  Index!Next
<1> DEFINE urls == DOMAIN calls[h].rows
<1>1. urls \in SUBSET URLs
  BY CallTyped, RowsAreRanked DEF StoreInv
<1>2. {p \in Held : URLOf(p) \in urls} = Held \cap Index!PostingsOf(urls)
  BY DEF Index!PostingsOf, StoreInv, TypeOK, EscrowTypeOK, Held
<1>3. Index!Learn(urls)
  BY <1>2, StoreEffect DEF Index!Learn
<1> QED BY <1>1, <1>3 DEF Index!Next

(* Expiry is the abstract lapse of waiting postings.                         *)
LEMMA ExpireLapses ==
  ASSUME StoreInv, Expire
  PROVE  Index!Next
<1>1. Held' = Held \ (Held \ Held') /\ Held \ Held' \in SUBSET Posting
  BY ExpireEffect DEF StoreInv, TypeOK, EscrowTypeOK, Held
<1>2. Index!Lapse(Held \ Held')
  BY <1>1, ExpireEffect DEF Index!Lapse
<1> QED BY <1>1, <1>2 DEF Index!Next

(* Eviction is the abstract forgetting of URLs.                              *)
LEMMA PurgeForgets ==
  ASSUME StoreInv, PurgeStalest
  PROVE  Index!Next
<1>1. PICK urls \in SUBSET URLs :
        postings' = {p \in postings : URLOf(p) \notin urls} /\ Known' = Known \ urls
  BY PurgeEffect
<1>2. postings' = postings \ Index!PostingsOf(urls)
  BY <1>1 DEF Index!PostingsOf, StoreInv, TypeOK, IndexTypeOK
<1>3. Held' = Held
  BY DEF PurgeStalest, Held
<1>4. Index!Forget(urls)
  BY <1>1, <1>2, <1>3 DEF Index!Forget
<1> QED BY <1>1, <1>4 DEF Index!Next

(* A hand-off is the abstract shedding of postings.                          *)
LEMMA HandOffSheds ==
  ASSUME StoreInv, HandOff
  PROVE  Index!Next
<1>1. PICK set \in SUBSET Posting : PurgePostings(set)
  BY DEF HandOff
<1>2. Index!Shed(set)
  BY <1>1 DEF HandOff, PurgePostings, Index!Shed, metadataVars, Known, Held
<1> QED BY <1>1, <1>2 DEF Index!Next

(* Every step of the storage core is a step of RWIIndex or changes nothing   *)
(* RWIIndex speaks of.                                                       *)
THEOREM StoreImplementsIndex == Spec => ImplementsIndex
<1>1. StoreInv /\ [Next]_vars => [Index!Next]_(Index!indexStateVars)
  <2> SUFFICES ASSUME StoreInv, [Next]_vars
               PROVE  Index!Next \/ UNCHANGED Index!indexStateVars
    OBVIOUS
  <2>1. ASSUME UNCHANGED storeVars PROVE UNCHANGED Index!indexStateVars
    BY <2>1 DEF storeVars, indexVars, metadataVars, Index!indexStateVars, Known, Held
  <2>2. CASE \E h \in Handlers : Handler(h)
    BY <2>1, <2>2, RouteArrives, StoreLearns, OtherHandlerSteps
  <2>3. CASE Expire
    BY <2>3, ExpireLapses
  <2>4. CASE PurgeStalest
    BY <2>4, PurgeForgets
  <2>5. CASE StartSweep \/ MeasureUsage \/ Tick \/ Restart \/ UNCHANGED vars
    BY <2>1, <2>5 DEF StartSweep, MeasureUsage, Tick, Restart, vars, storeVars
  <2>6. CASE HandOff
    BY <2>6, HandOffSheds
  <2> QED BY <2>2, <2>3, <2>4, <2>5, <2>6 DEF Next, Sweeping
<1> QED BY <1>1, IndexInitialized, StoreInvAlways, PTL DEF Spec, ImplementsIndex, Index!Spec

=============================================================================
