--------------------------- MODULE OperatorProofs ---------------------------
(***************************************************************************)
(* What TLC checks in every case of a small instance (OperatorCases), proved *)
(* for every instance: of the vault, the window of replicas, the search, the *)
(* settings and what peers say.                                              *)
(*                                                                           *)
(* The vault keeps the promise of AtomicVault, for any number of writers   *)
(* and readers, over either engine.  A transaction in the making is          *)
(* described piece by piece: which of its closures ran, and what the log,   *)
(* the count and the tally are after each piece (StagedInv).  That a commit  *)
(* toggles each writer's entry once rests on where calls wait: a call is in  *)
(* one place only (QueueInv, TxnQueue), also when a merged transaction       *)
(* starts over and its calls are spread again.  The bytes of a bucket are    *)
(* the sizes of its records at every step of a transaction (TallyInv).       *)
(*                                                                           *)
(* The window of replicas is the DHT's responsibility, on any ring and with  *)
(* any number of peers: the peers closest to a posting are as many as wanted *)
(* (ClosestFill), so nodes rank by distance the way the window counts them.  *)
(*                                                                           *)
(* What a peer plans by the abstracts of the terms is what a search finds,   *)
(* whatever the index holds (KeptIsAccepted, MostPostingsExist).  A search   *)
(* finds the best documents in their order, in whatever order it joins its   *)
(* terms: a match says the same of a document's postings however they are    *)
(* joined (MatchCounts), the documents have one order only (SortedOnce), and *)
(* a place in it counts those before it (PlacesCount).  The bound on a       *)
(* term's postings costs no more than it says (BestOfTheMostFrequent).       *)
(*                                                                           *)
(* A program that starts can run, whatever its environment: every setting    *)
(* its parts count on is read by a reader that refuses what they could not   *)
(* use (NodeReads and the lemmas after it).                                  *)
(*                                                                           *)
(* What a peer writes of a row it accepted is read by the next as that       *)
(* (ReadAsWritten), column by column; and of a batch, what cannot be read    *)
(* neither counts nor moves what can (GoodStay, FirstStays, GapStays).       *)
(***************************************************************************)
EXTENDS WindowCases, SearchCases, VaultEngine, ServiceConfiguration, WireForms,
        FiniteSetTheorems, WellFoundedInduction, TLAPS

----------------------------------------------------------------------------
\* The vault.

Toggled(S, T) == (S \ T) \cup (T \ S)

Calls(g) == Range(g.calls)

TypeInv ==
    /\ engine \in {"pebble", "bolt"}
    /\ stored \in Store
    /\ waiting \in Seq(Writers)
    /\ groups \subseteq Groups
    /\ txn \in Transactions \cup {None}
    /\ call \in [Writers -> [stage : Stages, callbacks : Nat]]
    /\ told \in [Writers -> Nat]
    /\ view \in [Readers -> ViewsOf(Store) \cup {None}]

QueueInv ==
    /\ IsInjective(waiting)
    /\ \A w \in Range(waiting) : call[w].stage = "called"
    /\ \A g \in groups :
          /\ IsInjective(g.calls) /\ (g.solo => Len(g.calls) = 1)
          /\ \A w \in Calls(g) : call[w].stage = "called" /\ w \notin Range(waiting)
    /\ \A g, h \in groups : g # h => Calls(g) \cap Calls(h) = {}

RanIn(t) == {t.group.calls[i] : i \in 1 .. t.at - 1}

TxnQueue ==
    /\ \A w \in Writers : call[w].stage = "ran" => txn # None /\ w \in RanIn(txn)
    /\ txn # None =>
          /\ IsInjective(txn.group.calls) /\ (txn.group.solo => Len(txn.group.calls) = 1)
          /\ txn.at \in 1 .. Len(txn.group.calls) + 1
          /\ \A i \in 1 .. Len(txn.group.calls) :
                call[txn.group.calls[i]].stage = IF i < txn.at THEN "ran" ELSE "called"
          /\ \A g \in groups : Calls(g) \cap Calls(txn.group) = {}
          /\ Range(waiting) \cap Calls(txn.group) = {}

Settled(store) ==
    /\ CountIn(store) = Cardinality(LogIn(store))
    /\ store.tally["log"].entries = Cardinality(LogIn(store))

StagedInv ==
    txn # None =>
       LET log == LogIn(txn.staged) IN
       /\ txn.step # "read" => txn.at <= Len(txn.group.calls)
       /\ log = Toggled(LogIn(stored),
                        RanIn(txn) \cup (IF txn.step = "return" THEN {Running} ELSE {}))
       /\ txn.staged.tally["log"].entries = Cardinality(log)
       /\ CountIn(txn.staged) =
             Cardinality(log) + (IF txn.step # "note" THEN 0 ELSE IF Running \in log THEN -1 ELSE 1)
       /\ txn.step = "count" => txn.seen = CountIn(txn.staged)

StoredInv ==
    /\ Settled(stored)
    /\ \A r \in Readers : view[r] # None => Settled(view[r].of)

OneCallback ==
    \A w \in Writers : call[w].stage \in {"ran", "committed"} => call[w].callbacks = 1

VaultInv == TypeInv /\ QueueInv /\ TxnQueue /\ StagedInv /\ StoredInv /\ OneCallback

----------------------------------------------------------------------------
\* What the operations of a bucket do to a store.

\* A tally adjusted by numbers is a tally (storedBucketTally.adjustBy).
LEMMA AdjustedType ==
    ASSUME NEW tally \in [entries : Int, bytes : Int], NEW e \in Int, NEW b \in Int
    PROVE  /\ AdjustedBy(tally, e, b) \in [entries : Int, bytes : Int]
           /\ AdjustedBy(tally, e, b).entries = Larger(tally.entries + e, 0)
BY DEF AdjustedBy, Larger

\* A value put under a key is found there, and nothing else changes (pebbleBucket.Put).
LEMMA PutType ==
    ASSUME NEW store \in Store, NEW b \in Buckets, NEW k \in Keys, NEW new \in Int
    PROVE  LET after == Put(store, b, k, new) IN
           /\ after \in Store
           /\ \A c \in Buckets, x \in Keys : after.entries[c][x] =
                 IF c = b /\ x = k THEN new ELSE store.entries[c][x]
           /\ after.tally[b].entries =
                 IF store.entries[b][k] = None THEN Larger(store.tally[b].entries + 1, 0)
                                               ELSE Larger(store.tally[b].entries, 0)
           /\ \A c \in Buckets \ {b} : after.tally[c] = store.tally[c]
<1> DEFINE old == store.entries[b][k]
           adjusted == IF IsHeld(old)
                       THEN AdjustedBy(store.tally[b], 0, RecordLength(new) - RecordLength(old))
                       ELSE AdjustedBy(store.tally[b], 1, KeyLength + RecordLength(new))
<1>1. old \in Int \cup {None} /\ store.tally[b] \in [entries : Int, bytes : Int]
  BY DEF Store
<1>2. /\ adjusted \in [entries : Int, bytes : Int]
      /\ adjusted.entries = IF old = None THEN Larger(store.tally[b].entries + 1, 0)
                                          ELSE Larger(store.tally[b].entries, 0)
  <2>1. CASE old = None
    <3>1. KeyLength + RecordLength(new) \in Int BY DEF KeyLength, RecordLength
    <3>2. adjusted = AdjustedBy(store.tally[b], 1, KeyLength + RecordLength(new))
      BY <2>1 DEF IsHeld
    <3> QED BY <1>1, <2>1, <3>1, <3>2, AdjustedType
  <2>2. CASE old # None
    <3>1. RecordLength(new) - RecordLength(old) \in Int BY <1>1, <2>2 DEF RecordLength
    <3>2. adjusted = AdjustedBy(store.tally[b], 0, RecordLength(new) - RecordLength(old))
      BY <2>2 DEF IsHeld
    <3>3. store.tally[b].entries + 0 = store.tally[b].entries BY <1>1
    <3> HIDE DEF adjusted
    <3> QED BY <1>1, <2>2, <3>1, <3>2, <3>3, AdjustedType
  <2> QED BY <2>1, <2>2
<1>3. Put(store, b, k, new) =
         [entries |-> [store.entries EXCEPT ![b] = [@ EXCEPT ![k] = new]],
          tally |-> [store.tally EXCEPT ![b] = adjusted]]
  BY DEF Put, Store
<1> HIDE DEF adjusted
<1> QED BY <1>2, <1>3 DEF Store

\* A key taken out holds nothing, and nothing else changes (pebbleBucket.Delete).
LEMMA DeleteType ==
    ASSUME NEW store \in Store, NEW b \in Buckets, NEW k \in Keys, store.entries[b][k] # None
    PROVE  LET after == Delete(store, b, k) IN
           /\ after \in Store
           /\ \A c \in Buckets, x \in Keys : after.entries[c][x] =
                 IF c = b /\ x = k THEN None ELSE store.entries[c][x]
           /\ after.tally[b].entries = Larger(store.tally[b].entries - 1, 0)
           /\ \A c \in Buckets \ {b} : after.tally[c] = store.tally[c]
<1> DEFINE old == store.entries[b][k]
           adjusted == AdjustedBy(store.tally[b], -1, -(KeyLength + RecordLength(old)))
<1>1. old \in Int /\ store.tally[b] \in [entries : Int, bytes : Int]
  BY DEF Store
<1>2. -(KeyLength + RecordLength(old)) \in Int BY <1>1 DEF KeyLength, RecordLength
<1>3. /\ adjusted \in [entries : Int, bytes : Int]
      /\ adjusted.entries = Larger(store.tally[b].entries - 1, 0)
  <2>1. store.tally[b].entries + (-1) = store.tally[b].entries - 1 BY <1>1
  <2> QED BY <1>1, <1>2, <2>1, AdjustedType
<1>4. Delete(store, b, k) =
         [entries |-> [store.entries EXCEPT ![b] = [@ EXCEPT ![k] = None]],
          tally |-> [store.tally EXCEPT ![b] = adjusted]]
  BY DEF Delete, Store, IsHeld
<1> HIDE DEF adjusted
<1> QED BY <1>3, <1>4 DEF Store

\* The log and the count of a store are a finite set of writers and a number.
LEMMA StoreReads ==
    ASSUME NEW store \in Store
    PROVE  /\ CountIn(store) \in Int
           /\ LogIn(store) \subseteq Writers /\ IsFiniteSet(LogIn(store))
           /\ Cardinality(LogIn(store)) \in Nat
           /\ store.tally["log"].entries \in Int
<1>1. CountIn(store) \in Int
  BY DEF Store, CountIn, IsHeld, Buckets, Keys
<1>2. LogIn(store) \subseteq Writers
  BY DEF LogIn
<1>3. IsFiniteSet(LogIn(store))
  BY <1>2, VaultAssumption, FS_Subset
<1> QED BY <1>1, <1>2, <1>3, FS_CardinalityType DEF Store, Buckets

\* Putting the count leaves the log and its tally alone.
LEMMA PutTheCount ==
    ASSUME NEW store \in Store, NEW n \in Int
    PROVE  LET after == Put(store, "count", Total, n) IN
           /\ after \in Store
           /\ LogIn(after) = LogIn(store) /\ CountIn(after) = n
           /\ after.tally["log"] = store.tally["log"]
<1> DEFINE after == Put(store, "count", Total, n)
<1>1. /\ "count" \in Buckets /\ "log" \in Buckets \ {"count"}
      /\ Total \in Keys /\ Writers \subseteq Keys
  BY DEF Buckets, Keys
<1>2. /\ after \in Store /\ after.tally["log"] = store.tally["log"]
      /\ \A c \in Buckets, x \in Keys : after.entries[c][x] =
            IF c = "count" /\ x = Total THEN n ELSE store.entries[c][x]
  BY <1>1, PutType
<1>3. /\ \A w \in Writers : after.entries["log"][w] = store.entries["log"][w]
      /\ after.entries["count"][Total] = n
  BY <1>1, <1>2
<1> HIDE DEF after
<1>4. n # None BY VaultAssumption
<1>5. LogIn(after) = LogIn(store) /\ CountIn(after) = n
  BY <1>3, <1>4 DEF LogIn, CountIn, IsHeld
<1> QED BY <1>2, <1>5 DEF after

\* An entry added to the log, or taken out, is counted in its tally.
LEMMA ChangeTheLog ==
    ASSUME NEW store \in Store, NEW w \in Writers,
           store.tally["log"].entries = Cardinality(LogIn(store))
    PROVE  LET after == IF w \in LogIn(store) THEN Delete(store, "log", w)
                        ELSE Put(store, "log", w, InLog)
           IN
           /\ after \in Store
           /\ LogIn(after) = Toggled(LogIn(store), {w}) /\ CountIn(after) = CountIn(store)
           /\ after.tally["log"].entries = Cardinality(LogIn(after))
           /\ Cardinality(LogIn(after)) =
                 Cardinality(LogIn(store)) + IF w \in LogIn(store) THEN -1 ELSE 1
<1> DEFINE log == LogIn(store)
           after == IF w \in log THEN Delete(store, "log", w) ELSE Put(store, "log", w, InLog)
           value == IF w \in log THEN None ELSE InLog
<1>1. /\ "log" \in Buckets /\ "count" \in Buckets \ {"log"} /\ w \in Keys
      /\ Writers \subseteq Keys /\ InLog \in Int /\ InLog # None /\ w # Total
  BY VaultAssumption DEF Buckets, Keys, InLog
<1>2. (w \in log) <=> store.entries["log"][w] # None
  BY DEF LogIn, IsHeld
<1>3. log \subseteq Writers /\ IsFiniteSet(log) /\ Cardinality(log) \in Nat
  BY StoreReads
<1>4. /\ after \in Store
      /\ \A c \in Buckets, x \in Keys : after.entries[c][x] =
            IF c = "log" /\ x = w THEN value ELSE store.entries[c][x]
      /\ after.tally["log"].entries =
            Larger(Cardinality(log) + IF w \in log THEN -1 ELSE 1, 0)
  <2>1. CASE w \in log
    <3>1. after = Delete(store, "log", w) BY <2>1
    <3>2. store.tally["log"].entries - 1 = Cardinality(log) + (-1) BY <1>3
    <3> HIDE DEF after
    <3>3. /\ after \in Store
          /\ \A c \in Buckets, x \in Keys : after.entries[c][x] =
                IF c = "log" /\ x = w THEN None ELSE store.entries[c][x]
          /\ after.tally["log"].entries = Larger(store.tally["log"].entries - 1, 0)
      BY <1>1, <1>2, <2>1, <3>1, DeleteType
    <3> QED BY <2>1, <3>2, <3>3
  <2>2. CASE w \notin log
    <3>1. after = Put(store, "log", w, InLog) BY <2>2
    <3>0. store.entries["log"][w] = None BY <1>2, <2>2
    <3> HIDE DEF after, log, value
    <3>2. /\ after \in Store
          /\ \A c \in Buckets, x \in Keys : after.entries[c][x] =
                IF c = "log" /\ x = w THEN InLog ELSE store.entries[c][x]
      BY <1>1, <3>1, PutType
    <3>3. after.tally["log"].entries =
             IF store.entries["log"][w] = None THEN Larger(store.tally["log"].entries + 1, 0)
             ELSE Larger(store.tally["log"].entries, 0)
      BY <1>1, <3>1, PutType
    <3> QED BY <2>2, <3>0, <3>2, <3>3 DEF value, log
  <2> QED BY <2>1, <2>2
<1>5. /\ after.entries["count"][Total] = store.entries["count"][Total]
      /\ \A v \in Writers : after.entries["log"][v] = IF v = w THEN value
                                                       ELSE store.entries["log"][v]
  BY <1>1, <1>4 DEF Keys
<1> HIDE DEF after
<1>6. CountIn(after) = CountIn(store)
  BY <1>5 DEF CountIn, IsHeld
<1>7. LogIn(after) = Toggled(log, {w})
  BY <1>1, <1>2, <1>5 DEF LogIn, IsHeld, Toggled
<1>8. Cardinality(LogIn(after)) = Cardinality(log) + IF w \in log THEN -1 ELSE 1
  <2>1. CASE w \in log
    <3>1. LogIn(after) = log \ {w} BY <1>7, <2>1 DEF Toggled
    <3>2. Cardinality(log \ {w}) = Cardinality(log) - 1 BY <1>3, <2>1, FS_RemoveElement
    <3> QED BY <1>3, <2>1, <3>1, <3>2
  <2>2. CASE w \notin log
    <3>1. LogIn(after) = log \cup {w} BY <1>7, <2>2 DEF Toggled
    <3>2. Cardinality(log \cup {w}) = Cardinality(log) + 1 BY <1>3, <2>2, FS_AddElement
    <3> QED BY <1>3, <2>2, <3>1, <3>2
  <2> QED BY <2>1, <2>2
<1>9. Cardinality(LogIn(after)) \in Nat
  BY <1>4, StoreReads
<1>10. after.tally["log"].entries = Cardinality(LogIn(after))
  BY <1>4, <1>8, <1>9 DEF Larger
<1> QED BY <1>4, <1>6, <1>7, <1>8, <1>10 DEF after

\* A call put at the end of a queue it is not in.
LEMMA AppendNew ==
    ASSUME NEW S, NEW queue \in Seq(S), NEW w \in S
    PROVE  /\ Append(queue, w) \in Seq(S)
           /\ Range(Append(queue, w)) = Range(queue) \cup {w}
           /\ IsInjective(queue) /\ w \notin Range(queue) => IsInjective(Append(queue, w))
<1> DEFINE longer == Append(queue, w)
           n == Len(queue)
<1>1. /\ longer \in Seq(S) /\ n \in Nat
      /\ DOMAIN queue = 1 .. n /\ DOMAIN longer = 1 .. n + 1
      /\ longer[n + 1] = w /\ \A i \in 1 .. n : longer[i] = queue[i]
  OBVIOUS
<1> HIDE DEF longer, n
<1>2. Range(longer) = Range(queue) \cup {w}
  <2>1. 1 .. n + 1 = (1 .. n) \cup {n + 1} BY <1>1
  <2> QED BY <1>1, <2>1 DEF Range
<1>3. ASSUME IsInjective(queue), w \notin Range(queue) PROVE IsInjective(longer)
  <2>1. \A i \in 1 .. n : queue[i] # w BY <1>1, <1>3 DEF Range
  <2> QED BY <1>1, <1>3, <2>1 DEF IsInjective
<1> QED BY <1>1, <1>2, <1>3 DEF longer

----------------------------------------------------------------------------
\* The invariant holds at first and is kept by every step.

\* A vault just opened over an empty store satisfies the invariant.
LEMMA InitInv == VaultInit => VaultInv
<1> SUFFICES ASSUME VaultInit PROVE VaultInv
  OBVIOUS
<1>1. EmptyStore \in Store
  BY DEF EmptyStore, Store, Buckets
<1>2. Settled(EmptyStore)
  <2>1. LogIn(EmptyStore) = {} /\ CountIn(EmptyStore) = 0
    BY DEF EmptyStore, LogIn, CountIn, IsHeld, Buckets, Keys
  <2>2. EmptyStore.tally["log"].entries = 0
    BY DEF EmptyStore, Buckets
  <2> QED BY <2>1, <2>2, FS_EmptySet DEF Settled
<1>3. TypeInv
  BY <1>1 DEF VaultInit, TypeInv, NoCall, Stages
<1>4. IsInjective(<<>>) /\ Range(<<>>) = {}
  BY DEF IsInjective, Range
<1>5. QueueInv
  BY <1>4 DEF VaultInit, QueueInv
<1>6. TxnQueue /\ StagedInv /\ OneCallback
  BY DEF VaultInit, TxnQueue, StagedInv, OneCallback, NoCall
<1>7. StoredInv
  BY <1>2 DEF VaultInit, StoredInv
<1> QED BY <1>3, <1>5, <1>6, <1>7 DEF VaultInv

\* A writer whose call is in no place.
Nowhere(w) ==
    /\ w \notin Range(waiting)
    /\ \A g \in groups : w \notin Calls(g)
    /\ txn # None => w \notin Calls(txn.group)

\* A call that does not wait and did not run in the transaction is in no place.
LEMMA IdleIsNowhere ==
    ASSUME VaultInv, NEW w \in Writers, call[w].stage \in {"idle", "committed"}
    PROVE  Nowhere(w)
<1>1. w \notin Range(waiting) /\ \A g \in groups : w \notin Calls(g)
  BY DEF VaultInv, QueueInv
<1>2. ASSUME txn # None, w \in Calls(txn.group) PROVE FALSE
  <2>1. txn.group.calls \in Seq(Writers)
    BY <1>2 DEF VaultInv, TypeInv, Transactions, Groups
  <2>2. PICK i \in 1 .. Len(txn.group.calls) : txn.group.calls[i] = w
    BY <1>2, <2>1 DEF Calls, Range
  <2> QED BY <1>2, <2>2 DEF VaultInv, TxnQueue
<1> QED BY <1>1, <1>2 DEF Nowhere

\* The write transaction does not see what changes outside of it.
LEMMA StagedKept ==
    ASSUME StagedInv, UNCHANGED <<txn, stored>>
    PROVE  StagedInv'
<1>1. txn' = txn /\ stored' = stored
  OBVIOUS
<1>2. Running' = Running /\ RanIn(txn)' = RanIn(txn)
  BY <1>1 DEF Running, RanIn
<1>3. LogIn(stored)' = LogIn(stored) /\ LogIn(txn.staged)' = LogIn(txn.staged)
      /\ CountIn(txn.staged)' = CountIn(txn.staged)
  BY <1>1 DEF LogIn, CountIn
<1> QED BY <1>1, <1>2, <1>3 DEF StagedInv, Toggled

\* What is stored and what views read does not change by steps elsewhere.
LEMMA StoredKept ==
    ASSUME StoredInv, UNCHANGED <<stored, view>>
    PROVE  StoredInv'
BY DEF StoredInv, Settled, LogIn, CountIn

\* Vault.Update enters the engine with a call that is in no place yet.
LEMMA VaultCallInv ==
    ASSUME VaultInv, NEW w \in Writers, VaultCall(w)
    PROVE  VaultInv'
<1> DEFINE mine == [calls |-> <<w>>, solo |-> TRUE]
<1>1. call[w].stage = "idle" /\ Nowhere(w)
  BY IdleIsNowhere DEF VaultCall
<1>2. /\ call' = [call EXCEPT ![w].stage = "called"]
      /\ UNCHANGED <<engine, stored, txn, told, view>>
  BY DEF VaultCall
<1>3. /\ call'[w].stage = "called"
      /\ \A v \in Writers \ {w} : call'[v] = call[v]
      /\ call' \in [Writers -> [stage : Stages, callbacks : Nat]]
  BY <1>2 DEF VaultInv, TypeInv, Stages
<1>4. \/ groups' = groups \cup {mine} /\ waiting' = waiting
      \/ waiting' = Append(waiting, w) /\ groups' = groups
  BY DEF VaultCall
<1>5. mine \in Groups /\ Calls(mine) = {w} /\ IsInjective(mine.calls) /\ Len(mine.calls) = 1
  BY DEF Groups, Calls, Range, IsInjective
<1>6. waiting \in Seq(Writers) /\ IsInjective(waiting)
  BY DEF VaultInv, TypeInv, QueueInv
<1>7. /\ Append(waiting, w) \in Seq(Writers)
      /\ Range(Append(waiting, w)) = Range(waiting) \cup {w}
      /\ IsInjective(Append(waiting, w))
  BY <1>1, <1>6, AppendNew DEF Nowhere
<1>8. TypeInv'
  BY <1>2, <1>3, <1>4, <1>5, <1>7 DEF VaultInv, TypeInv
<1>9. QueueInv'
  <2>1. \A g \in groups : Calls(g) \subseteq Writers
    BY DEF VaultInv, TypeInv, Groups, Calls, Range
  <2>2. Range(waiting) \subseteq Writers
    BY <1>6 DEF Range
  <2>3. CASE groups' = groups \cup {mine} /\ waiting' = waiting
    <3>1. \A g \in groups :
            /\ IsInjective(g.calls) /\ (g.solo => Len(g.calls) = 1) /\ w \notin Calls(g)
            /\ \A v \in Calls(g) : call'[v].stage = "called" /\ v \notin Range(waiting)
      BY <1>1, <1>3, <2>1 DEF VaultInv, QueueInv, Nowhere
    <3>2. \A v \in Range(waiting) : call'[v].stage = "called" /\ v # w
      BY <1>1, <1>3, <2>2 DEF VaultInv, QueueInv, Nowhere
    <3> HIDE DEF mine
    <3>3. \A g, h \in groups' : g # h => Calls(g) \cap Calls(h) = {}
      BY <1>5, <2>3, <3>1 DEF VaultInv, QueueInv
    <3>4. \A g \in groups' :
            /\ IsInjective(g.calls) /\ (g.solo => Len(g.calls) = 1)
            /\ \A v \in Calls(g) : call'[v].stage = "called" /\ v \notin Range(waiting')
      BY <1>3, <1>5, <2>3, <3>1, <3>2
    <3> QED BY <1>6, <2>3, <3>2, <3>3, <3>4 DEF QueueInv
  <2>4. CASE waiting' = Append(waiting, w) /\ groups' = groups
    <3>1. \A v \in Range(waiting) : call[v].stage = "called"
      BY DEF VaultInv, QueueInv
    <3>2. \A v \in Range(waiting') : call'[v].stage = "called"
      BY <1>3, <1>7, <2>2, <2>4, <3>1
    <3>3. \A g \in groups :
            /\ IsInjective(g.calls) /\ (g.solo => Len(g.calls) = 1)
            /\ \A v \in Calls(g) : call[v].stage = "called" /\ v \notin Range(waiting) /\ v # w
      BY <1>1 DEF VaultInv, QueueInv, Nowhere
    <3>4. \A g \in groups :
            /\ IsInjective(g.calls) /\ (g.solo => Len(g.calls) = 1)
            /\ \A v \in Calls(g) : call'[v].stage = "called" /\ v \notin Range(waiting')
      BY <1>3, <1>7, <2>1, <2>4, <3>3
    <3>5. \A g, h \in groups : g # h => Calls(g) \cap Calls(h) = {}
      BY DEF VaultInv, QueueInv
    <3>6. IsInjective(waiting')
      BY <1>7, <2>4
    <3> QED BY <2>4, <3>2, <3>4, <3>5, <3>6 DEF QueueInv
  <2> QED BY <1>4, <2>3, <2>4
<1>10. TxnQueue'
  <2>1. \A v \in Writers : call'[v].stage = "ran" => call[v].stage = "ran"
    BY <1>3
  <2>2. ASSUME txn # None
        PROVE  /\ \A i \in 1 .. Len(txn.group.calls) :
                     call'[txn.group.calls[i]] = call[txn.group.calls[i]]
               /\ w \notin Calls(txn.group)
    <3>1. txn.group.calls \in Seq(Writers)
      BY <2>2 DEF VaultInv, TypeInv, Transactions, Groups
    <3>2. w \notin Calls(txn.group)
      BY <1>1, <2>2 DEF Nowhere
    <3> QED BY <1>3, <3>1, <3>2 DEF Calls, Range
  <2>3. ASSUME txn # None
        PROVE  /\ \A g \in groups' : Calls(g) \cap Calls(txn.group) = {}
               /\ Range(waiting') \cap Calls(txn.group) = {}
    <3>1. /\ \A g \in groups : Calls(g) \cap Calls(txn.group) = {}
          /\ Range(waiting) \cap Calls(txn.group) = {} /\ w \notin Calls(txn.group)
      BY <2>2, <2>3 DEF VaultInv, TxnQueue
    <3> HIDE DEF mine
    <3>2. CASE groups' = groups \cup {mine} /\ waiting' = waiting
      BY <1>5, <3>1, <3>2
    <3>3. CASE waiting' = Append(waiting, w) /\ groups' = groups
      BY <1>7, <3>1, <3>3
    <3> QED BY <1>4, <3>2, <3>3
  <2>4. txn' = txn BY <1>2
  <2>5. \A v \in Writers : call'[v].stage = "ran" => txn' # None /\ v \in RanIn(txn')
    BY <2>1, <2>4 DEF VaultInv, TxnQueue
  <2> QED BY <2>2, <2>3, <2>4, <2>5 DEF VaultInv, TxnQueue
<1>11. StagedInv' /\ StoredInv'
  BY <1>2, StagedKept, StoredKept DEF VaultInv
<1>12. OneCallback'
  BY <1>3 DEF VaultInv, OneCallback
<1> QED BY <1>8, <1>9, <1>10, <1>11, <1>12 DEF VaultInv

\* What waits, in whichever place, are calls of writers.
LEMMA GroupTypes ==
    ASSUME VaultInv
    PROVE  /\ \A g \in groups : Calls(g) \subseteq Writers
           /\ Range(waiting) \subseteq Writers
           /\ txn # None => /\ txn \in Transactions /\ txn.group \in Groups
                            /\ Calls(txn.group) \subseteq Writers
BY DEF VaultInv, TypeInv, Groups, Transactions, Calls, Range

\* The database merges the calls that wait (DB.Batch).
LEMMA TriggerBatchInv ==
    ASSUME VaultInv, TriggerBatch
    PROVE  VaultInv'
<1> DEFINE merged == [calls |-> waiting, solo |-> FALSE]
<1>1. /\ groups' = groups \cup {merged} /\ waiting' = <<>>
      /\ UNCHANGED <<engine, stored, txn, call, told, view>>
  BY DEF TriggerBatch
<1>2. merged \in Groups /\ Calls(merged) = Range(waiting) /\ ~merged.solo /\ merged.calls = waiting
  BY DEF VaultInv, TypeInv, Groups, Calls
<1> HIDE DEF merged
<1>3. Range(<<>>) = {} /\ IsInjective(<<>>) /\ <<>> \in Seq(Writers)
  BY DEF Range, IsInjective
<1>4. TypeInv'
  BY <1>1, <1>2, <1>3 DEF VaultInv, TypeInv
<1>5. QueueInv'
  <2>1. \A g \in groups' :
          /\ IsInjective(g.calls) /\ (g.solo => Len(g.calls) = 1)
          /\ \A w \in Calls(g) : call'[w].stage = "called" /\ w \notin Range(waiting')
    BY <1>1, <1>2, <1>3 DEF VaultInv, QueueInv
  <2>2. \A g, h \in groups' : g # h => Calls(g) \cap Calls(h) = {}
    BY <1>1, <1>2 DEF VaultInv, QueueInv
  <2> QED BY <1>1, <1>3, <2>1, <2>2 DEF QueueInv
<1>6. TxnQueue'
  BY <1>1, <1>2, <1>3 DEF VaultInv, TxnQueue, RanIn
<1>7. StagedInv' /\ StoredInv' /\ OneCallback'
  BY <1>1, StagedKept, StoredKept DEF VaultInv, OneCallback
<1> QED BY <1>4, <1>5, <1>6, <1>7 DEF VaultInv

\* A pebble writer whose context is done leaves without its closure being called.
LEMMA ContextDoneInv ==
    ASSUME VaultInv, NEW w \in Writers, ContextDone(w)
    PROVE  VaultInv'
<1> DEFINE mine == [calls |-> <<w>>, solo |-> TRUE]
<1>1. /\ mine \in groups /\ txn = None /\ groups' = groups \ {mine}
      /\ call' = [call EXCEPT ![w] = NoCall]
      /\ UNCHANGED <<engine, stored, waiting, txn, told, view>>
  BY DEF ContextDone
<1>2. w \in Calls(mine)
  BY DEF Calls, Range
<1> HIDE DEF mine
<1>3. /\ call'[w] = NoCall /\ \A v \in Writers \ {w} : call'[v] = call[v]
      /\ call' \in [Writers -> [stage : Stages, callbacks : Nat]]
  BY <1>1 DEF VaultInv, TypeInv, Stages, NoCall
<1>4. TypeInv'
  BY <1>1, <1>3 DEF VaultInv, TypeInv
<1>5. QueueInv'
  <2>1. w \notin Range(waiting) /\ \A g \in groups' : w \notin Calls(g)
    BY <1>1, <1>2 DEF VaultInv, QueueInv
  <2>2. \A g \in groups' :
          /\ IsInjective(g.calls) /\ (g.solo => Len(g.calls) = 1)
          /\ \A v \in Calls(g) : call'[v].stage = "called" /\ v \notin Range(waiting')
    BY <1>1, <1>3, <2>1, GroupTypes DEF VaultInv, QueueInv
  <2> QED BY <1>1, <1>3, <2>1, <2>2, GroupTypes DEF VaultInv, QueueInv
<1>6. TxnQueue'
  BY <1>1, <1>3 DEF VaultInv, TxnQueue, NoCall
<1>7. StagedInv' /\ StoredInv'
  BY <1>1, StagedKept, StoredKept DEF VaultInv
<1>8. OneCallback'
  BY <1>3 DEF VaultInv, OneCallback, NoCall
<1> QED BY <1>4, <1>5, <1>6, <1>7, <1>8 DEF VaultInv

\* A group gets the write lock: what it stages is what is stored.
LEMMA BeginWriteInv ==
    ASSUME VaultInv, NEW g \in groups, BeginWrite(g)
    PROVE  VaultInv'
<1>1. /\ txn = None /\ groups' = groups \ {g}
      /\ txn' = [group |-> g, at |-> 1, step |-> "read", seen |-> 0, staged |-> stored]
      /\ UNCHANGED <<engine, stored, waiting, call, told, view>>
  BY DEF BeginWrite
<1>2. /\ g \in Groups /\ g.calls \in Seq(Writers) /\ Len(g.calls) \in Nat
      /\ \A i \in 1 .. Len(g.calls) : g.calls[i] \in Calls(g)
  BY DEF VaultInv, TypeInv, Groups, Calls, Range
<1>3. txn' \in Transactions /\ txn' # None
  BY <1>1, <1>2, VaultAssumption DEF VaultInv, TypeInv, Transactions, ClosureSteps
<1>4. TypeInv'
  BY <1>1, <1>3 DEF VaultInv, TypeInv
<1>5. QueueInv'
  BY <1>1 DEF VaultInv, QueueInv
<1>6. RanIn(txn') = {}
  BY <1>1 DEF RanIn
<1>7. TxnQueue'
  <2>1. \A w \in Writers : call'[w].stage # "ran"
    BY <1>1 DEF VaultInv, TxnQueue
  <2>2. IsInjective(g.calls) /\ (g.solo => Len(g.calls) = 1)
    BY DEF VaultInv, QueueInv
  <2>3. \A i \in 1 .. Len(g.calls) : call'[g.calls[i]].stage = IF i < 1 THEN "ran" ELSE "called"
    BY <1>1, <1>2 DEF VaultInv, QueueInv
  <2>4. /\ \A h \in groups' : Calls(h) \cap Calls(g) = {}
        /\ Range(waiting') \cap Calls(g) = {}
    BY <1>1 DEF VaultInv, QueueInv
  <2> QED BY <1>1, <1>2, <2>1, <2>2, <2>3, <2>4 DEF TxnQueue
<1>8. StagedInv'
  <2>1. Toggled(LogIn(stored), {}) = LogIn(stored)
    BY DEF Toggled
  <2>2. /\ txn'.step = "read" /\ txn'.staged = stored /\ stored' = stored
        /\ LogIn(stored)' = LogIn(stored) /\ RanIn(txn)' = {}
        /\ LogIn(txn.staged)' = LogIn(stored) /\ CountIn(txn.staged)' = CountIn(stored)
    BY <1>1, <1>6 DEF LogIn, CountIn
  <2>3. Settled(stored) /\ CountIn(stored) \in Int
    BY StoreReads DEF VaultInv, StoredInv, TypeInv
  <2>4. LogIn(txn'.staged) = LogIn(stored) /\ CountIn(txn'.staged) = CountIn(stored)
    BY <2>2
  <2> QED BY <2>1, <2>2, <2>3, <2>4, <1>6, StoreReads DEF StagedInv, Settled, VaultInv, TypeInv
<1>9. StoredInv' /\ OneCallback'
  BY <1>1, StoredKept DEF VaultInv, OneCallback
<1> QED BY <1>4, <1>5, <1>7, <1>8, <1>9 DEF VaultInv

\* The closure that runs is of a call of the transaction that did not run before.
LEMMA RunningCall ==
    ASSUME VaultInv, txn # None, txn.at <= Len(txn.group.calls)
    PROVE  /\ txn \in Transactions /\ txn.staged \in Store
           /\ txn.at \in 1 .. Len(txn.group.calls) /\ Len(txn.group.calls) \in Nat
           /\ Running \in Writers /\ Running \in Calls(txn.group)
           /\ Running \notin RanIn(txn) /\ call[Running].stage = "called"
<1>1. /\ txn \in Transactions /\ txn.staged \in Store
      /\ txn.group.calls \in Seq(Writers) /\ Len(txn.group.calls) \in Nat
  BY DEF VaultInv, TypeInv, Transactions, Groups
<1>2. txn.at \in 1 .. Len(txn.group.calls)
  BY <1>1 DEF VaultInv, TxnQueue
<1>3. Running \in Writers /\ Running \in Calls(txn.group)
  BY <1>1, <1>2 DEF Running, Calls, Range
<1>4. call[Running].stage = "called"
  BY <1>1, <1>2 DEF VaultInv, TxnQueue, Running
<1>5. Running \notin RanIn(txn)
  <2>1. \A i \in 1 .. txn.at - 1 : call[txn.group.calls[i]].stage = "ran"
    BY <1>1, <1>2 DEF VaultInv, TxnQueue
  <2> QED BY <1>4, <2>1 DEF RanIn
<1> QED BY <1>1, <1>2, <1>3, <1>4, <1>5

\* A piece of a closure changes what is staged and how far the closure is.
LEMMA ClosurePiece ==
    ASSUME VaultInv, txn # None, txn' \in Transactions,
           txn'.group = txn.group, txn'.at = txn.at,
           UNCHANGED <<engine, stored, waiting, groups, call, told, view>>
    PROVE  TypeInv' /\ QueueInv' /\ TxnQueue' /\ StoredInv' /\ OneCallback'
           /\ RanIn(txn') = RanIn(txn) /\ Running' = Running /\ txn' # None
<1>1. txn' # None
  BY VaultAssumption
<1>2. TypeInv' /\ OneCallback'
  BY DEF VaultInv, TypeInv, OneCallback
<1>3. QueueInv' /\ StoredInv'
  BY StoredKept DEF VaultInv, QueueInv
<1>4. RanIn(txn') = RanIn(txn) /\ Running' = Running
  BY DEF RanIn, Running
<1>5. TxnQueue'
  BY <1>1, <1>4 DEF VaultInv, TxnQueue
<1> QED BY <1>1, <1>2, <1>3, <1>4, <1>5

\* A closure reads the count that is staged (Collection.Get).
LEMMA ReadCountInv ==
    ASSUME VaultInv, ReadCount
    PROVE  VaultInv'
<1>1. /\ txn # None /\ txn.at <= Len(txn.group.calls) /\ txn.step = "read"
      /\ txn' = [txn EXCEPT !.seen = CountIn(txn.staged), !.step = "count"]
      /\ UNCHANGED <<engine, stored, waiting, groups, call, told, view>>
  BY DEF ReadCount, InClosure
<1>2. txn \in Transactions /\ CountIn(txn.staged) \in Int
  BY <1>1, RunningCall, StoreReads
<1>3. /\ txn' \in Transactions /\ txn'.group = txn.group /\ txn'.at = txn.at
      /\ txn'.staged = txn.staged /\ txn'.step = "count" /\ txn'.seen = CountIn(txn.staged)
  BY <1>1, <1>2 DEF Transactions, ClosureSteps
<1>4. /\ TypeInv' /\ QueueInv' /\ TxnQueue' /\ StoredInv' /\ OneCallback'
      /\ RanIn(txn') = RanIn(txn) /\ Running' = Running /\ txn' # None
  BY <1>1, <1>3, ClosurePiece
<1>5. StagedInv'
  <2>1. LogIn(txn'.staged) = LogIn(txn.staged) /\ CountIn(txn'.staged) = CountIn(txn.staged)
    BY <1>3
  <2>2. LogIn(stored)' = LogIn(stored)
    BY <1>1 DEF LogIn
  <2>3. CountIn(txn.staged) = Cardinality(LogIn(txn.staged)) + 0
    BY <1>1 DEF VaultInv, StagedInv
  <2> QED BY <1>1, <1>3, <1>4, <2>1, <2>2, <2>3 DEF VaultInv, StagedInv
<1> QED BY <1>4, <1>5 DEF VaultInv

\* A closure puts the count of the log its entry will make (Collection.Put).
LEMMA PutCountInv ==
    ASSUME VaultInv, PutCount
    PROVE  VaultInv'
<1> DEFINE log == LogIn(txn.staged)
           change == IF Running \in log THEN -1 ELSE 1
           after == Put(txn.staged, "count", Total, txn.seen + change)
<1>1. /\ txn # None /\ txn.at <= Len(txn.group.calls) /\ txn.step = "count"
      /\ txn' = [txn EXCEPT !.staged = after, !.step = "note"]
      /\ UNCHANGED <<engine, stored, waiting, groups, call, told, view>>
  BY DEF PutCount, InClosure
<1>2. txn \in Transactions /\ txn.staged \in Store /\ txn.seen \in Int
  BY <1>1, RunningCall DEF Transactions
<1>3. /\ after \in Store /\ LogIn(after) = log /\ CountIn(after) = txn.seen + change
      /\ after.tally["log"] = txn.staged.tally["log"]
  <2>1. txn.seen + change \in Int BY <1>2
  <2> HIDE DEF change
  <2> QED BY <1>2, <2>1, PutTheCount
<1>4. txn.seen = Cardinality(log) + 0 /\ Cardinality(log) \in Nat
  BY <1>1, <1>2, StoreReads DEF VaultInv, StagedInv
<1> HIDE DEF after
<1>5. /\ txn' \in Transactions /\ txn'.group = txn.group /\ txn'.at = txn.at
      /\ txn'.staged = after /\ txn'.step = "note"
  BY <1>1, <1>2, <1>3 DEF Transactions, ClosureSteps
<1>6. /\ TypeInv' /\ QueueInv' /\ TxnQueue' /\ StoredInv' /\ OneCallback'
      /\ RanIn(txn') = RanIn(txn) /\ Running' = Running /\ txn' # None
  BY <1>1, <1>5, ClosurePiece
<1>7. StagedInv'
  <2>1. LogIn(txn'.staged) = log /\ CountIn(txn'.staged) = Cardinality(log) + change
    BY <1>3, <1>4, <1>5
  <2>2. LogIn(stored)' = LogIn(stored)
    BY <1>1 DEF LogIn
  <2>3. txn'.staged.tally["log"].entries = Cardinality(log)
    BY <1>1, <1>3, <1>5 DEF VaultInv, StagedInv
  <2> QED BY <1>1, <1>5, <1>6, <2>1, <2>2, <2>3 DEF VaultInv, StagedInv
<1> QED BY <1>6, <1>7 DEF VaultInv

\* A closure adds its entry or takes it out, and the count it put agrees.
LEMMA PutEntryInv ==
    ASSUME VaultInv, PutEntry
    PROVE  VaultInv'
<1> DEFINE log == LogIn(txn.staged)
           after == IF Running \in log THEN Delete(txn.staged, "log", Running)
                    ELSE Put(txn.staged, "log", Running, InLog)
<1>1. /\ txn # None /\ txn.at <= Len(txn.group.calls) /\ txn.step = "note"
      /\ UNCHANGED <<engine, stored, waiting, groups, call, told, view>>
  BY DEF PutEntry, InClosure
<1>2. /\ txn \in Transactions /\ txn.staged \in Store
      /\ Running \in Writers /\ Running \notin RanIn(txn)
  BY <1>1, RunningCall
<1>3. txn' = [txn EXCEPT !.staged = after, !.step = "return"]
  BY <1>2 DEF PutEntry, Transactions
<1>4. txn.staged.tally["log"].entries = Cardinality(log)
  BY <1>1 DEF VaultInv, StagedInv
<1>5. /\ after \in Store
      /\ LogIn(after) = Toggled(log, {Running}) /\ CountIn(after) = CountIn(txn.staged)
      /\ after.tally["log"].entries = Cardinality(LogIn(after))
      /\ Cardinality(LogIn(after)) = Cardinality(log) + IF Running \in log THEN -1 ELSE 1
  BY <1>2, <1>4, ChangeTheLog
<1> HIDE DEF after
<1>6. /\ txn' \in Transactions /\ txn'.group = txn.group /\ txn'.at = txn.at
      /\ txn'.staged = after /\ txn'.step = "return"
  BY <1>2, <1>3, <1>5 DEF Transactions, ClosureSteps
<1>7. /\ TypeInv' /\ QueueInv' /\ TxnQueue' /\ StoredInv' /\ OneCallback'
      /\ RanIn(txn') = RanIn(txn) /\ Running' = Running /\ txn' # None
  BY <1>1, <1>6, ClosurePiece
<1>8. StagedInv'
  <2>1. log = Toggled(LogIn(stored), RanIn(txn)) /\ CountIn(after) = Cardinality(LogIn(after))
    <3>1. log = Toggled(LogIn(stored), RanIn(txn) \cup {})
      BY <1>1 DEF VaultInv, StagedInv
    <3>2. CountIn(txn.staged) = Cardinality(log) + IF Running \in log THEN -1 ELSE 1
      BY <1>1 DEF VaultInv, StagedInv
    <3> QED BY <1>5, <3>1, <3>2
  <2>2. LogIn(after) = Toggled(LogIn(stored), RanIn(txn) \cup {Running})
    BY <1>2, <1>5, <2>1 DEF Toggled
  <2>3. LogIn(stored)' = LogIn(stored)
    BY <1>1 DEF LogIn
  <2>4. Cardinality(LogIn(after)) \in Nat
    BY <1>5, StoreReads
  <2> QED BY <1>1, <1>5, <1>6, <1>7, <2>1, <2>2, <2>3, <2>4 DEF StagedInv
<1> QED BY <1>7, <1>8 DEF VaultInv

\* A closure that returned counts among those that ran, with the callbacks of this
\* run of it.
LEMMA ClosureReturnsInv ==
    ASSUME VaultInv, ClosureReturns
    PROVE  VaultInv'
<1>1. /\ txn # None /\ txn.at <= Len(txn.group.calls) /\ txn.step = "return"
      /\ call' = [call EXCEPT ![Running] = [stage |-> "ran", callbacks |-> 1]]
      /\ txn' = [txn EXCEPT !.at = @ + 1, !.step = "read"]
      /\ UNCHANGED <<engine, stored, waiting, groups, told, view>>
  BY DEF ClosureReturns, InClosure, LeftCallbacks
<1>2. /\ txn \in Transactions /\ txn.staged \in Store
      /\ txn.at \in 1 .. Len(txn.group.calls) /\ Len(txn.group.calls) \in Nat
      /\ Running \in Writers /\ Running \in Calls(txn.group)
  BY <1>1, RunningCall
<1>3. /\ call'[Running] = [stage |-> "ran", callbacks |-> 1]
      /\ \A v \in Writers \ {Running} : call'[v] = call[v]
      /\ call' \in [Writers -> [stage : Stages, callbacks : Nat]]
  BY <1>1, <1>2 DEF VaultInv, TypeInv, Stages
<1>4. /\ txn' \in Transactions /\ txn'.group = txn.group /\ txn'.at = txn.at + 1
      /\ txn'.staged = txn.staged /\ txn'.step = "read"
  <2>1. txn.at + 1 \in Nat BY <1>2
  <2>2. "read" \in ClosureSteps BY DEF ClosureSteps
  <2>3. txn = [txn EXCEPT !.at = txn.at] /\ txn.at \in Nat BY <1>2 DEF Transactions
  <2> QED BY <1>1, <1>2, <2>1, <2>2, <2>3 DEF Transactions
<1>5. txn' # None
  BY <1>4, VaultAssumption
<1>6. RanIn(txn') = RanIn(txn) \cup {Running}
  <2>1. 1 .. txn.at = (1 .. txn.at - 1) \cup {txn.at} BY <1>2
  <2>2. txn'.at - 1 = txn.at BY <1>2, <1>4
  <2> QED BY <1>4, <2>1, <2>2 DEF RanIn, Running
<1>7. TypeInv'
  BY <1>1, <1>3, <1>4 DEF VaultInv, TypeInv
<1>8. QueueInv'
  <2>1. Running \notin Range(waiting) /\ \A g \in groups : Running \notin Calls(g)
    BY <1>1, <1>2 DEF VaultInv, TxnQueue
  <2>2. \A g \in groups :
          /\ IsInjective(g.calls) /\ (g.solo => Len(g.calls) = 1)
          /\ \A v \in Calls(g) : call'[v].stage = "called" /\ v \notin Range(waiting)
    BY <1>3, <2>1, GroupTypes DEF VaultInv, QueueInv
  <2>3. \A v \in Range(waiting) : call'[v].stage = "called"
    BY <1>3, <2>1, GroupTypes DEF VaultInv, QueueInv
  <2> QED BY <1>1, <2>2, <2>3 DEF VaultInv, QueueInv
<1>9. TxnQueue'
  <2>1. \A v \in Writers : call'[v].stage = "ran" => v \in RanIn(txn')
    BY <1>1, <1>3, <1>6 DEF VaultInv, TxnQueue
  <2>2. ASSUME NEW i \in 1 .. Len(txn.group.calls)
        PROVE  call'[txn.group.calls[i]].stage = IF i < txn'.at THEN "ran" ELSE "called"
    <3>1. txn.group.calls \in Seq(Writers) /\ txn.group.calls[i] \in Writers
      BY <1>2, <2>2 DEF Transactions, Groups
    <3>2. CASE i = txn.at
      BY <1>2, <1>3, <1>4, <3>2 DEF Running
    <3>3. CASE i # txn.at
      <4>1. txn.group.calls[i] # Running
        BY <1>1, <1>2, <2>2, <3>1, <3>3 DEF VaultInv, TxnQueue, IsInjective, Running
      <4>2. (i < txn'.at) <=> (i < txn.at)
        BY <1>2, <1>4, <2>2, <3>3
      <4> QED BY <1>1, <1>3, <2>2, <3>1, <4>1, <4>2 DEF VaultInv, TxnQueue
    <3> QED BY <3>2, <3>3
  <2>3. txn'.at \in 1 .. Len(txn.group.calls) + 1
    BY <1>2, <1>4
  <2> QED BY <1>1, <1>4, <1>5, <2>1, <2>2, <2>3 DEF VaultInv, TxnQueue
<1>10. StagedInv'
  <2>1. /\ LogIn(txn'.staged) = LogIn(txn.staged) /\ CountIn(txn'.staged) = CountIn(txn.staged)
        /\ LogIn(stored)' = LogIn(stored)
    BY <1>1, <1>4 DEF LogIn
  <2>2. LogIn(txn.staged) = Toggled(LogIn(stored), RanIn(txn') \cup {})
    BY <1>1, <1>6 DEF VaultInv, StagedInv
  <2> QED BY <1>1, <1>4, <2>1, <2>2 DEF VaultInv, StagedInv
<1>11. StoredInv' /\ OneCallback'
  BY <1>1, <1>3, StoredKept DEF VaultInv, OneCallback
<1> QED BY <1>7, <1>8, <1>9, <1>10, <1>11 DEF VaultInv

\* A merged transaction starts over: no call is lost or kept twice, whichever fails.
LEMMA Regrouped ==
    ASSUME NEW group \in Seq(Writers), IsInjective(group), NEW at \in 1 .. Len(group)
    PROVE  LET rest == [i \in 1 .. Len(group) - 1 |->
                           IF i = at THEN group[Len(group)] ELSE group[i]]
           IN  /\ rest \in Seq(Writers) /\ IsInjective(rest)
               /\ Range(rest) = Range(group) \ {group[at]}
<1> DEFINE n == Len(group)
           rest == [i \in 1 .. n - 1 |-> IF i = at THEN group[n] ELSE group[i]]
<1>1. /\ n \in Nat \ {0} /\ DOMAIN group = 1 .. n /\ at \in 1 .. n
      /\ \A i \in 1 .. n : group[i] \in Writers
  OBVIOUS
<1>2. n - 1 \in Nat /\ DOMAIN rest = 1 .. n - 1
  BY <1>1
<1>3. \A i \in 1 .. n - 1 : rest[i] = IF i = at THEN group[n] ELSE group[i]
  OBVIOUS
<1>4. rest \in Seq(Writers)
  <2>1. rest \in [1 .. n - 1 -> Writers] BY <1>1
  <2> HIDE DEF rest
  <2> QED BY <1>2, <2>1
<1> HIDE DEF rest, n
<1>5. \A i, j \in 1 .. n : group[i] = group[j] => i = j
  BY <1>1 DEF IsInjective
<1>6. IsInjective(rest)
  BY <1>1, <1>2, <1>3, <1>5 DEF IsInjective
<1>7. Range(rest) \subseteq Range(group) \ {group[at]}
  <2>1. ASSUME NEW i \in 1 .. n - 1 PROVE rest[i] \in Range(group) \ {group[at]}
    BY <1>1, <1>3, <1>5 DEF Range, n
  <2> QED BY <1>2, <2>1 DEF Range
<1>8. Range(group) \ {group[at]} \subseteq Range(rest)
  <2> SUFFICES ASSUME NEW i \in 1 .. n, i # at PROVE group[i] \in Range(rest)
    BY <1>1 DEF Range
  <2>1. CASE i = n
    <3>1. at \in 1 .. n - 1 BY <1>1, <2>1
    <3> QED BY <1>2, <1>3, <2>1, <3>1 DEF Range
  <2>2. CASE i # n
    <3>1. i \in 1 .. n - 1 BY <1>1, <2>2
    <3> QED BY <1>2, <1>3, <3>1 DEF Range
  <2> QED BY <2>1, <2>2
<1> QED BY <1>4, <1>6, <1>7, <1>8 DEF rest, n

\* A writer that ran is of the transaction.
LEMMA RanIsOfTheGroup ==
    ASSUME VaultInv, NEW w \in Writers, call[w].stage = "ran"
    PROVE  txn # None /\ w \in RanIn(txn) /\ w \in Calls(txn.group)
<1>1. txn # None /\ w \in RanIn(txn)
  BY DEF VaultInv, TxnQueue
<1>2. /\ txn.group.calls \in Seq(Writers) /\ Len(txn.group.calls) \in Nat
      /\ txn.at \in 1 .. Len(txn.group.calls) + 1
  BY <1>1 DEF VaultInv, TypeInv, Transactions, Groups, TxnQueue
<1>3. 1 .. txn.at - 1 \subseteq 1 .. Len(txn.group.calls)
  BY <1>2
<1> QED BY <1>1, <1>2, <1>3 DEF RanIn, Calls, Range

\* Without a transaction there is nothing to say of one.
LEMMA NoTransaction ==
    ASSUME txn' = None, \A w \in Writers : call'[w].stage # "ran"
    PROVE  TxnQueue' /\ StagedInv'
BY DEF TxnQueue, StagedInv

\* A closure that fails alone ends its call.
LEMMA SoloFailsInv ==
    ASSUME VaultInv, ClosureFails, txn.group.solo
    PROVE  VaultInv'
<1>1. /\ txn # None /\ txn.at <= Len(txn.group.calls) /\ txn' = None
      /\ call' = [call EXCEPT ![Running] = NoCall]
      /\ UNCHANGED <<engine, stored, waiting, groups, told, view>>
  BY DEF ClosureFails, InClosure
<1>2. /\ txn.at \in 1 .. Len(txn.group.calls) /\ Len(txn.group.calls) = 1
      /\ Running \in Writers /\ Running \in Calls(txn.group)
  BY <1>1, RunningCall DEF VaultInv, TxnQueue
<1>3. /\ call'[Running] = NoCall /\ \A v \in Writers \ {Running} : call'[v] = call[v]
      /\ call' \in [Writers -> [stage : Stages, callbacks : Nat]]
  BY <1>1, <1>2 DEF VaultInv, TypeInv, Stages, NoCall
<1>4. TypeInv'
  BY <1>1, <1>3 DEF VaultInv, TypeInv
<1>5. QueueInv'
  <2>1. Running \notin Range(waiting) /\ \A g \in groups : Running \notin Calls(g)
    BY <1>1, <1>2 DEF VaultInv, TxnQueue
  <2>2. \A g \in groups :
          /\ IsInjective(g.calls) /\ (g.solo => Len(g.calls) = 1)
          /\ \A v \in Calls(g) : call'[v].stage = "called" /\ v \notin Range(waiting)
    BY <1>3, <2>1, GroupTypes DEF VaultInv, QueueInv
  <2>3. \A v \in Range(waiting) : call'[v].stage = "called"
    BY <1>3, <2>1, GroupTypes DEF VaultInv, QueueInv
  <2> QED BY <1>1, <2>2, <2>3 DEF VaultInv, QueueInv
<1>6. \A v \in Writers : call'[v].stage # "ran"
  <2>1. RanIn(txn) = {}
    BY <1>2 DEF RanIn
  <2> QED BY <1>3, <2>1, RanIsOfTheGroup DEF NoCall
<1>7. TxnQueue' /\ StagedInv'
  BY <1>1, <1>6, NoTransaction
<1>8. StoredInv' /\ OneCallback'
  BY <1>1, <1>3, StoredKept DEF VaultInv, OneCallback, NoCall
<1> QED BY <1>4, <1>5, <1>7, <1>8 DEF VaultInv

\* A closure that fails in a merged transaction waits by itself, the others together.
LEMMA MergedFailsInv ==
    ASSUME VaultInv, ClosureFails, ~txn.group.solo
    PROVE  VaultInv'
<1> DEFINE group == txn.group.calls
           rest == [i \in 1 .. Len(group) - 1 |->
                       IF i = txn.at THEN group[Len(group)] ELSE group[i]]
           alone == [calls |-> <<Running>>, solo |-> TRUE]
           others == [calls |-> rest, solo |-> FALSE]
<1>1. /\ txn # None /\ txn.at <= Len(group) /\ txn' = None
      /\ groups' = groups \cup {alone} \cup {g \in {others} : rest # <<>>}
      /\ UNCHANGED <<engine, stored, waiting, told, view>>
  BY DEF ClosureFails, InClosure
<1>2. call' = [w \in Writers |->
                 IF w = Running
                 THEN [stage |-> "called",
                       callbacks |-> IF txn.step = "return" THEN LeftCallbacks(w) ELSE 0]
                 ELSE IF w \in Range(rest) THEN [call[w] EXCEPT !.stage = "called"] ELSE call[w]]
  BY DEF ClosureFails
<1>3. /\ txn.at \in 1 .. Len(group) /\ Running \in Writers /\ Running \in Calls(txn.group)
      /\ group \in Seq(Writers) /\ IsInjective(group)
  BY <1>1, RunningCall DEF VaultInv, TxnQueue, Transactions, Groups
<1>4. /\ rest \in Seq(Writers) /\ IsInjective(rest)
      /\ Range(rest) = Calls(txn.group) \ {Running}
  BY <1>3, Regrouped DEF Calls, Running
<1> HIDE DEF rest
<1>5. /\ alone \in Groups /\ alone.solo /\ Calls(alone) = {Running}
      /\ IsInjective(alone.calls) /\ Len(alone.calls) = 1
      /\ others \in Groups /\ ~others.solo /\ Calls(others) = Range(rest)
      /\ IsInjective(others.calls)
  BY <1>3, <1>4 DEF Groups, Calls, Range, IsInjective
<1> HIDE DEF alone, others
<1>6. call' \in [Writers -> [stage : Stages, callbacks : Nat]]
  <2> SUFFICES ASSUME NEW w \in Writers
               PROVE  call'[w] \in [stage : Stages, callbacks : Nat]
    BY <1>2
  <2>1. call[w] \in [stage : Stages, callbacks : Nat] /\ "called" \in Stages
    BY DEF VaultInv, TypeInv, Stages
  <2>2. LeftCallbacks(w) \in Nat BY DEF LeftCallbacks
  <2> QED BY <1>2, <2>1, <2>2
<1>7. /\ \A v \in Calls(txn.group) : call'[v].stage = "called"
      /\ \A v \in Writers \ Calls(txn.group) : call'[v] = call[v]
  <2>1. \A v \in Writers : call[v] \in [stage : Stages, callbacks : Nat]
    BY DEF VaultInv, TypeInv
  <2> QED BY <1>1, <1>2, <1>3, <1>4, <2>1, GroupTypes
<1>8. TypeInv'
  BY <1>1, <1>5, <1>6 DEF VaultInv, TypeInv
<1>9. QueueInv'
  <2>1. /\ \A g \in groups : Calls(g) \cap Calls(txn.group) = {}
        /\ Range(waiting) \cap Calls(txn.group) = {}
    BY <1>1 DEF VaultInv, TxnQueue
  <2>2. \A g \in groups :
          /\ IsInjective(g.calls) /\ (g.solo => Len(g.calls) = 1)
          /\ \A v \in Calls(g) : call'[v].stage = "called" /\ v \notin Range(waiting)
    BY <1>7, <2>1, GroupTypes DEF VaultInv, QueueInv
  <2>3. \A g \in {alone, others} :
          /\ IsInjective(g.calls) /\ (g.solo => Len(g.calls) = 1)
          /\ Calls(g) \subseteq Calls(txn.group)
    BY <1>3, <1>4, <1>5
  <2>4. \A g \in groups' :
          /\ IsInjective(g.calls) /\ (g.solo => Len(g.calls) = 1)
          /\ \A v \in Calls(g) : call'[v].stage = "called" /\ v \notin Range(waiting')
    BY <1>1, <1>7, <2>1, <2>2, <2>3
  <2>5. \A v \in Range(waiting') : call'[v].stage = "called"
    BY <1>1, <1>7, <2>1, GroupTypes DEF VaultInv, QueueInv
  <2>6. \A g, h \in groups' : g # h => Calls(g) \cap Calls(h) = {}
    <3>1. \A g, h \in groups : g # h => Calls(g) \cap Calls(h) = {}
      BY DEF VaultInv, QueueInv
    <3>2. Calls(alone) \cap Calls(others) = {}
      BY <1>4, <1>5
    <3> QED BY <1>1, <2>1, <2>3, <3>1, <3>2
  <2>7. IsInjective(waiting')
    BY <1>1 DEF VaultInv, QueueInv
  <2> QED BY <2>4, <2>5, <2>6, <2>7 DEF QueueInv
<1>10. \A v \in Writers : call'[v].stage # "ran"
  BY <1>7, RanIsOfTheGroup
<1>11. TxnQueue' /\ StagedInv'
  BY <1>1, <1>10, NoTransaction
<1>12. StoredInv' /\ OneCallback'
  <2>1. \A v \in Writers : call'[v].stage = "committed" => call'[v] = call[v]
    BY <1>7
  <2> QED BY <1>1, <1>10, <2>1, StoredKept DEF VaultInv, OneCallback
<1> QED BY <1>8, <1>9, <1>11, <1>12 DEF VaultInv

\* When all closures ran, those that ran are the calls of the transaction, and what
\* is staged has each of their entries toggled, counted once.
LEMMA WhenAllRan ==
    ASSUME VaultInv, AllRan
    PROVE  /\ txn # None /\ txn.staged \in Store /\ Settled(txn.staged)
           /\ {w \in Writers : call[w].stage = "ran"} = Calls(txn.group)
           /\ LogIn(txn.staged) = Toggled(LogIn(stored), Calls(txn.group))
<1>1. /\ txn # None /\ txn.at > Len(txn.group.calls) /\ txn \in Transactions
  BY DEF AllRan, VaultInv, TypeInv
<1>2. /\ txn.staged \in Store /\ txn.group.calls \in Seq(Writers)
      /\ Len(txn.group.calls) \in Nat
  BY <1>1 DEF Transactions, Groups
<1>3. txn.at = Len(txn.group.calls) + 1
  BY <1>1, <1>2 DEF VaultInv, TxnQueue
<1>4. RanIn(txn) = Calls(txn.group)
  BY <1>2, <1>3 DEF RanIn, Calls, Range
<1>5. txn.step = "read"
  BY <1>1, <1>2, <1>3 DEF VaultInv, StagedInv
<1>6. \A w \in Calls(txn.group) : w \in Writers /\ call[w].stage = "ran"
  <2>1. \A i \in 1 .. Len(txn.group.calls) : call[txn.group.calls[i]].stage = "ran"
    BY <1>1, <1>2, <1>3 DEF VaultInv, TxnQueue
  <2> QED BY <1>1, <1>2, <2>1, GroupTypes DEF Calls, Range
<1>7. {w \in Writers : call[w].stage = "ran"} = Calls(txn.group)
  BY <1>6, RanIsOfTheGroup
<1>8. LogIn(txn.staged) = Toggled(LogIn(stored), Calls(txn.group))
  <2>1. LogIn(txn.staged) = Toggled(LogIn(stored), RanIn(txn) \cup {})
    BY <1>1, <1>5 DEF VaultInv, StagedInv
  <2> QED BY <1>4, <2>1
<1>9. Settled(txn.staged)
  <2>1. /\ CountIn(txn.staged) = Cardinality(LogIn(txn.staged)) + 0
        /\ txn.staged.tally["log"].entries = Cardinality(LogIn(txn.staged))
    BY <1>1, <1>5 DEF VaultInv, StagedInv
  <2> QED BY <1>2, <2>1, StoreReads DEF Settled
<1> QED BY <1>1, <1>2, <1>7, <1>8, <1>9

\* The calls of a transaction that ends wait nowhere else.
LEMMA TransactionEnds ==
    ASSUME VaultInv, AllRan, txn' = None, UNCHANGED <<groups, waiting>>,
           \A w \in Writers : call[w].stage # "ran" => call'[w] = call[w],
           \A w \in Writers : call'[w].stage # "ran"
    PROVE  QueueInv' /\ TxnQueue' /\ StagedInv'
<1>1. \A g \in groups : \A v \in Calls(g) : call'[v] = call[v]
  BY GroupTypes DEF VaultInv, QueueInv
<1>2. \A v \in Range(waiting) : call'[v] = call[v]
  BY GroupTypes DEF VaultInv, QueueInv
<1>3. QueueInv'
  BY <1>1, <1>2 DEF VaultInv, QueueInv
<1> QED BY <1>3, NoTransaction

\* What a commit stores agrees with itself (staged.Commit).
LEMMA CommitInv ==
    ASSUME VaultInv, Commit
    PROVE  VaultInv'
<1>1. /\ AllRan /\ stored' = txn.staged /\ txn' = None
      /\ call' = [w \in Writers |-> IF call[w].stage = "ran"
                                    THEN [call[w] EXCEPT !.stage = "committed"] ELSE call[w]]
      /\ UNCHANGED <<engine, waiting, groups, told, view>>
  BY DEF Commit
<1>2. \A w \in Writers :
        /\ call[w] \in [stage : Stages, callbacks : Nat]
        /\ call'[w] = IF call[w].stage = "ran"
                      THEN [call[w] EXCEPT !.stage = "committed"] ELSE call[w]
        /\ call'[w].stage # "ran" /\ call'[w].callbacks = call[w].callbacks
        /\ call'[w] \in [stage : Stages, callbacks : Nat]
  BY <1>1 DEF VaultInv, TypeInv, Stages
<1>3. txn.staged \in Store /\ Settled(txn.staged)
  BY <1>1, WhenAllRan
<1>4. TypeInv'
  <2>1. call' \in [Writers -> [stage : Stages, callbacks : Nat]] BY <1>1, <1>2
  <2> QED BY <1>1, <1>3, <2>1 DEF VaultInv, TypeInv
<1>5. QueueInv' /\ TxnQueue' /\ StagedInv'
  BY <1>1, <1>2, TransactionEnds
<1>6. StoredInv'
  BY <1>1, <1>3 DEF VaultInv, StoredInv, Settled, LogIn, CountIn
<1>7. OneCallback'
  BY <1>1, <1>2 DEF VaultInv, OneCallback
<1> QED BY <1>4, <1>5, <1>6, <1>7 DEF VaultInv

\* A refused commit leaves what is stored (commitFailureOf).
LEMMA CommitRefusedInv ==
    ASSUME VaultInv, CommitRefused
    PROVE  VaultInv'
<1>1. /\ AllRan /\ txn' = None
      /\ call' = [w \in Writers |-> IF call[w].stage = "ran" THEN NoCall ELSE call[w]]
      /\ UNCHANGED <<engine, stored, waiting, groups, told, view>>
  BY DEF CommitRefused
<1>2. \A w \in Writers :
        /\ call'[w] = IF call[w].stage = "ran" THEN NoCall ELSE call[w]
        /\ call'[w].stage # "ran" /\ call'[w] \in [stage : Stages, callbacks : Nat]
  BY <1>1 DEF VaultInv, TypeInv, Stages, NoCall
<1>3. TypeInv'
  <2>1. call' \in [Writers -> [stage : Stages, callbacks : Nat]] BY <1>1, <1>2
  <2> QED BY <1>1, <2>1 DEF VaultInv, TypeInv
<1>4. QueueInv' /\ TxnQueue' /\ StagedInv'
  BY <1>1, <1>2, TransactionEnds
<1>5. StoredInv' /\ OneCallback'
  BY <1>1, <1>2, StoredKept DEF VaultInv, OneCallback, NoCall
<1> QED BY <1>3, <1>4, <1>5 DEF VaultInv

\* A committed call runs its callbacks and ends (runEach).
LEMMA RunAfterCommitInv ==
    ASSUME VaultInv, NEW w \in Writers, RunAfterCommit(w)
    PROVE  VaultInv'
<1>1. /\ call[w].stage = "committed"
      /\ told' = [told EXCEPT ![w] = @ + call[w].callbacks]
      /\ call' = [call EXCEPT ![w] = NoCall]
      /\ UNCHANGED <<engine, stored, waiting, groups, txn, view>>
  BY DEF RunAfterCommit
<1>2. /\ call'[w] = NoCall /\ \A v \in Writers \ {w} : call'[v] = call[v]
      /\ call' \in [Writers -> [stage : Stages, callbacks : Nat]]
  BY <1>1 DEF VaultInv, TypeInv, Stages, NoCall
<1>3. Nowhere(w)
  BY <1>1, IdleIsNowhere
<1>4. TypeInv'
  <2>1. told[w] + call[w].callbacks \in Nat BY DEF VaultInv, TypeInv
  <2>2. told' \in [Writers -> Nat] BY <1>1, <2>1 DEF VaultInv, TypeInv
  <2> QED BY <1>1, <1>2, <2>2 DEF VaultInv, TypeInv
<1>5. QueueInv'
  <2>1. \A g \in groups :
          /\ IsInjective(g.calls) /\ (g.solo => Len(g.calls) = 1)
          /\ \A v \in Calls(g) : call'[v].stage = "called" /\ v \notin Range(waiting)
    BY <1>2, <1>3, GroupTypes DEF VaultInv, QueueInv, Nowhere
  <2>2. \A v \in Range(waiting) : call'[v].stage = "called"
    BY <1>2, <1>3, GroupTypes DEF VaultInv, QueueInv, Nowhere
  <2> QED BY <1>1, <2>1, <2>2 DEF VaultInv, QueueInv
<1>6. TxnQueue'
  <2>1. \A v \in Writers : call'[v].stage = "ran" => txn # None /\ v \in RanIn(txn)
    BY <1>2 DEF VaultInv, TxnQueue, NoCall
  <2>2. ASSUME txn # None
        PROVE  \A i \in 1 .. Len(txn.group.calls) :
                  call'[txn.group.calls[i]] = call[txn.group.calls[i]]
    <3>1. txn.group.calls \in Seq(Writers)
      BY <2>2 DEF VaultInv, TypeInv, Transactions, Groups
    <3> QED BY <1>2, <1>3, <2>2, <3>1 DEF Nowhere, Calls, Range
  <2>3. txn' = txn /\ groups' = groups /\ waiting' = waiting BY <1>1
  <2> QED BY <2>1, <2>2, <2>3 DEF VaultInv, TxnQueue
<1>7. StagedInv' /\ StoredInv' /\ OneCallback'
  BY <1>1, <1>2, StagedKept, StoredKept DEF VaultInv, OneCallback, NoCall
<1> QED BY <1>4, <1>5, <1>6, <1>7 DEF VaultInv

\* A view reads what was stored when it began.
LEMMA ViewInv ==
    ASSUME VaultInv, NEW r \in Readers, OpenView(r) \/ ReadInView(r) \/ CloseView(r)
    PROVE  VaultInv'
<1>1. UNCHANGED <<engine, stored, waiting, groups, txn, call, told>>
  BY DEF OpenView, ReadInView, CloseView
<1>2. /\ view' = [view EXCEPT ![r] = view'[r]]
      /\ view'[r] \in ViewsOf(Store) \cup {None}
      /\ view'[r] # None => Settled(view'[r].of)
  <2>1. /\ stored \in Store /\ Settled(stored) /\ view \in [Readers -> ViewsOf(Store) \cup {None}]
        /\ view[r] # None => view[r] \in ViewsOf(Store) /\ Settled(view[r].of)
    BY DEF VaultInv, TypeInv, StoredInv
  <2>2. CASE OpenView(r)
    BY <2>1, <2>2 DEF OpenView, ViewsOf
  <2>3. CASE ReadInView(r)
    <3>1. PICK n \in Int : view' = [view EXCEPT ![r].read = Append(@, n)]
      <4>1. view[r].of \in Store BY <2>1, <2>3 DEF ReadInView, ViewsOf
      <4> QED BY <2>3, <4>1, StoreReads DEF ReadInView
    <3>2. view[r] \in ViewsOf(Store) /\ Settled(view[r].of) BY <2>1, <2>3 DEF ReadInView
    <3>3. Append(view[r].read, n) \in Seq(Int) BY <3>2 DEF ViewsOf
    <3>4. /\ view'[r] = [view[r] EXCEPT !.read = Append(@, n)]
          /\ view' = [view EXCEPT ![r] = view'[r]]
      BY <2>1, <3>1
    <3> QED BY <3>2, <3>3, <3>4 DEF ViewsOf
  <2>4. CASE CloseView(r)
    BY <2>1, <2>4 DEF CloseView
  <2> QED BY <2>2, <2>3, <2>4
<1>3. TypeInv'
  BY <1>1, <1>2 DEF VaultInv, TypeInv
<1>4. QueueInv' /\ TxnQueue' /\ StagedInv' /\ OneCallback'
  BY <1>1, StagedKept DEF VaultInv, QueueInv, TxnQueue, OneCallback
<1>5. StoredInv'
  <2>1. \A q \in Readers \ {r} : view'[q] = view[q]
    BY <1>2 DEF VaultInv, TypeInv
  <2>2. stored' = stored BY <1>1
  <2> QED BY <1>2, <2>1, <2>2 DEF VaultInv, StoredInv, Settled, LogIn, CountIn
<1> QED BY <1>3, <1>4, <1>5 DEF VaultInv

\* A crash leaves what is stored and nothing else.
LEMMA CrashInv ==
    ASSUME VaultInv, Crash
    PROVE  VaultInv'
<1>1. /\ waiting' = <<>> /\ groups' = {} /\ txn' = None
      /\ call' = [w \in Writers |-> NoCall] /\ view' = [r \in Readers |-> None]
      /\ UNCHANGED <<engine, stored, told>>
  BY DEF Crash
<1>2. IsInjective(<<>>) /\ Range(<<>>) = {}
  BY DEF IsInjective, Range
<1>3. TypeInv' /\ QueueInv' /\ OneCallback'
  BY <1>1, <1>2 DEF VaultInv, TypeInv, QueueInv, OneCallback, NoCall, Stages
<1>4. TxnQueue' /\ StagedInv'
  BY <1>1, NoTransaction DEF NoCall
<1>5. StoredInv'
  BY <1>1 DEF VaultInv, StoredInv, Settled, LogIn, CountIn
<1> QED BY <1>3, <1>4, <1>5 DEF VaultInv

\* Every step of the vault keeps the invariant.
LEMMA NextInv ==
    ASSUME VaultInv, VaultNext
    PROVE  VaultInv'
<1>1. ASSUME NEW w \in Writers, VaultCall(w) \/ ContextDone(w) \/ RunAfterCommit(w)
      PROVE  VaultInv'
  BY <1>1, VaultCallInv, ContextDoneInv, RunAfterCommitInv
<1>2. ASSUME NEW g \in groups, BeginWrite(g) PROVE VaultInv'
  BY <1>2, BeginWriteInv
<1>3. CASE TriggerBatch BY <1>3, TriggerBatchInv
<1>4. CASE ReadCount \/ PutCount \/ PutEntry \/ ClosureReturns
  BY <1>4, ReadCountInv, PutCountInv, PutEntryInv, ClosureReturnsInv
<1>5. CASE ClosureFails BY <1>5, SoloFailsInv, MergedFailsInv
<1>6. CASE Commit \/ CommitRefused BY <1>6, CommitInv, CommitRefusedInv
<1>7. ASSUME NEW r \in Readers, OpenView(r) \/ ReadInView(r) \/ CloseView(r) PROVE VaultInv'
  BY <1>7, ViewInv
<1>8. CASE Crash BY <1>8, CrashInv
<1> QED BY <1>1, <1>2, <1>3, <1>4, <1>5, <1>6, <1>7, <1>8 DEF VaultNext

\* A step or a stutter keeps the invariant.
LEMMA StepInv ==
    ASSUME VaultInv, [VaultNext]_vaultVars
    PROVE  VaultInv'
<1>1. ASSUME UNCHANGED vaultVars PROVE VaultInv'
  <2>1. UNCHANGED <<engine, stored, waiting, groups, txn, call, told, view>>
    BY <1>1 DEF vaultVars
  <2>2. StagedInv' /\ StoredInv'
    BY <2>1, StagedKept, StoredKept DEF VaultInv
  <2> QED BY <2>1, <2>2 DEF VaultInv, TypeInv, QueueInv, TxnQueue, OneCallback
<1> QED BY <1>1, NextInv

\* Every state of the vault keeps the description of its transaction: where calls
\* wait, which closures ran, and what log, count and tally are after each piece.
THEOREM VaultInvariant == VaultSpec => []VaultInv
<1>1. VaultInit => VaultInv
  BY InitInv
<1>2. VaultInv /\ [VaultNext]_vaultVars => VaultInv'
  BY StepInv
<1> QED BY <1>1, <1>2, PTL DEF VaultSpec

----------------------------------------------------------------------------
\* The tallies.  What a bucket holds is counted under each key: nothing, or the
\* bytes of its record.

BytesUnder(value, k) ==
    IF value = None THEN {} ELSE {k} \X (1 .. KeyLength + RecordLength(value))

\* A tally is of the records held; no value is shorter than empty.
TalliedOver(e, store) ==
    \A b \in Buckets :
       /\ \A k \in Keys : store.entries[b][k] \in Nat \cup {None}
       /\ IsFiniteSet(RecordsIn(store, b)) /\ IsFiniteSet(BytesIn(store, b))
       /\ store.tally[b].entries = Cardinality(RecordsIn(store, b))
       /\ store.tally[b].bytes =
             IF e = "pebble" THEN Cardinality(BytesIn(store, b)) ELSE 0

Tallied(store) == TalliedOver(engine, store)

\* The bytes under a key are as many as its record is long.
LEMMA BytesCounted ==
    ASSUME NEW value \in Nat \cup {None}, NEW k
    PROVE  /\ IsFiniteSet(BytesUnder(value, k))
           /\ Cardinality(BytesUnder(value, k)) =
                 IF value = None THEN 0 ELSE KeyLength + RecordLength(value)
           /\ \A x \in BytesUnder(value, k) : x[1] = k
<1>1. CASE value = None
  BY <1>1, FS_EmptySet DEF BytesUnder
<1>2. CASE value # None
  <2>1. PICK n \in Nat : n = KeyLength + RecordLength(value)
    BY <1>2 DEF KeyLength, RecordLength
  <2>2. IsFiniteSet(1 .. n) /\ Cardinality(1 .. n) = n
    BY <2>1, FS_Interval
  <2>3. IsFiniteSet({k}) /\ Cardinality({k}) = 1
    BY FS_Singleton
  <2>4. IsFiniteSet({k} \X (1 .. n)) /\ Cardinality({k} \X (1 .. n)) = 1 * n
    BY <2>2, <2>3, FS_Product
  <2>5. BytesUnder(value, k) = {k} \X (1 .. n)
    BY <1>2, <2>1 DEF BytesUnder
  <2> QED BY <1>2, <2>1, <2>4, <2>5
<1> QED BY <1>1, <1>2

\* The bytes of a bucket are those under its keys.
LEMMA BytesAreUnderKeys ==
    ASSUME NEW store, NEW b
    PROVE  BytesIn(store, b) = UNION {BytesUnder(store.entries[b][k], k) : k \in Keys}
BY DEF BytesIn, RecordsIn, BytesUnder

\* What a write under one key makes of the records and the bytes of a bucket.
LEMMA OneKeyWritten ==
    ASSUME NEW store, NEW after, NEW b \in Buckets, NEW k \in Keys, Tallied(store),
           NEW new \in Nat \cup {None},
           \A x \in Keys : after.entries[b][x] = IF x = k THEN new ELSE store.entries[b][x]
    PROVE  LET old == store.entries[b][k]
               entriesOf(v) == IF v = None THEN 0 ELSE 1
               bytesOf(v) == IF v = None THEN 0 ELSE KeyLength + RecordLength(v)
           IN
           /\ IsFiniteSet(RecordsIn(after, b)) /\ IsFiniteSet(BytesIn(after, b))
           /\ Cardinality(RecordsIn(after, b)) \in Nat /\ Cardinality(BytesIn(after, b)) \in Nat
           /\ Cardinality(RecordsIn(after, b)) =
                 Cardinality(RecordsIn(store, b)) - entriesOf(old) + entriesOf(new)
           /\ Cardinality(BytesIn(after, b)) =
                 Cardinality(BytesIn(store, b)) - bytesOf(old) + bytesOf(new)
<1> DEFINE old == store.entries[b][k]
           entriesOf(v) == IF v = None THEN 0 ELSE 1
           bytesOf(v) == IF v = None THEN 0 ELSE KeyLength + RecordLength(v)
<1>1. old \in Nat \cup {None}
  BY DEF Tallied, TalliedOver
<1>2. /\ IsFiniteSet(RecordsIn(store, b)) /\ IsFiniteSet(BytesIn(store, b))
      /\ Cardinality(RecordsIn(store, b)) \in Nat /\ Cardinality(BytesIn(store, b)) \in Nat
  BY FS_CardinalityType DEF Tallied, TalliedOver
<1>3. /\ IsFiniteSet(RecordsIn(after, b))
      /\ Cardinality(RecordsIn(after, b)) =
            Cardinality(RecordsIn(store, b)) - entriesOf(old) + entriesOf(new)
  <2>1. PICK R : R = RecordsIn(store, b) \ {k}
    OBVIOUS
  <2>2. IsFiniteSet(R) /\ Cardinality(R) = Cardinality(RecordsIn(store, b)) - entriesOf(old)
    <3>1. k \in RecordsIn(store, b) <=> old # None
      BY DEF RecordsIn
    <3> QED BY <1>2, <2>1, <3>1, FS_RemoveElement
  <2>3. RecordsIn(after, b) = IF new = None THEN R ELSE R \cup {k}
    BY <2>1 DEF RecordsIn
  <2>4. k \notin R /\ Cardinality(R) \in Nat
    BY <2>1, <2>2, FS_CardinalityType
  <2>5. IsFiniteSet(R \cup {k}) /\ Cardinality(R \cup {k}) = Cardinality(R) + 1
    BY <2>2, <2>4, FS_AddElement
  <2> QED BY <1>2, <2>2, <2>3, <2>4, <2>5
<1>4. /\ IsFiniteSet(BytesIn(after, b))
      /\ Cardinality(BytesIn(after, b)) =
            Cardinality(BytesIn(store, b)) - bytesOf(old) + bytesOf(new)
  <2>1. PICK R : R = UNION {BytesUnder(store.entries[b][x], x) : x \in Keys \ {k}}
    OBVIOUS
  <2>2. BytesIn(store, b) = R \cup BytesUnder(old, k)
    BY <2>1, BytesAreUnderKeys
  <2>3. BytesIn(after, b) = R \cup BytesUnder(new, k)
    <3>1. /\ after.entries[b][k] = new
          /\ \A x \in Keys \ {k} : after.entries[b][x] = store.entries[b][x]
      OBVIOUS
    <3>2. BytesIn(after, b) = UNION {BytesUnder(after.entries[b][x], x) : x \in Keys}
      BY BytesAreUnderKeys
    <3> QED BY <2>1, <3>1, <3>2
  <2>4. ASSUME NEW value \in Nat \cup {None} PROVE R \cap BytesUnder(value, k) = {}
    <3>1. ASSUME NEW y \in R PROVE y[1] # k
      <4>1. PICK x \in Keys \ {k} : y \in BytesUnder(store.entries[b][x], x)
        BY <2>1
      <4>2. store.entries[b][x] \in Nat \cup {None}
        BY DEF Tallied, TalliedOver
      <4> QED BY <4>1, <4>2, BytesCounted
    <3>2. \A y \in BytesUnder(value, k) : y[1] = k
      BY BytesCounted
    <3> QED BY <3>1, <3>2
  <2>5. IsFiniteSet(R)
    <3>1. R \in SUBSET BytesIn(store, b)
      BY <2>2
    <3> QED BY <1>2, <3>1, FS_Subset
  <2>6. ASSUME NEW value \in Nat \cup {None}
        PROVE  /\ IsFiniteSet(R \cup BytesUnder(value, k))
               /\ Cardinality(R \cup BytesUnder(value, k)) = Cardinality(R) + bytesOf(value)
    <3>1. /\ IsFiniteSet(BytesUnder(value, k))
          /\ Cardinality(BytesUnder(value, k)) = bytesOf(value)
      BY BytesCounted
    <3>2. Cardinality(R \cup BytesUnder(value, k)) =
             Cardinality(R) + Cardinality(BytesUnder(value, k)) - Cardinality({})
      BY <2>4, <2>5, <3>1, FS_Union
    <3>3. Cardinality(R) \in Nat /\ Cardinality(BytesUnder(value, k)) \in Nat
      BY <2>5, <3>1, FS_CardinalityType
    <3>4. IsFiniteSet(R \cup BytesUnder(value, k))
      BY <2>5, <3>1, FS_Union
    <3> QED BY <3>1, <3>2, <3>3, <3>4, FS_EmptySet
  <2>7. bytesOf(old) \in Nat /\ bytesOf(new) \in Nat /\ Cardinality(R) \in Nat
    BY <1>1, <2>5, FS_CardinalityType DEF KeyLength, RecordLength
  <2>8. Cardinality(BytesIn(store, b)) = Cardinality(R) + bytesOf(old)
    BY <1>1, <2>2, <2>6
  <2>9. /\ IsFiniteSet(BytesIn(after, b))
        /\ Cardinality(BytesIn(after, b)) = Cardinality(R) + bytesOf(new)
    BY <2>3, <2>6
  <2> HIDE DEF bytesOf
  <2> QED BY <2>7, <2>8, <2>9
<1>5. Cardinality(RecordsIn(after, b)) \in Nat /\ Cardinality(BytesIn(after, b)) \in Nat
  BY <1>3, <1>4, FS_CardinalityType
<1> QED BY <1>3, <1>4, <1>5

\* A tally adjusted by what is right for its records is never cut off at none.
LEMMA AdjustedTally ==
    ASSUME NEW tally \in [entries : Int, bytes : Int], NEW e \in Int, NEW n \in Int,
           NEW entries \in Nat, NEW bytes \in Nat, engine \in {"pebble", "bolt"},
           entries = tally.entries + e, engine = "pebble" => bytes = tally.bytes + n
    PROVE  AdjustedBy(tally, e, n) =
              [entries |-> entries, bytes |-> IF engine = "pebble" THEN bytes ELSE 0]
BY DEF AdjustedBy, Larger

\* The other bucket's records and bytes stay.
LEMMA OtherBucketKept ==
    ASSUME NEW store, NEW after, NEW c \in Buckets,
           \A x \in Keys : after.entries[c][x] = store.entries[c][x]
    PROVE  RecordsIn(after, c) = RecordsIn(store, c) /\ BytesIn(after, c) = BytesIn(store, c)
<1>1. RecordsIn(after, c) = RecordsIn(store, c)
  BY DEF RecordsIn
<1>2. \A k \in RecordsIn(store, c) : after.entries[c][k] = store.entries[c][k]
  BY DEF RecordsIn
<1> QED BY <1>1, <1>2 DEF BytesIn

\* A bucket whose tally follows the write of one key leaves the store tallied.
LEMMA OneBucketTallied ==
    ASSUME NEW store, NEW after, NEW b \in Buckets, NEW k \in Keys, Tallied(store),
           NEW new \in Nat \cup {None},
           \A c \in Buckets, x \in Keys : after.entries[c][x] =
              IF c = b /\ x = k THEN new ELSE store.entries[c][x],
           \A c \in Buckets \ {b} : after.tally[c] = store.tally[c],
           after.tally[b] =
              [entries |-> Cardinality(RecordsIn(after, b)),
               bytes |-> IF engine = "pebble" THEN Cardinality(BytesIn(after, b)) ELSE 0]
    PROVE  Tallied(after)
<1>1. \A x \in Keys : after.entries[b][x] = IF x = k THEN new ELSE store.entries[b][x]
  OBVIOUS
<1>2. IsFiniteSet(RecordsIn(after, b)) /\ IsFiniteSet(BytesIn(after, b))
  BY <1>1, OneKeyWritten
<1>3. ASSUME NEW c \in Buckets, c # b
      PROVE  RecordsIn(after, c) = RecordsIn(store, c) /\ BytesIn(after, c) = BytesIn(store, c)
  <2>1. \A x \in Keys : after.entries[c][x] = store.entries[c][x]
    BY <1>3
  <2> QED BY <2>1, OtherBucketKept
<1>4. \A c \in Buckets, x \in Keys : after.entries[c][x] \in Nat \cup {None}
  BY DEF Tallied, TalliedOver
<1> QED BY <1>2, <1>3, <1>4 DEF Tallied, TalliedOver

\* Putting a value tallies it, in place of the one it overwrites.
LEMMA PutTallied ==
    ASSUME NEW store \in Store, Tallied(store), NEW b \in Buckets, NEW k \in Keys,
           NEW new \in Nat, engine \in {"pebble", "bolt"}
    PROVE  Tallied(Put(store, b, k, new))
<1>1. PICK after : after = Put(store, b, k, new)
  OBVIOUS
<1>2. PICK old : old = store.entries[b][k]
  OBVIOUS
<1>3. new # None /\ old \in Nat \cup {None}
  BY <1>2, VaultAssumption DEF Tallied, TalliedOver
<1>4. /\ \A c \in Buckets, x \in Keys : after.entries[c][x] =
            IF c = b /\ x = k THEN new ELSE store.entries[c][x]
      /\ \A c \in Buckets \ {b} : after.tally[c] = store.tally[c]
  BY <1>1, PutType
<1>5. /\ Cardinality(RecordsIn(after, b)) \in Nat /\ Cardinality(BytesIn(after, b)) \in Nat
      /\ Cardinality(RecordsIn(after, b)) =
            Cardinality(RecordsIn(store, b)) + IF old = None THEN 1 ELSE 0
      /\ Cardinality(BytesIn(after, b)) =
            Cardinality(BytesIn(store, b)) + (KeyLength + RecordLength(new))
               - IF old = None THEN 0 ELSE KeyLength + RecordLength(old)
  <2>1. \A x \in Keys : after.entries[b][x] = IF x = k THEN new ELSE store.entries[b][x]
    BY <1>4
  <2>2. Cardinality(RecordsIn(store, b)) \in Nat /\ Cardinality(BytesIn(store, b)) \in Nat
    BY FS_CardinalityType DEF Tallied, TalliedOver
  <2>3. /\ KeyLength + RecordLength(new) \in Nat
        /\ old # None => KeyLength + RecordLength(old) \in Nat
    BY <1>3 DEF KeyLength, RecordLength
  <2> QED BY <1>2, <1>3, <2>1, <2>2, <2>3, OneKeyWritten
<1>6. /\ store.tally[b] \in [entries : Int, bytes : Int]
      /\ store.tally[b].entries = Cardinality(RecordsIn(store, b))
      /\ engine = "pebble" => store.tally[b].bytes = Cardinality(BytesIn(store, b))
      /\ Cardinality(RecordsIn(store, b)) \in Nat /\ Cardinality(BytesIn(store, b)) \in Nat
  BY FS_CardinalityType DEF Tallied, TalliedOver, Store
<1>7. PICK e \in Int, n \in Int :
        /\ after.tally[b] = AdjustedBy(store.tally[b], e, n)
        /\ e = IF old = None THEN 1 ELSE 0
        /\ n = IF old = None THEN KeyLength + RecordLength(new)
                              ELSE RecordLength(new) - RecordLength(old)
  <2>1. CASE old = None
    <3>1. after.tally[b] = AdjustedBy(store.tally[b], 1, KeyLength + RecordLength(new))
      BY <1>1, <1>2, <2>1 DEF Put, IsHeld, Store
    <3>2. KeyLength + RecordLength(new) \in Int
      BY DEF KeyLength, RecordLength
    <3> QED BY <2>1, <3>1, <3>2
  <2>2. CASE old # None
    <3>1. after.tally[b] =
             AdjustedBy(store.tally[b], 0, RecordLength(new) - RecordLength(old))
      BY <1>1, <1>2, <2>2 DEF Put, IsHeld, Store
    <3>2. RecordLength(new) - RecordLength(old) \in Int
      BY <1>3, <2>2 DEF RecordLength
    <3> QED BY <2>2, <3>1, <3>2
  <2> QED BY <2>1, <2>2
<1>8. /\ Cardinality(RecordsIn(after, b)) = store.tally[b].entries + e
      /\ engine = "pebble" => Cardinality(BytesIn(after, b)) = store.tally[b].bytes + n
  BY <1>3, <1>5, <1>6, <1>7 DEF KeyLength, RecordLength
<1>9. after.tally[b] =
        [entries |-> Cardinality(RecordsIn(after, b)),
         bytes |-> IF engine = "pebble" THEN Cardinality(BytesIn(after, b)) ELSE 0]
  BY <1>5, <1>6, <1>7, <1>8, AdjustedTally
<1>10. Tallied(after)
  BY <1>4, <1>9, OneBucketTallied
<1> QED BY <1>1, <1>10

\* Taking a record out takes out what its tally counted of it.
LEMMA DeleteTallied ==
    ASSUME NEW store \in Store, Tallied(store), NEW b \in Buckets, NEW k \in Keys,
           engine \in {"pebble", "bolt"}, store.entries[b][k] # None
    PROVE  Tallied(Delete(store, b, k))
<1>1. PICK after : after = Delete(store, b, k)
  OBVIOUS
<1>2. PICK old \in Nat : old = store.entries[b][k] /\ old # None
  BY DEF Tallied, TalliedOver
<1>3. PICK none : none = None
  OBVIOUS
<1>4. /\ \A c \in Buckets, x \in Keys : after.entries[c][x] =
            IF c = b /\ x = k THEN none ELSE store.entries[c][x]
      /\ \A c \in Buckets \ {b} : after.tally[c] = store.tally[c]
  BY <1>1, <1>3, DeleteType
<1>5. /\ Cardinality(RecordsIn(after, b)) \in Nat /\ Cardinality(BytesIn(after, b)) \in Nat
      /\ Cardinality(RecordsIn(after, b)) = Cardinality(RecordsIn(store, b)) - 1
      /\ Cardinality(BytesIn(after, b)) =
            Cardinality(BytesIn(store, b)) - (KeyLength + RecordLength(old))
  <2>1. /\ \A x \in Keys : after.entries[b][x] = IF x = k THEN none ELSE store.entries[b][x]
        /\ none \in Nat \cup {None}
    BY <1>3, <1>4
  <2>2. Cardinality(RecordsIn(store, b)) \in Nat /\ Cardinality(BytesIn(store, b)) \in Nat
    BY FS_CardinalityType DEF Tallied, TalliedOver
  <2>3. KeyLength + RecordLength(old) \in Nat
    BY DEF KeyLength, RecordLength
  <2> QED BY <1>2, <1>3, <2>1, <2>2, <2>3, OneKeyWritten
<1>6. /\ store.tally[b] \in [entries : Int, bytes : Int]
      /\ store.tally[b].entries = Cardinality(RecordsIn(store, b))
      /\ engine = "pebble" => store.tally[b].bytes = Cardinality(BytesIn(store, b))
      /\ Cardinality(RecordsIn(store, b)) \in Nat /\ Cardinality(BytesIn(store, b)) \in Nat
  BY FS_CardinalityType DEF Tallied, TalliedOver, Store
<1>7. PICK n \in Int : /\ after.tally[b] = AdjustedBy(store.tally[b], -1, n)
                       /\ n = -(KeyLength + RecordLength(old))
  <2>1. -(KeyLength + RecordLength(old)) \in Int
    BY DEF KeyLength, RecordLength
  <2>2. after.tally[b] = AdjustedBy(store.tally[b], -1, -(KeyLength + RecordLength(old)))
    BY <1>1, <1>2 DEF Delete, IsHeld, Store
  <2> QED BY <2>1, <2>2
<1>8. /\ Cardinality(RecordsIn(after, b)) = store.tally[b].entries + (-1)
      /\ engine = "pebble" => Cardinality(BytesIn(after, b)) = store.tally[b].bytes + n
  BY <1>5, <1>6, <1>7 DEF KeyLength, RecordLength
<1>9. after.tally[b] =
        [entries |-> Cardinality(RecordsIn(after, b)),
         bytes |-> IF engine = "pebble" THEN Cardinality(BytesIn(after, b)) ELSE 0]
  BY <1>5, <1>6, <1>7, <1>8, AdjustedTally
<1>10. Tallied(after)
  <2>1. none \in Nat \cup {None}
    BY <1>3
  <2> QED BY <1>4, <1>9, <2>1, OneBucketTallied
<1> QED BY <1>1, <1>10

\* The strengthening of TalliesAgree.
TallyInv == VaultInv /\ Tallied(stored) /\ (txn # None => Tallied(txn.staged))

\* A piece of a closure leaves the staged store tallied.
LEMMA PieceTallied ==
    ASSUME TallyInv, ReadCount \/ PutCount \/ PutEntry \/ ClosureReturns
    PROVE  Tallied(txn'.staged) /\ UNCHANGED <<engine, stored>>
<1>1. /\ VaultInv /\ txn # None /\ Tallied(txn.staged) /\ engine \in {"pebble", "bolt"}
      /\ txn.at <= Len(txn.group.calls)
  BY DEF TallyInv, VaultInv, TypeInv, ReadCount, PutCount, PutEntry, ClosureReturns, InClosure
<1>2. txn \in Transactions /\ txn.staged \in Store /\ Running \in Writers
  BY <1>1, RunningCall
<1>5. CASE ReadCount \/ ClosureReturns
  <2>1. txn'.staged = txn.staged
    BY <1>2, <1>5 DEF ReadCount, ClosureReturns, Transactions
  <2> QED BY <1>1, <1>5, <2>1 DEF ReadCount, ClosureReturns
<1>6. CASE PutCount
  <2>1. PICK n : n = txn.seen + IF Running \in LogIn(txn.staged) THEN -1 ELSE 1
    OBVIOUS
  <2>2. txn'.staged = Put(txn.staged, "count", Total, n)
    BY <1>2, <1>6, <2>1 DEF PutCount, Transactions
  <2>3. n \in Nat
    <3>1. txn.seen = Cardinality(LogIn(txn.staged)) + 0
      BY <1>1, <1>6 DEF PutCount, InClosure, VaultInv, StagedInv
    <3>2. IsFiniteSet(LogIn(txn.staged)) /\ Cardinality(LogIn(txn.staged)) \in Nat
      BY <1>2, StoreReads
    <3>3. ASSUME Running \in LogIn(txn.staged) PROVE Cardinality(LogIn(txn.staged)) >= 1
      <4>1. LogIn(txn.staged) # {}
        BY <3>3
      <4> QED BY <3>2, <4>1, FS_EmptySet
    <3> QED BY <2>1, <3>1, <3>2, <3>3
  <2>4. "count" \in Buckets /\ Total \in Keys
    BY DEF Buckets, Keys
  <2>5. Tallied(Put(txn.staged, "count", Total, n))
    BY <1>1, <1>2, <2>3, <2>4, PutTallied
  <2> QED BY <1>1, <1>6, <2>2, <2>5 DEF PutCount
<1>7. CASE PutEntry
  <2>1. txn'.staged = IF Running \in LogIn(txn.staged) THEN Delete(txn.staged, "log", Running)
                      ELSE Put(txn.staged, "log", Running, InLog)
    BY <1>2, <1>7 DEF PutEntry, Transactions
  <2>2. "log" \in Buckets /\ Running \in Keys /\ InLog \in Nat
    BY <1>2 DEF Buckets, Keys, InLog
  <2>3. CASE Running \in LogIn(txn.staged)
    <3>1. txn.staged.entries["log"][Running] # None
      BY <2>3 DEF LogIn, IsHeld
    <3>2. Tallied(Delete(txn.staged, "log", Running))
      BY <1>1, <1>2, <2>2, <3>1, DeleteTallied
    <3> QED BY <1>1, <1>7, <2>1, <2>3, <3>2 DEF PutEntry
  <2>4. CASE Running \notin LogIn(txn.staged)
    <3>1. Tallied(Put(txn.staged, "log", Running, InLog))
      BY <1>1, <1>2, <2>2, PutTallied
    <3> QED BY <1>1, <1>7, <2>1, <2>4, <3>1 DEF PutEntry
  <2> QED BY <2>3, <2>4
<1> QED BY <1>5, <1>6, <1>7

\* Every step keeps the tallies.
LEMMA TallyStep == TallyInv /\ [VaultNext]_vaultVars => TallyInv'
<1> SUFFICES ASSUME TallyInv, [VaultNext]_vaultVars PROVE TallyInv'
  OBVIOUS
<1>1. VaultInv'
  BY StepInv DEF TallyInv
<1>2. ASSUME ReadCount \/ PutCount \/ PutEntry \/ ClosureReturns
      PROVE  Tallied(stored)' /\ (txn' # None => Tallied(txn.staged)')
  <2>1. Tallied(txn'.staged) /\ UNCHANGED <<engine, stored>>
    BY <1>2, PieceTallied
  <2> QED BY <2>1 DEF TallyInv, Tallied
<1>3. ASSUME Commit PROVE Tallied(stored)' /\ (txn' # None => Tallied(txn.staged)')
  <2>1. txn # None /\ stored' = txn.staged /\ txn' = None /\ UNCHANGED engine
    BY <1>3 DEF Commit, AllRan
  <2> QED BY <2>1 DEF TallyInv, Tallied
<1>4. ASSUME NEW g \in groups, BeginWrite(g)
      PROVE  Tallied(stored)' /\ (txn' # None => Tallied(txn.staged)')
  <2>1. txn'.staged = stored /\ UNCHANGED <<engine, stored>>
    BY <1>4 DEF BeginWrite
  <2> QED BY <2>1 DEF TallyInv, Tallied
<1>5. ASSUME UNCHANGED <<engine, stored>>, txn' \in {None, txn}
      PROVE  Tallied(stored)' /\ (txn' # None => Tallied(txn.staged)')
  BY <1>5 DEF TallyInv, Tallied
<1>6. \/ ReadCount \/ PutCount \/ PutEntry \/ ClosureReturns
      \/ Commit \/ \E g \in groups : BeginWrite(g)
      \/ UNCHANGED <<engine, stored>> /\ txn' \in {None, txn}
  BY DEF VaultNext, VaultCall, ContextDone, RunAfterCommit, TriggerBatch, ClosureFails,
         CommitRefused, OpenView, ReadInView, CloseView, Crash, vaultVars
<1> QED BY <1>1, <1>2, <1>3, <1>4, <1>5, <1>6 DEF TallyInv

\* Whatever is overwritten, empty, deleted, rolled back or lost in a crash: the
\* tallies are the number and the bytes of the records held (storedBucketTally).
THEOREM TalliesAreExact == VaultSpec => []TalliesAgree
<1>1. VaultInit => TallyInv
  <2> SUFFICES ASSUME VaultInit PROVE TallyInv
    OBVIOUS
  <2>1. \A b \in Buckets : /\ RecordsIn(stored, b) = {} /\ BytesIn(stored, b) = {}
                           /\ stored.tally[b] = [entries |-> 0, bytes |-> 0]
                           /\ \A k \in Keys : stored.entries[b][k] = None
    BY DEF VaultInit, EmptyStore, RecordsIn, BytesIn, Buckets
  <2>2. Tallied(stored)
    <3>1. IsFiniteSet({}) /\ Cardinality({}) = 0
      BY FS_EmptySet
    <3>2. \A b \in Buckets : /\ IsFiniteSet(RecordsIn(stored, b))
                             /\ IsFiniteSet(BytesIn(stored, b))
                             /\ Cardinality(RecordsIn(stored, b)) = 0
                             /\ Cardinality(BytesIn(stored, b)) = 0
                             /\ stored.tally[b].entries = 0 /\ stored.tally[b].bytes = 0
      BY <2>1, <3>1
    <3> QED BY <2>1, <3>2 DEF Tallied, TalliedOver
  <2>3. txn = None
    BY DEF VaultInit
  <2> QED BY <2>2, <2>3, InitInv DEF TallyInv
<1>2. TallyInv => TalliesAgree
  <2> SUFFICES ASSUME TallyInv, NEW store \in {stored} \cup {t.staged : t \in {txn} \ {None}},
                      NEW b \in Buckets
               PROVE  store.tally[b] =
                        [entries |-> Cardinality(RecordsIn(store, b)),
                         bytes |-> IF engine = "pebble" THEN Cardinality(BytesIn(store, b)) ELSE 0]
    BY DEF TalliesAgree
  <2>1. Tallied(store)
    BY DEF TallyInv
  <2>2. store \in Store
    BY DEF TallyInv, VaultInv, TypeInv, Transactions
  <2>3. store.tally[b] \in [entries : Int, bytes : Int]
    BY <2>2 DEF Store
  <2> QED BY <2>1, <2>3 DEF Tallied, TalliedOver
<1> QED BY <1>1, <1>2, TallyStep, PTL DEF VaultSpec

----------------------------------------------------------------------------
\* Each step is one of the promise, or one nobody outside of the engine sees.

\* A store whose count and tally agree with its log holds what the promise says.
LEMMA SettledHolding ==
    ASSUME NEW store, Settled(store)
    PROVE  HeldBy(store) = Promise!Holding(LogIn(store))
<1>1. Promise!Cardinality(LogIn(store)) = Cardinality(LogIn(store))
  BY DEF Cardinality, Promise!Cardinality
<1> QED BY <1>1 DEF Settled, HeldBy, Promise!Holding

\* Contents change with what is stored only.
LEMMA ContentsKept ==
    ASSUME stored' = stored
    PROVE  HeldBy(stored)' = HeldBy(stored)
BY DEF HeldBy, LogIn, CountIn

\* Snapshots change with the views only.
LEMMA SnapshotsKept ==
    ASSUME view' = view
    PROVE  Snapshots' = Snapshots
BY DEF Snapshots, HeldBy, LogIn, CountIn

\* A call that waits, runs, starts over or is put elsewhere stays under way.
LEMMA CallsKept ==
    ASSUME \A w \in Writers : /\ w \in Pending <=> call'[w].stage \in {"called", "ran"}
                              /\ w \in Owed <=> call'[w].stage = "committed"
    PROVE  Pending' = Pending /\ Owed' = Owed
BY DEF Pending, Owed

\* Steps within the engine are not seen from outside.
LEMMA Hidden ==
    ASSUME UNCHANGED <<stored, told, view>>, Pending' = Pending, Owed' = Owed
    PROVE  UNCHANGED Promise!vars
BY ContentsKept, SnapshotsKept DEF Promise!vars

\* A vault just opened is one the promise begins with.
LEMMA InitPromised == VaultInit => Promise!Init
<1> SUFFICES ASSUME VaultInit PROVE Promise!Init
  OBVIOUS
<1>1. Pending = {} /\ Owed = {}
  BY DEF VaultInit, Pending, Owed, NoCall
<1>2. HeldBy(stored) = Promise!Holding({})
  <2>1. Settled(stored)
    BY InitInv DEF VaultInv, StoredInv
  <2>2. LogIn(stored) = {}
    BY DEF VaultInit, EmptyStore, LogIn, IsHeld, Buckets, Keys
  <2> QED BY <2>1, <2>2, SettledHolding
<1>3. Snapshots = [r \in Readers |-> None]
  BY DEF VaultInit, Snapshots
<1> QED BY <1>1, <1>2, <1>3 DEF VaultInit, Promise!Init

\* Entering Vault.Update is the question the promise answers.
LEMMA CallPromised ==
    ASSUME VaultInv, NEW w \in Writers, VaultCall(w)
    PROVE  Promise!Ask(w)
<1>1. /\ call[w].stage = "idle" /\ call' = [call EXCEPT ![w].stage = "called"]
      /\ UNCHANGED <<stored, told, view>>
  BY DEF VaultCall
<1>2. call'[w].stage = "called" /\ \A v \in Writers \ {w} : call'[v] = call[v]
  BY <1>1 DEF VaultInv, TypeInv
<1>3. Pending' = Pending \cup {w} /\ Owed' = Owed /\ w \notin Pending \cup Owed
  BY <1>1, <1>2 DEF Pending, Owed
<1> QED BY <1>1, <1>3, ContentsKept, SnapshotsKept DEF Promise!Ask

\* A call that ends without effect, alone or with the transaction it is in.
LEMMA RefusalPromised ==
    ASSUME VaultInv, NEW W \in SUBSET Writers, W \subseteq Pending,
           \A w \in Writers : call'[w] = IF w \in W THEN NoCall ELSE call[w],
           UNCHANGED <<stored, told, view>>
    PROVE  Promise!Refuse(W)
<1>1. Pending' = Pending \ W /\ Owed' = Owed
  BY DEF Pending, Owed, NoCall
<1> QED BY <1>1, ContentsKept, SnapshotsKept DEF Promise!Refuse

\* A done context refuses its own call.
LEMMA ContextDonePromised ==
    ASSUME VaultInv, NEW w \in Writers, ContextDone(w)
    PROVE  Promise!Refuse({w})
<1>1. /\ [calls |-> <<w>>, solo |-> TRUE] \in groups
      /\ call' = [call EXCEPT ![w] = NoCall] /\ UNCHANGED <<stored, told, view>>
  BY DEF ContextDone
<1>2. w \in Calls([calls |-> <<w>>, solo |-> TRUE])
  BY DEF Calls, Range
<1>3. {w} \subseteq Pending
  BY <1>1, <1>2 DEF VaultInv, QueueInv, Pending
<1>4. \A v \in Writers : call'[v] = IF v \in {w} THEN NoCall ELSE call[v]
  BY <1>1 DEF VaultInv, TypeInv
<1> QED BY <1>1, <1>3, <1>4, RefusalPromised

\* No piece of a closure is seen before the commit.
LEMMA ClosurePromised ==
    ASSUME VaultInv, ReadCount \/ PutCount \/ PutEntry \/ ClosureReturns
    PROVE  UNCHANGED Promise!vars
<1>1. /\ UNCHANGED <<stored, told, view>>
      /\ txn # None /\ txn.at <= Len(txn.group.calls)
      /\ \/ call' = call
         \/ call' = [call EXCEPT ![Running] =
                        [stage |-> "ran", callbacks |-> LeftCallbacks(Running)]]
  BY DEF ReadCount, PutCount, PutEntry, ClosureReturns, InClosure
<1>2. Running \in Writers /\ call[Running].stage = "called"
  BY <1>1, RunningCall
<1>3. \A w \in Writers : \/ call'[w] = call[w]
                         \/ call'[w].stage = "ran" /\ call[w].stage = "called"
  BY <1>1, <1>2 DEF VaultInv, TypeInv
<1>4. \A w \in Writers : /\ w \in Pending <=> call'[w].stage \in {"called", "ran"}
                         /\ w \in Owed <=> call'[w].stage = "committed"
  BY <1>3 DEF Pending, Owed
<1> QED BY <1>1, <1>4, CallsKept, Hidden

\* A failed closure refuses its own call, or is only put elsewhere in a batch.
LEMMA ClosureFailsPromised ==
    ASSUME VaultInv, ClosureFails
    PROVE  (Promise!Refuse({Running}) /\ Running \in Writers) \/ UNCHANGED Promise!vars
<1>1. /\ txn # None /\ txn.at <= Len(txn.group.calls) /\ UNCHANGED <<stored, told, view>>
  BY DEF ClosureFails, InClosure
<1>2. Running \in Writers /\ call[Running].stage = "called"
  BY <1>1, RunningCall
<1>3. CASE txn.group.solo
  <2>1. call' = [call EXCEPT ![Running] = NoCall]
    BY <1>3 DEF ClosureFails
  <2>2. \A w \in Writers : call'[w] = IF w \in {Running} THEN NoCall ELSE call[w]
    BY <2>1 DEF VaultInv, TypeInv
  <2>3. {Running} \subseteq Pending
    BY <1>2 DEF Pending
  <2> QED BY <1>1, <1>2, <2>2, <2>3, RefusalPromised
<1>4. CASE ~txn.group.solo
  <2> DEFINE group == txn.group.calls
             rest == [i \in 1 .. Len(group) - 1 |->
                         IF i = txn.at THEN group[Len(group)] ELSE group[i]]
  <2>1. call' = [w \in Writers |->
                 IF w = Running
                 THEN [stage |-> "called",
                       callbacks |-> IF txn.step = "return" THEN LeftCallbacks(w) ELSE 0]
                 ELSE IF w \in Range(rest) THEN [call[w] EXCEPT !.stage = "called"] ELSE call[w]]
    BY <1>4 DEF ClosureFails
  <2>2. /\ group \in Seq(Writers) /\ IsInjective(group) /\ txn.at \in 1 .. Len(group)
    BY <1>1, RunningCall DEF VaultInv, TxnQueue, Transactions, Groups
  <2>3. Range(rest) = Calls(txn.group) \ {Running}
    BY <2>2, Regrouped DEF Calls, Running
  <2> HIDE DEF rest
  <2>4. \A w \in Calls(txn.group) : w \in Writers /\ call[w].stage \in {"called", "ran"}
    BY <1>1, <2>2, GroupTypes DEF VaultInv, TxnQueue, Calls, Range
  <2>5. \A w \in Writers : /\ w \in Pending <=> call'[w].stage \in {"called", "ran"}
                           /\ w \in Owed <=> call'[w].stage = "committed"
    BY <1>2, <2>1, <2>3, <2>4 DEF VaultInv, TypeInv, Pending, Owed
  <2> QED BY <1>1, <2>5, CallsKept, Hidden
<1> QED BY <1>3, <1>4

\* A commit takes effect for all calls of its transaction at once.
LEMMA CommitPromised ==
    ASSUME VaultInv, Commit
    PROVE  Promise!TakeEffect(Calls(txn.group)) /\ Calls(txn.group) \subseteq Writers
<1> DEFINE W == Calls(txn.group)
<1>1. /\ AllRan /\ stored' = txn.staged
      /\ call' = [w \in Writers |-> IF call[w].stage = "ran"
                                    THEN [call[w] EXCEPT !.stage = "committed"] ELSE call[w]]
      /\ UNCHANGED <<told, view>>
  BY DEF Commit
<1>2. /\ {w \in Writers : call[w].stage = "ran"} = W /\ Settled(txn.staged)
      /\ LogIn(txn.staged) = Toggled(LogIn(stored), W)
  BY <1>1, WhenAllRan
<1> HIDE DEF W
<1>3. \A w \in Writers : call'[w].stage = IF w \in W THEN "committed" ELSE call[w].stage
  BY <1>1, <1>2 DEF VaultInv, TypeInv
<1>4. W \subseteq Pending /\ W \subseteq Writers
  BY <1>2 DEF Pending
<1>5. Pending' = Pending \ W /\ Owed' = Owed \cup W
  BY <1>2, <1>3 DEF Pending, Owed
<1>6. HeldBy(stored)' = Promise!Holding((HeldBy(stored).log \ W) \cup (W \ HeldBy(stored).log))
  <2>1. HeldBy(stored).log = LogIn(stored) BY DEF HeldBy
  <2>2. HeldBy(stored)' = HeldBy(txn.staged) BY <1>1 DEF HeldBy, LogIn, CountIn
  <2>3. HeldBy(txn.staged) = Promise!Holding(LogIn(txn.staged)) BY <1>2, SettledHolding
  <2> QED BY <1>2, <2>1, <2>2, <2>3 DEF Toggled
<1>7. Promise!TakeEffect(W)
  BY <1>1, <1>4, <1>5, <1>6, SnapshotsKept DEF Promise!TakeEffect
<1> QED BY <1>4, <1>7 DEF W

\* A refused commit refuses all calls of its transaction.
LEMMA CommitRefusedPromised ==
    ASSUME VaultInv, CommitRefused
    PROVE  Promise!Refuse(Calls(txn.group)) /\ Calls(txn.group) \subseteq Writers
<1>1. /\ AllRan
      /\ call' = [w \in Writers |-> IF call[w].stage = "ran" THEN NoCall ELSE call[w]]
      /\ UNCHANGED <<stored, told, view>>
  BY DEF CommitRefused
<1>2. {w \in Writers : call[w].stage = "ran"} = Calls(txn.group)
  BY <1>1, WhenAllRan
<1>3. Calls(txn.group) \subseteq Pending /\ Calls(txn.group) \subseteq Writers
  BY <1>2 DEF Pending
<1>4. \A w \in Writers : call'[w] = IF w \in Calls(txn.group) THEN NoCall ELSE call[w]
  BY <1>1, <1>2
<1> QED BY <1>1, <1>3, <1>4, RefusalPromised

\* A call is told once, however often its closure ran.
LEMMA RunAfterCommitPromised ==
    ASSUME VaultInv, NEW w \in Writers, RunAfterCommit(w)
    PROVE  Promise!Tell(w)
<1>1. /\ call[w].stage = "committed" /\ call[w].callbacks = 1
      /\ told' = [told EXCEPT ![w] = @ + call[w].callbacks]
      /\ call' = [call EXCEPT ![w] = NoCall] /\ UNCHANGED <<stored, view>>
  BY DEF RunAfterCommit, VaultInv, OneCallback
<1>2. call'[w] = NoCall /\ \A v \in Writers \ {w} : call'[v] = call[v]
  BY <1>1 DEF VaultInv, TypeInv
<1>3. w \in Owed /\ Owed' = Owed \ {w} /\ Pending' = Pending
  BY <1>1, <1>2 DEF Pending, Owed, NoCall
<1> QED BY <1>1, <1>3, ContentsKept, SnapshotsKept DEF Promise!Tell

\* What a reader sees of a snapshot.
LEMMA SnapshotOf ==
    ASSUME VaultInv, NEW r \in Readers, view[r] # None
    PROVE  /\ Snapshots[r] = [of |-> HeldBy(view[r].of), read |-> view[r].read]
           /\ Snapshots[r] # None
           /\ view[r].of \in Store /\ Settled(view[r].of) /\ view[r].read \in Seq(Int)
<1>1. view[r] \in ViewsOf(Store) /\ Settled(view[r].of)
  BY DEF VaultInv, TypeInv, StoredInv
<1>2. Snapshots[r] = [of |-> HeldBy(view[r].of), read |-> view[r].read]
  BY <1>1 DEF Snapshots, ViewsOf
<1>3. HeldBy(view[r].of) \in Holdings
  BY <1>1, StoreReads DEF HeldBy, Holdings, ViewsOf
<1>4. Snapshots[r] \in ViewsOf(Holdings)
  BY <1>1, <1>2, <1>3 DEF ViewsOf
<1> QED BY <1>1, <1>2, <1>4, VaultAssumption DEF ViewsOf

\* A view reads the contents of the moment it began.
LEMMA ViewPromised ==
    ASSUME VaultInv, NEW r \in Readers, OpenView(r) \/ ReadInView(r) \/ CloseView(r)
    PROVE  Promise!StartReading(r) \/ Promise!Read(r) \/ Promise!EndReading(r)
<1>1. UNCHANGED <<stored, call, told>>
  BY DEF OpenView, ReadInView, CloseView
<1>2. HeldBy(stored)' = HeldBy(stored) /\ Pending' = Pending /\ Owed' = Owed
  BY <1>1, ContentsKept DEF Pending, Owed
<1>3. \A q \in Readers \ {r} : view'[q] = view[q]
  BY DEF OpenView, ReadInView, CloseView, VaultInv, TypeInv
<1>4. /\ \A q \in Readers \ {r} : Snapshots'[q] = Snapshots[q]
      /\ DOMAIN Snapshots = Readers /\ DOMAIN Snapshots' = Readers
  BY <1>3 DEF Snapshots, HeldBy, LogIn, CountIn
<1>5. Snapshots' = [Snapshots EXCEPT ![r] = Snapshots'[r]]
  BY <1>4 DEF Snapshots
<1>6. VaultInv' /\ (view'[r] # None =>
         Snapshots'[r] = [of |-> HeldBy(view'[r].of), read |-> view'[r].read])
  <2>1. VaultInv' BY ViewInv
  <2>2. view'[r] # None => view'[r] \in ViewsOf(Store)
    BY <2>1 DEF VaultInv, TypeInv
  <2> QED BY <2>1, <2>2 DEF Snapshots, ViewsOf, HeldBy, LogIn, CountIn
<1>7. CASE OpenView(r)
  <2>1. Snapshots[r] = None /\ view'[r] = [of |-> stored, read |-> <<>>]
    BY <1>7 DEF OpenView, Snapshots, VaultInv, TypeInv
  <2>2. view'[r] \in ViewsOf(Store)
    BY <2>1 DEF ViewsOf, VaultInv, TypeInv
  <2>3. Snapshots'[r] = [of |-> HeldBy(stored), read |-> <<>>]
    BY <1>6, <2>1, <2>2, VaultAssumption
  <2> QED BY <1>1, <1>2, <1>5, <2>1, <2>3 DEF Promise!StartReading
<1>8. CASE ReadInView(r)
  <2> DEFINE n == Cardinality(LogIn(view[r].of))
  <2>1. /\ view[r] # None /\ Snapshots[r] # None
        /\ Snapshots[r] = [of |-> HeldBy(view[r].of), read |-> view[r].read]
        /\ Settled(view[r].of) /\ view[r].of \in Store
    BY <1>8, SnapshotOf DEF ReadInView
  <2>2. view' = [view EXCEPT ![r].read = Append(@, n)]
    BY <1>8, <2>1 DEF ReadInView, Settled
  <2>3. view[r] \in ViewsOf(Store)
    BY <2>1 DEF VaultInv, TypeInv
  <2>4. view'[r] = [of |-> view[r].of, read |-> Append(view[r].read, n)]
    BY <2>2, <2>3 DEF ViewsOf, VaultInv, TypeInv
  <2>5. Append(view[r].read, n) \in Seq(Int)
    BY <2>1, <2>3, StoreReads DEF ViewsOf
  <2>6. view'[r] # None
    <3>1. view'[r] \in ViewsOf(Store) BY <2>1, <2>4, <2>5 DEF ViewsOf
    <3> QED BY <3>1, VaultAssumption
  <2>7. Snapshots'[r] = [Snapshots[r] EXCEPT !.read = Append(@, n)]
    <3>1. view'[r].of = view[r].of /\ view'[r].read = Append(view[r].read, n)
      BY <2>4
    <3>2. Snapshots'[r] = [of |-> HeldBy(view[r].of), read |-> Append(view[r].read, n)]
      BY <1>6, <2>6, <3>1
    <3> HIDE DEF n
    <3> QED BY <2>1, <3>2
  <2>8. n = Promise!Cardinality(Snapshots[r].of.log)
    <3>1. Snapshots[r].of.log = LogIn(view[r].of) BY <2>1 DEF HeldBy
    <3> QED BY <3>1 DEF Cardinality, Promise!Cardinality
  <2>9. Snapshots' = [Snapshots EXCEPT ![r].read =
                         Append(@, Promise!Cardinality(Snapshots[r].of.log))]
    BY <1>5, <2>7, <2>8 DEF Snapshots
  <2> QED BY <1>1, <1>2, <2>1, <2>9 DEF Promise!Read
<1>9. CASE CloseView(r)
  <2>1. Snapshots[r] # None /\ view'[r] = None
    BY <1>9, SnapshotOf DEF CloseView, VaultInv, TypeInv
  <2>2. Snapshots'[r] = None
    BY <2>1 DEF Snapshots
  <2> QED BY <1>1, <1>2, <1>5, <2>1, <2>2 DEF Promise!EndReading
<1> QED BY <1>7, <1>8, <1>9

\* A crash forgets the calls under way and keeps the contents.
LEMMA CrashPromised == ASSUME Crash PROVE Promise!Crash
<1>1. /\ call' = [w \in Writers |-> NoCall] /\ view' = [r \in Readers |-> None]
      /\ UNCHANGED <<stored, told>>
  BY DEF Crash
<1>2. Pending' = {} /\ Owed' = {}
  BY <1>1 DEF Pending, Owed, NoCall
<1>3. Snapshots' = [r \in Readers |-> None]
  BY <1>1 DEF Snapshots
<1> QED BY <1>1, <1>2, <1>3, ContentsKept DEF Promise!Crash

\* Every step of the vault is a step of the promise or a stutter.
LEMMA StepPromised ==
    ASSUME VaultInv, [VaultNext]_vaultVars
    PROVE  [Promise!Next]_(Promise!vars)
<1>1. CASE UNCHANGED vaultVars
  <2>1. UNCHANGED <<stored, told, view, call>> BY <1>1 DEF vaultVars
  <2>2. Pending' = Pending /\ Owed' = Owed BY <2>1 DEF Pending, Owed
  <2> QED BY <2>1, <2>2, Hidden
<1>2. ASSUME NEW w \in Writers, VaultCall(w) \/ ContextDone(w) \/ RunAfterCommit(w)
      PROVE  Promise!Next
  BY <1>2, CallPromised, ContextDonePromised, RunAfterCommitPromised DEF Promise!Next
<1>3. ASSUME TriggerBatch \/ \E g \in groups : BeginWrite(g)
      PROVE  UNCHANGED Promise!vars
  <2>1. UNCHANGED <<stored, told, view, call>> BY <1>3 DEF TriggerBatch, BeginWrite
  <2>2. Pending' = Pending /\ Owed' = Owed BY <2>1 DEF Pending, Owed
  <2> QED BY <2>1, <2>2, Hidden
<1>4. CASE ReadCount \/ PutCount \/ PutEntry \/ ClosureReturns
  BY <1>4, ClosurePromised
<1>5. CASE ClosureFails
  BY <1>5, ClosureFailsPromised DEF Promise!Next
<1>6. CASE Commit \/ CommitRefused
  BY <1>6, CommitPromised, CommitRefusedPromised DEF Promise!Next
<1>7. ASSUME NEW r \in Readers, OpenView(r) \/ ReadInView(r) \/ CloseView(r)
      PROVE  Promise!Next
  BY <1>7, ViewPromised DEF Promise!Next
<1>8. CASE Crash
  BY <1>8, CrashPromised DEF Promise!Next
<1> QED BY <1>1, <1>2, <1>3, <1>4, <1>5, <1>6, <1>7, <1>8 DEF VaultNext

\* Over either engine the vault keeps the promise of AtomicVault: calls take effect
\* whole, once and in some order; their callbacks run once, after it; a view reads
\* one moment.
THEOREM VaultIsAtomic == VaultSpec => ImplementsAtomicVault
<1>1. VaultInit => Promise!Init
  BY InitPromised
<1>2. VaultInv /\ [VaultNext]_vaultVars => [Promise!Next]_(Promise!vars)
  BY StepPromised
<1> QED BY <1>1, <1>2, VaultInvariant, PTL
        DEF VaultSpec, ImplementsAtomicVault, Promise!Spec

----------------------------------------------------------------------------
\* The window of replicas.

\* A set of numbers that is not empty has a least one.
LEMMA Least ==
    ASSUME NEW T \in SUBSET Nat, T # {}
    PROVE  \E m \in T : \A n \in T : m <= n
<1>1. PICK m \in T : \A n \in T : <<n, m>> \notin OpToRel(<, Nat)
  BY NatLessThanWellFounded, WFMin
<1>2. ASSUME NEW n \in T PROVE m <= n
  <2>1. <<n, m>> \notin {ss \in Nat \X Nat : ss[1] < ss[2]}
    BY <1>1 DEF OpToRel
  <2> QED BY <2>1
<1> QED BY <1>2

\* Products of numbers are numbers.
LEMMA NatProduct == \A a, b \in Nat : a * b \in Nat
  BY SMT

\* As many times a number stay below more times of it only when they are fewer.
LEMMA Below ==
    ASSUME NEW q \in Nat, NEW k \in Nat, NEW n \in Nat, q * k < n * k
    PROVE  q + 1 <= n
<1>1. CASE q + 1 <= n
  BY <1>1
<1>2. CASE n <= q
  <2>1. PICK d \in Nat : q = n + d
    <3>1. q - n \in Nat /\ q = n + (q - n)
      BY <1>2
    <3> QED BY <3>1
  <2>2. q * k = n * k + d * k
    BY <2>1
  <2>3. d * k \in Nat /\ n * k \in Nat
    BY NatProduct
  <2> QED BY <2>2, <2>3
<1> QED BY <1>1, <1>2

\* A posting sits on the ring (PositionOfPosting).
LEMMA PostingOnRing ==
    ASSUME NEW p \in Posting
    PROVE  PositionOfPosting(p) \in Position
<1>1. PICK s \in Nat : s = PartitionSize
  BY RingAssumption DEF PartitionSize
<1>2. s # 0 /\ RingSize = Partitions * s
  BY <1>1, RingAssumption DEF PartitionSize
<1>3. PICK w \in 0 .. RingSize - 1, u \in 0 .. RingSize - 1 : w = WordOf(p) /\ u = URLOf(p)
  BY RingAssumption DEF Posting, WordOf, URLOf
<1>4. PICK r : r = w % s
  OBVIOUS
<1>5. r \in 0 .. s - 1
  BY <1>2, <1>4
<1>6. PICK q : q = u \div s
  OBVIOUS
<1>7. q \in Nat /\ q * s <= u
  BY <1>2, <1>6
<1>8. q + 1 <= Partitions
  BY <1>2, <1>7, Below, RingAssumption
<1>9. q * s + s <= Partitions * s
  <2>1. PICK d \in Nat : Partitions = q + 1 + d
    <3>1. Partitions - (q + 1) \in Nat /\ Partitions = q + 1 + (Partitions - (q + 1))
      BY <1>7, <1>8, RingAssumption
    <3> QED BY <3>1
  <2>2. Partitions * s = q * s + s + d * s
    BY <1>1, <1>7, <2>1
  <2>3. d * s \in Nat /\ q * s \in Nat
    BY <1>1, <1>7, <2>1, NatProduct
  <2> QED BY <1>1, <2>2, <2>3
<1>10. PositionOfPosting(p) = r + q * s
  BY <1>1, <1>3, <1>4, <1>6 DEF PositionOfPosting
<1> QED BY <1>1, <1>2, <1>5, <1>7, <1>8, <1>9, <1>10 DEF Position

\* Distances on the ring are numbers, and tell positions apart; going forward
\* around the ring takes as many steps (DistanceTo).
LEMMA Distances ==
    ASSUME NEW p \in Position
    PROVE  /\ \A x \in Position : DistanceTo(p, x) \in Nat /\ DistanceTo(p, x) = (x - p) % RingSize
           /\ \A x, y \in Position : DistanceTo(p, x) = DistanceTo(p, y) => x = y
<1>1. ASSUME NEW x \in Position
      PROVE  DistanceTo(p, x) \in Nat /\ DistanceTo(p, x) = (x - p) % RingSize
  <2>1. p \in 0 .. RingSize - 1 /\ x \in 0 .. RingSize - 1 /\ RingSize \in Nat \ {0}
    BY RingAssumption DEF Position
  <2>2. CASE x >= p
    <3>1. PICK a \in 0 .. RingSize - 1 : a = x - p
      BY <2>1, <2>2
    <3>2. a % RingSize = a
      BY <2>1
    <3> QED BY <2>1, <2>2, <3>1, <3>2 DEF DistanceTo
  <2>3. CASE ~(x >= p)
    <3>1. PICK a \in -(RingSize - 1) .. -1 : a = x - p
      BY <2>1, <2>3
    <3>2. a % RingSize = a + RingSize
      BY <2>1
    <3> QED BY <2>1, <2>3, <3>1, <3>2 DEF DistanceTo
  <2> QED BY <2>2, <2>3
<1>2. ASSUME NEW x \in Position, NEW y \in Position, DistanceTo(p, x) = DistanceTo(p, y)
      PROVE  x = y
  BY <1>2, RingAssumption DEF Position, DistanceTo
<1> QED BY <1>1, <1>2

\* How many peers are closer to a position than one.
PlaceOf(peers, p, x) == Cardinality({y \in peers : CloserToPosition(y, x, p)})

\* Ranks of finitely many peers are numbers, and follow the distances.
LEMMA Ranks ==
    ASSUME NEW p \in Position, NEW peers \in SUBSET Position, IsFiniteSet(peers)
    PROVE  /\ \A x \in Position : PlaceOf(peers, p, x) \in Nat
           /\ \A x, y \in Position :
                 DistanceTo(p, x) <= DistanceTo(p, y) => PlaceOf(peers, p, x) <= PlaceOf(peers, p, y)
           /\ \A x \in peers, y \in Position :
                 DistanceTo(p, x) < DistanceTo(p, y) => PlaceOf(peers, p, x) + 1 <= PlaceOf(peers, p, y)
<1> DEFINE Closer(x) == {y \in peers : CloserToPosition(y, x, p)}
<1>1. ASSUME NEW x \in Position
      PROVE  IsFiniteSet(Closer(x)) /\ Cardinality(Closer(x)) \in Nat
  BY FS_Subset, FS_CardinalityType
<1>2. ASSUME NEW x \in Position, NEW y \in Position, DistanceTo(p, x) <= DistanceTo(p, y)
      PROVE  Closer(x) \in SUBSET Closer(y)
  BY <1>2, Distances DEF CloserToPosition
<1>3. ASSUME NEW x \in peers, NEW y \in Position, DistanceTo(p, x) < DistanceTo(p, y)
      PROVE  Cardinality(Closer(x)) + 1 <= Cardinality(Closer(y))
  <2>1. x \in Position /\ DistanceTo(p, x) \in Nat /\ DistanceTo(p, y) \in Nat
    BY Distances
  <2>2. x \notin Closer(x) /\ Closer(x) \cup {x} \in SUBSET Closer(y)
    BY <1>2, <1>3, <2>1 DEF CloserToPosition
  <2>3. Cardinality(Closer(x) \cup {x}) = Cardinality(Closer(x)) + 1
    BY <1>1, <2>1, <2>2, FS_AddElement
  <2>4. Cardinality(Closer(x) \cup {x}) <= Cardinality(Closer(y))
    BY <1>1, <2>2, FS_Subset
  <2> QED BY <2>3, <2>4
<1>4. \A x \in Position : PlaceOf(peers, p, x) = Cardinality(Closer(x))
  BY DEF PlaceOf
<1>5. ASSUME NEW x \in Position, NEW y \in Position, DistanceTo(p, x) <= DistanceTo(p, y)
      PROVE  Cardinality(Closer(x)) <= Cardinality(Closer(y))
  BY <1>1, <1>2, <1>5, FS_Subset
<1> HIDE DEF Closer
<1> QED BY <1>1, <1>3, <1>4, <1>5

\* The closest peers are as many as wanted, unless they are all there are
\* (SeedsClosestToDHTRingPosition).
LEMMA ClosestFill ==
    ASSUME NEW p \in Position, NEW peers \in SUBSET Position, IsFiniteSet(peers), NEW want \in Int,
           Cardinality(ClosestTo(peers, p, want)) < want
    PROVE  ClosestTo(peers, p, want) = peers
<1> DEFINE closest == ClosestTo(peers, p, want)
           rest == peers \ closest
<1>1. closest \in SUBSET peers /\ \A x \in peers : x \in closest <=> PlaceOf(peers, p, x) < want
  BY DEF ClosestTo, PlaceOf
<1>2. IsFiniteSet(closest) /\ Cardinality(closest) \in Nat
  BY <1>1, FS_Subset, FS_CardinalityType
<1> HIDE DEF closest
<1>3. ASSUME rest # {} PROVE FALSE
  <2>1. {DistanceTo(p, x) : x \in rest} \in SUBSET Nat /\ {DistanceTo(p, x) : x \in rest} # {}
    BY <1>3, Distances
  <2>2. PICK m \in rest : \A x \in rest : DistanceTo(p, m) <= DistanceTo(p, x)
    <3>1. PICK d \in {DistanceTo(p, x) : x \in rest} : \A e \in {DistanceTo(p, x) : x \in rest} : d <= e
      BY <2>1, Least
    <3> QED BY <3>1
  <2>3. {y \in peers : CloserToPosition(y, m, p)} \in SUBSET closest
    <3>1. ASSUME NEW y \in rest, DistanceTo(p, y) < DistanceTo(p, m) PROVE FALSE
      <4>1. DistanceTo(p, y) \in Nat /\ DistanceTo(p, m) \in Nat
        BY Distances
      <4> QED BY <2>2, <3>1, <4>1
    <3> QED BY <3>1 DEF CloserToPosition
  <2>4. PlaceOf(peers, p, m) <= Cardinality(closest)
    BY <1>2, <2>3, FS_Subset DEF PlaceOf
  <2>5. PlaceOf(peers, p, m) \in Nat
    BY Ranks
  <2>6. Cardinality(closest) < want
    BY DEF closest
  <2> QED BY <1>1, <1>2, <2>4, <2>5, <2>6
<1> QED BY <1>1, <1>3 DEF closest

\* The window contains the peers closest to the posting as wanted, and of the
\* others only those no farther than one of them (Window.Contains).
LEMMA WindowIsClosest ==
    ASSUME NEW p \in Position, NEW accepting \in SUBSET Peers, RequiredReplicas(p, accepting) > 0
    PROVE  /\ WindowPeers(p, accepting) \in SUBSET accepting
           /\ \A x \in accepting : x \in WindowPeers(p, accepting) <=>
                 PlaceOf(accepting, p, x) < RequiredReplicas(p, accepting)
           /\ \A x \in accepting : WindowContains(p, accepting, x) <=> x \in WindowPeers(p, accepting)
           /\ Cardinality(WindowPeers(p, accepting)) < RequiredReplicas(p, accepting)
                 => WindowPeers(p, accepting) = accepting
<1> DEFINE required == RequiredReplicas(p, accepting)
           closest == WindowPeers(p, accepting)
<1>1. required \in Nat \ {0}
  BY WindowAssumption DEF RequiredReplicas
<1>2. accepting \in SUBSET Position /\ IsFiniteSet(accepting)
  BY WindowAssumption, FS_Subset
<1>3. closest \in SUBSET accepting /\ \A x \in accepting : x \in closest <=> PlaceOf(accepting, p, x) < required
  BY DEF WindowPeers, ClosestTo, PlaceOf
<1>4. Cardinality(closest) < required => closest = accepting
  BY <1>1, <1>2, ClosestFill DEF WindowPeers
<1>5. ASSUME NEW x \in accepting
      PROVE  WindowContains(p, accepting, x) <=> x \in closest
  <2>1. WindowContains(p, accepting, x) <=>
           \/ Cardinality(closest) < required
           \/ \E far \in closest : DistanceTo(p, x) <= DistanceTo(p, far)
    BY <1>1 DEF WindowContains
  <2>2. ASSUME NEW far \in closest, DistanceTo(p, x) <= DistanceTo(p, far) PROVE x \in closest
    <3>1. PlaceOf(accepting, p, x) <= PlaceOf(accepting, p, far) /\ PlaceOf(accepting, p, far) < required
      BY <1>2, <1>3, <2>2, Ranks
    <3>2. PlaceOf(accepting, p, x) \in Nat /\ PlaceOf(accepting, p, far) \in Nat
      BY <1>2, <1>3, Ranks
    <3> QED BY <1>1, <1>3, <3>1, <3>2
  <2>3. DistanceTo(p, x) <= DistanceTo(p, x)
    BY <1>2, Distances
  <2> QED BY <1>4, <2>1, <2>2, <2>3
<1> QED BY <1>3, <1>4, <1>5

----------------------------------------------------------------------------
\* Every case is of a posting, of contacts with the peers and of recorded peers.

CasesTyped ==
    /\ posting \in Posting
    /\ contact \in [Peers -> Contacts]
    /\ recorded \in SUBSET Peers

\* Whoever comes and goes.
LEMMA CasesStayTyped ==
    /\ Init => CasesTyped
    /\ CasesTyped /\ [Next]_vars => CasesTyped'
<1>1. Init => CasesTyped
  BY DEF Init, CasesTyped, Contacts
<1>2. CasesTyped /\ [Next]_vars => CasesTyped'
  BY DEF CasesTyped, Next, ContactChanges, RecordChanges, vars
<1> QED BY <1>1, <1>2

\* What is computed is of positions on the ring and of finitely many peers.
LEMMA CasesOnRing ==
    ASSUME CasesTyped
    PROVE  /\ position \in Position /\ Self \in Position /\ Peers \in SUBSET (Position \ {Self})
           /\ Accepting \in SUBSET Peers /\ Accepting \in SUBSET Reachable
           /\ Eligible \in SUBSET Accepting /\ Reachable \in SUBSET Peers
           /\ IsFiniteSet(Peers) /\ IsFiniteSet(Accepting) /\ IsFiniteSet(Reachable)
           /\ IsFiniteSet(Eligible) /\ IsFiniteSet(recorded)
<1>1. position \in Position
  BY PostingOnRing DEF CasesTyped, position
<1>2. /\ Accepting \in SUBSET Peers /\ Accepting \in SUBSET Reachable
      /\ Eligible \in SUBSET Accepting /\ Reachable \in SUBSET Peers
  BY DEF Accepting, Eligible, Reachable, PeersIn
<1> QED BY <1>1, <1>2, WindowAssumption, FS_Subset DEF CasesTyped

\* The nodes closer to the posting than one, this node among them.
Before(x) == {y \in Accepting \cup {Self} : Steps(y) < Steps(x)}

\* This node is responsible unless peers enough are closer; another node is when
\* fewer are closer than the redundancy.
LEMMA WhoIsResponsible ==
    ASSUME CasesTyped
    PROVE  /\ Self \in Responsible <=> Cardinality(CloserThanSelf(Accepting, position)) < Redundancy
           /\ Responsible \ {Self} \in SUBSET Accepting
           /\ \A x \in Accepting : x \in Responsible <=>
                 PlaceOf(Accepting, position, x)
                    + (IF DistanceTo(position, Self) < DistanceTo(position, x) THEN 1 ELSE 0)
                 < Redundancy
           /\ Cardinality(CloserThanSelf(Accepting, position)) = PlaceOf(Accepting, position, Self)
<1> DEFINE D(x) == DistanceTo(position, x)
<1>1. \A x \in Accepting \cup {Self} : D(x) \in Nat /\ D(x) = Steps(x)
  BY CasesOnRing, Distances DEF Steps
<1>2. \A x \in Accepting \cup {Self} : x \in Responsible <=> Cardinality(Before(x)) < Redundancy
  BY DEF Responsible, Before
<1>3. Before(Self) = CloserThanSelf(Accepting, position)
  BY <1>1 DEF Before, CloserThanSelf, CloserToPosition
<1>4. ASSUME NEW x \in Accepting
      PROVE  Cardinality(Before(x)) = PlaceOf(Accepting, position, x) + (IF D(Self) < D(x) THEN 1 ELSE 0)
  <2>1. PICK C : C = {y \in Accepting : CloserToPosition(y, x, position)}
    OBVIOUS
  <2>2. IsFiniteSet(C) /\ Cardinality(C) \in Nat /\ Self \notin C
    BY <2>1, CasesOnRing, FS_Subset, FS_CardinalityType
  <2>3. Before(x) = IF D(Self) < D(x) THEN C \cup {Self} ELSE C
    BY <1>1, <2>1 DEF Before, CloserToPosition
  <2>4. Cardinality(C \cup {Self}) = Cardinality(C) + 1
    BY <2>2, FS_AddElement
  <2> QED BY <2>1, <2>2, <2>3, <2>4 DEF PlaceOf
<1>5. Responsible \ {Self} \in SUBSET Accepting
  BY DEF Responsible
<1>6. Cardinality(CloserThanSelf(Accepting, position)) = PlaceOf(Accepting, position, Self)
  BY DEF CloserThanSelf, PlaceOf
<1> QED BY <1>2, <1>3, <1>4, <1>5, <1>6

\* The peers closest to the posting, as many as replicas are required, are the
\* nodes responsible for it but this one.
LEMMA ClosestAreResponsible ==
    ASSUME CasesTyped, NEW x \in Accepting
    PROVE  x \in Responsible <=>
              PlaceOf(Accepting, position, x) < RequiredReplicas(position, Accepting)
<1> DEFINE D(y) == DistanceTo(position, y)
           rank(y) == PlaceOf(Accepting, position, y)
<1>1. /\ x \in Position /\ Self \in Position /\ x # Self /\ D(x) \in Nat /\ D(Self) \in Nat
      /\ D(x) # D(Self)
  BY CasesOnRing, Distances
<1>2. rank(x) \in Nat /\ rank(Self) \in Nat /\ Redundancy \in Nat \ {0}
  BY <1>1, CasesOnRing, Ranks, WindowAssumption
<1>3. /\ x \in Responsible <=> rank(x) + (IF D(Self) < D(x) THEN 1 ELSE 0) < Redundancy
      /\ RequiredReplicas(position, Accepting) =
            IF rank(Self) < Redundancy THEN Redundancy - 1 ELSE Redundancy
  BY WhoIsResponsible DEF RequiredReplicas
<1>4. ASSUME D(x) < D(Self)
      PROVE  x \in Responsible <=> rank(x) < RequiredReplicas(position, Accepting)
  <2>1. rank(x) + 1 <= rank(Self)
    BY <1>1, <1>4, CasesOnRing, Ranks
  <2> HIDE DEF rank
  <2> QED BY <1>1, <1>2, <1>3, <1>4, <2>1
<1>5. ASSUME D(Self) < D(x)
      PROVE  x \in Responsible <=> rank(x) < RequiredReplicas(position, Accepting)
  <2>1. rank(Self) <= rank(x)
    BY <1>1, <1>5, CasesOnRing, Ranks
  <2> HIDE DEF rank
  <2> QED BY <1>1, <1>2, <1>3, <1>5, <2>1
<1> QED BY <1>1, <1>4, <1>5

\* The replicas required and this node's own make up the redundancy, and those
\* who owe one are the nodes responsible.
LEMMA WindowFollowsRing ==
    ASSUME CasesTyped
    PROVE  /\ RequiredReplicas(position, Accepting) + Cardinality(Responsible \cap {Self}) = Redundancy
           /\ RequiredReplicas(position, Accepting) > 0 =>
                {x \in Accepting : WindowContains(position, Accepting, x)} = Responsible \ {Self}
<1>1. Redundancy \in Nat \ {0} /\ Cardinality({}) = 0 /\ Cardinality({Self}) = 1
  BY WindowAssumption, FS_EmptySet, FS_Singleton
<1>2. RequiredReplicas(position, Accepting) + Cardinality(Responsible \cap {Self}) = Redundancy
  <2>1. CASE Self \in Responsible
    <3>1. Responsible \cap {Self} = {Self}
      BY <2>1
    <3>2. RequiredReplicas(position, Accepting) = Redundancy - 1
      BY <2>1, WhoIsResponsible DEF RequiredReplicas
    <3> QED BY <1>1, <3>1, <3>2
  <2>2. CASE Self \notin Responsible
    <3>1. Responsible \cap {Self} = {}
      BY <2>2
    <3>2. RequiredReplicas(position, Accepting) = Redundancy
      BY <2>2, WhoIsResponsible DEF RequiredReplicas
    <3> QED BY <1>1, <3>1, <3>2
  <2> QED BY <2>1, <2>2
<1>3. ASSUME RequiredReplicas(position, Accepting) > 0
      PROVE  {x \in Accepting : WindowContains(position, Accepting, x)} = Responsible \ {Self}
  <2>1. \A x \in Accepting : WindowContains(position, Accepting, x) <=> x \in Responsible
    <3>1. ASSUME NEW x \in Accepting
          PROVE  WindowContains(position, Accepting, x) <=>
                    PlaceOf(Accepting, position, x) < RequiredReplicas(position, Accepting)
      BY <1>3, CasesOnRing, WindowIsClosest
    <3> QED BY <3>1, ClosestAreResponsible
  <2>2. Responsible \ {Self} \in SUBSET Accepting /\ Self \notin Accepting
    BY WhoIsResponsible, CasesOnRing
  <2> QED BY <2>1, <2>2
<1> QED BY <1>2, <1>3

\* A node that is not responsible has all of its window closer to the posting:
\* the holders inside count for the hand-off.
LEMMA HandOffFollows ==
    ASSUME CasesTyped
    PROVE  RedundancyAllowsHandOff
<1> SUFFICES ASSUME Self \notin Responsible, Cardinality(Inside \cap Reachable) >= Redundancy
             PROVE  MayHandOff(position, recorded, Reachable)
  BY DEF RedundancyAllowsHandOff
<1> DEFINE D(y) == DistanceTo(position, y)
           closer == CloserThanSelf(recorded \cap Reachable, position)
<1>1. Redundancy \in Nat \ {0} /\ RequiredReplicas(position, Accepting) = Redundancy
  BY WhoIsResponsible, WindowAssumption DEF RequiredReplicas
<1>2. Cardinality(CloserThanSelf(Accepting, position)) >= Redundancy
  <2>1. Cardinality(CloserThanSelf(Accepting, position)) \in Nat
    BY WhoIsResponsible, CasesOnRing, Ranks
  <2> QED BY <1>1, <2>1, WhoIsResponsible
<1>3. ~(Cardinality(WindowPeers(position, Accepting)) < Redundancy)
  <2>1. ASSUME Cardinality(WindowPeers(position, Accepting)) < Redundancy PROVE FALSE
    <3>1. WindowPeers(position, Accepting) = Accepting
      BY <1>1, <2>1, CasesOnRing, WindowIsClosest
    <3>2. CloserThanSelf(Accepting, position) \in SUBSET Accepting
      BY DEF CloserThanSelf
    <3>3. /\ Cardinality(CloserThanSelf(Accepting, position)) <= Cardinality(Accepting)
          /\ Cardinality(CloserThanSelf(Accepting, position)) \in Nat /\ Cardinality(Accepting) \in Nat
      BY <3>2, CasesOnRing, FS_Subset, FS_CardinalityType
    <3> QED BY <1>1, <1>2, <2>1, <3>1, <3>3
  <2> QED BY <2>1
<1>4. ASSUME NEW far \in WindowPeers(position, Accepting) PROVE D(far) < D(Self)
  <2>1. far \in Accepting /\ PlaceOf(Accepting, position, far) < Redundancy
    BY <1>1 DEF WindowPeers, ClosestTo, PlaceOf
  <2>2. /\ far \in Position /\ Self \in Position /\ far # Self
        /\ D(far) \in Nat /\ D(Self) \in Nat /\ D(far) # D(Self)
    BY <2>1, CasesOnRing, Distances
  <2>3. ASSUME D(Self) <= D(far) PROVE FALSE
    <3>1. PlaceOf(Accepting, position, Self) <= PlaceOf(Accepting, position, far)
      BY <2>2, <2>3, CasesOnRing, Ranks
    <3>2. PlaceOf(Accepting, position, Self) \in Nat /\ PlaceOf(Accepting, position, far) \in Nat
      BY <2>2, CasesOnRing, Ranks
    <3> QED BY <1>1, <1>2, <2>1, <3>1, <3>2, WhoIsResponsible
  <2> QED BY <2>2, <2>3
<1>5. Inside \cap Reachable \in SUBSET closer
  <2> SUFFICES ASSUME NEW x \in Inside \cap Reachable PROVE x \in closer
    OBVIOUS
  <2>1. x \in recorded \cap Reachable /\ WindowContains(position, Accepting, x)
    BY DEF Inside, HoldersInside
  <2>2. PICK far \in WindowPeers(position, Accepting) : D(x) <= D(far)
    BY <1>1, <1>3, <2>1 DEF WindowContains
  <2>3. D(far) < D(Self)
    BY <1>4
  <2>4. D(x) \in Nat /\ D(far) \in Nat /\ D(Self) \in Nat
    <3>1. far \in Accepting
      BY DEF WindowPeers, ClosestTo
    <3> QED BY <2>1, <3>1, CasesOnRing, Distances
  <2> QED BY <2>1, <2>2, <2>3, <2>4 DEF CloserThanSelf, CloserToPosition
<1>6. IsFiniteSet(closer) /\ Cardinality(closer) \in Nat
  <2>1. closer \in SUBSET recorded
    BY DEF CloserThanSelf
  <2> QED BY <2>1, CasesOnRing, FS_Subset, FS_CardinalityType
<1>7. /\ Cardinality(Inside \cap Reachable) <= Cardinality(closer)
      /\ Cardinality(Inside \cap Reachable) \in Nat
  BY <1>5, <1>6, FS_Subset, FS_CardinalityType
<1> QED BY <1>1, <1>6, <1>7 DEF MayHandOff

\* Wherever on the ring this node, its peers and a posting are, whoever of them
\* accepts: the window is what the DHT makes peers responsible for, and only its
\* holders let a node that is not responsible hand the posting off.
THEOREM WindowIsSound == Spec => []WindowIsResponsibility
<1>1. CasesTyped => WindowIsResponsibility
  BY WindowFollowsRing, HandOffFollows DEF WindowIsResponsibility
<1> QED BY <1>1, CasesStayTyped, PTL DEF Spec

\* What an offer leaves out of the ledger no credible holder inside the window is
\* in, and the peers it asks make up what is missing, or are all there are.
LEMMA OfferRestores ==
    ASSUME CasesTyped
    PROVE  RoundRestoresRedundancy
<1> DEFINE required == RequiredReplicas(position, Accepting)
           outside == HoldersOutside(position, recorded, Reachable, Accepting)
           expired == ExpiredHolders(recorded, Reachable, Recent)
           missing == required - Cardinality(Inside)
           after == (recorded \ Offer.stale) \cup Offer.peers
<1>1. /\ Inside \in SUBSET recorded /\ Inside \cap outside = {} /\ Inside \cap expired = {}
      /\ outside \in SUBSET recorded /\ outside \cap expired = {} /\ expired \in SUBSET recorded
  BY DEF Inside, HoldersInside, HoldersOutside, ExpiredHolders
<1>2. /\ IsFiniteSet(Inside) /\ Cardinality(Inside) \in Nat /\ required \in Nat
  BY <1>1, CasesOnRing, FS_Subset, FS_CardinalityType, WindowAssumption DEF RequiredReplicas
<1>3. /\ missing <= 0 => Offer = [peers |-> Accepting \cap Inside, needed |-> 0,
                                  stale |-> expired \cup outside]
      /\ ~(missing <= 0) =>
            Offer = [peers |-> ClosestTo(Eligible \ (Inside \cup outside), position, missing),
                     needed |-> missing, stale |-> expired]
  BY DEF Offer, OfferFor, Inside
<1>4. CASE missing <= 0
  <2>1. Offer.peers = Accepting \cap Inside /\ Offer.stale = expired \cup outside
    BY <1>3, <1>4
  <2>2. Inside \cup Offer.peers = Inside
    BY <2>1
  <2>3. Cardinality(Inside \cup Offer.peers) >= required
    BY <1>2, <1>4, <2>2
  <2>4. Inside \subseteq after /\ after \cap expired \subseteq Offer.peers
    BY <1>1, <2>1
  <2> QED BY <2>3, <2>4 DEF RoundRestoresRedundancy
<1>5. CASE ~(missing <= 0)
  <2>1. PICK asked : asked = Eligible \ (Inside \cup outside)
    OBVIOUS
  <2>2. Offer.peers = ClosestTo(asked, position, missing) /\ Offer.stale = expired
    BY <1>3, <1>5, <2>1
  <2>3. Inside \subseteq after /\ after \cap expired \subseteq Offer.peers
    BY <1>1, <2>2
  <2>4. /\ Offer.peers \in SUBSET asked /\ Inside \cap Offer.peers = {}
        /\ asked \in SUBSET Position /\ IsFiniteSet(asked)
    BY <2>1, <2>2, CasesOnRing, FS_Subset DEF ClosestTo
  <2>5. IsFiniteSet(Offer.peers) /\ Cardinality(Offer.peers) \in Nat
    BY <2>4, FS_Subset, FS_CardinalityType
  <2>6. CASE Cardinality(Offer.peers) >= missing
    <3>1. Cardinality(Inside \cup Offer.peers) =
             Cardinality(Inside) + Cardinality(Offer.peers) - Cardinality({})
      BY <1>2, <2>4, <2>5, FS_Union
    <3>2. Cardinality(Inside \cup Offer.peers) >= required
      BY <1>2, <2>5, <2>6, <3>1, FS_EmptySet
    <3> QED BY <2>3, <3>2 DEF RoundRestoresRedundancy
  <2>7. CASE ~(Cardinality(Offer.peers) >= missing)
    <3>1. Cardinality(ClosestTo(asked, position, missing)) < missing /\ missing \in Int
      BY <1>2, <2>2, <2>5, <2>7
    <3>2. Offer.peers = asked
      BY <2>2, <2>4, <3>1, CasesOnRing, ClosestFill
    <3>3. Eligible \subseteq after
      BY <1>1, <2>1, <2>2, <2>3, <3>2
    <3> QED BY <2>3, <3>3 DEF RoundRestoresRedundancy
  <2> QED BY <2>6, <2>7
<1> QED BY <1>4, <1>5

\* Whatever the ledger records of peers that come and go: a round whose peers all
\* accept leaves the posting with its replicas, or no peer to ask is left.
THEOREM RoundsRestore == Spec => []RoundRestoresRedundancy
<1>1. CasesTyped => RoundRestoresRedundancy
  BY OfferRestores
<1> QED BY <1>1, CasesStayTyped, PTL DEF Spec

----------------------------------------------------------------------------
\* The abstracts of a search.

\* An index holds postings of documents, and a request asks for terms of it, for
\* some number of results.
SearchTypeInv ==
    /\ DOMAIN index = Terms
    /\ \A t \in Terms : /\ DOMAIN index[t] \subseteq Documents
                        /\ \A d \in DOMAIN index[t] : index[t][d] \in PostingFields
    /\ criteria.terms \in Seq(Terms)
    /\ {"terms", "maxResults", "maxTermSpread"} \subseteq DOMAIN criteria
    /\ criteria.maxResults \in Nat \ {0} /\ criteria.maxTermSpread \in Int
    /\ criteria.excluded \subseteq Terms

\* Whatever the index gets or loses.
LEMMA SearchStaysTyped ==
    /\ SearchInit => SearchTypeInv
    /\ SearchTypeInv /\ [IndexChanges]_searchVars => SearchTypeInv'
<1>1. ASSUME SearchInit PROVE SearchTypeInv
  <2>1. PICK q \in Queries, f \in Filters, l \in Limits : criteria = Criteria(q, f, l)
    BY <1>1 DEF SearchInit, Requests
  <2>2. criteria.terms \in Seq(Terms) /\ criteria.excluded \subseteq Terms
        /\ {"terms", "maxResults", "maxTermSpread"} \subseteq DOMAIN criteria
    BY <2>1, SearchAssumption DEF Criteria
  <2>3. l[1] \in Int /\ l[2] \in Int
    BY SearchAssumption
  <2>4. criteria.maxResults \in Nat \ {0} /\ criteria.maxTermSpread \in Int
    BY <2>1, <2>3 DEF Criteria, DefaultSearchCount
  <2>5. DOMAIN index = Terms /\ \A t \in Terms : DOMAIN index[t] = {}
    BY <1>1 DEF SearchInit, NoPostings
  <2> QED BY <2>2, <2>4, <2>5 DEF SearchTypeInv
<1>2. ASSUME SearchTypeInv, [IndexChanges]_searchVars PROVE SearchTypeInv'
  <2>1. CASE IndexChanges
    <3>1. PICK t \in Terms : index'[t] \in UNION {[documents -> PostingFields] : documents \in SUBSET Documents}
                             /\ DOMAIN index' = Terms /\ \A u \in Terms \ {t} : index'[u] = index[u]
      <4>1. PICK t \in Terms, d \in Documents :
              \/ \E p \in Postings : index' = [index EXCEPT ![t] =
                    [e \in DOMAIN index[t] \cup {d} |-> IF e = d THEN p ELSE index[t][e]]]
              \/ index' = [index EXCEPT ![t] = [e \in DOMAIN index[t] \ {d} |-> index[t][e]]]
        BY <1>2, <2>1 DEF IndexChanges, SearchTypeInv
      <4>2. /\ DOMAIN index[t] \cup {d} \in SUBSET Documents /\ DOMAIN index[t] \ {d} \in SUBSET Documents
            /\ \A e \in DOMAIN index[t] : index[t][e] \in PostingFields
            /\ DOMAIN index = Terms
        BY <1>2 DEF SearchTypeInv
      <4>3. CASE \E p \in Postings : index' = [index EXCEPT ![t] =
                    [e \in DOMAIN index[t] \cup {d} |-> IF e = d THEN p ELSE index[t][e]]]
        <5>1. PICK p \in Postings : index' = [index EXCEPT ![t] =
                    [e \in DOMAIN index[t] \cup {d} |-> IF e = d THEN p ELSE index[t][e]]]
          BY <4>3
        <5>2. p \in PostingFields
          BY SearchAssumption
        <5> DEFINE postings == [e \in DOMAIN index[t] \cup {d} |-> IF e = d THEN p ELSE index[t][e]]
        <5>3. postings \in [DOMAIN index[t] \cup {d} -> PostingFields]
          BY <4>2, <5>2
        <5>4. index'[t] = postings /\ DOMAIN index' = Terms /\ \A u \in Terms \ {t} : index'[u] = index[u]
          BY <4>2, <5>1
        <5> QED BY <4>2, <5>3, <5>4
      <4>4. CASE index' = [index EXCEPT ![t] = [e \in DOMAIN index[t] \ {d} |-> index[t][e]]]
        <5> DEFINE postings == [e \in DOMAIN index[t] \ {d} |-> index[t][e]]
        <5>1. postings \in [DOMAIN index[t] \ {d} -> PostingFields]
          BY <4>2
        <5>2. index'[t] = postings /\ DOMAIN index' = Terms /\ \A u \in Terms \ {t} : index'[u] = index[u]
          BY <4>2, <4>4
        <5> QED BY <4>2, <5>1, <5>2
      <4> QED BY <4>1, <4>3, <4>4
    <3>2. PICK documents \in SUBSET Documents : index'[t] \in [documents -> PostingFields]
      BY <3>1
    <3>3. \A u \in Terms : /\ DOMAIN index'[u] \subseteq Documents
                           /\ \A d \in DOMAIN index'[u] : index'[u][d] \in PostingFields
      BY <1>2, <3>1, <3>2 DEF SearchTypeInv
    <3>4. criteria' = criteria
      BY <2>1 DEF IndexChanges
    <3> QED BY <1>2, <3>1, <3>3, <3>4 DEF SearchTypeInv
  <2>2. CASE UNCHANGED searchVars
    BY <1>2, <2>2 DEF SearchTypeInv, searchVars
  <2> QED BY <1>2, <2>1, <2>2
<1> QED BY <1>1, <1>2

\* With no bound, what is kept of each term is what is accepted of it.
LEMMA KeptIsAccepted ==
    ASSUME NEW asked, NEW excludedDocuments, NEW some
    PROVE  /\ \A kept \in KeptFor(index, asked, excludedDocuments, NoCap, some) :
                 /\ DOMAIN kept = some
                 /\ \A t \in some : DOMAIN kept[t] = Accepted(index, asked, excludedDocuments, t)
           /\ KeptFor(index, asked, excludedDocuments, NoCap, some) # {}
<1> DEFINE accepted(t) == Accepted(index, asked, excludedDocuments, t)
           candidates(t) == MostFrequent(index[t], accepted(t), NoCap)
           choices == {c \in [some -> UNION {candidates(t) : t \in some}] :
                         \A t \in some : c[t] \in candidates(t)}
<1>1. \A t : candidates(t) = {accepted(t)}
  BY DEF MostFrequent, NoCap
<1>2. KeptFor(index, asked, excludedDocuments, NoCap, some) =
         {[t \in some |-> [d \in choice[t] |-> index[t][d]]] : choice \in choices}
  BY DEF KeptFor
<1>3. [t \in some |-> accepted(t)] \in choices
  <2> HIDE DEF accepted, candidates
  <2> QED BY <1>1
<1>4. \A choice \in choices : \A t \in some : choice[t] = accepted(t)
  BY <1>1
<1> HIDE DEF accepted, choices
<1>5. KeptFor(index, asked, excludedDocuments, NoCap, some) # {}
  BY <1>2, <1>3
<1>6. ASSUME NEW kept \in KeptFor(index, asked, excludedDocuments, NoCap, some)
      PROVE  DOMAIN kept = some /\ \A t \in some : DOMAIN kept[t] = accepted(t)
  <2>1. PICK choice \in choices : kept = [t \in some |-> [d \in choice[t] |-> index[t][d]]]
    BY <1>2
  <2> QED BY <1>4, <2>1
<1> QED BY <1>5, <1>6 DEF accepted

\* The term of most postings is one of the query's (termWithMostPostings).
LEMMA MostPostingsExist ==
    ASSUME SearchTypeInv, NEW some \in SUBSET Terms, some # {}
    PROVE  TermWithMostPostings(index, some) \in some
<1> DEFINE held(t) == PostingsHeld(index, t)
           most == Cardinality(Documents)
<1>1. ASSUME NEW t \in some PROVE held(t) \in Nat /\ most \in Nat /\ most - held(t) \in Nat
  <2>1. DOMAIN index[t] \subseteq Documents /\ IsFiniteSet(Documents)
    BY SearchAssumption DEF SearchTypeInv
  <2>2. Cardinality(DOMAIN index[t]) \in Nat /\ Cardinality(Documents) \in Nat
        /\ Cardinality(DOMAIN index[t]) <= Cardinality(Documents)
    BY <2>1, FS_Subset, FS_CardinalityType
  <2> QED BY <2>2 DEF PostingsHeld
<1> HIDE DEF held, most
<1>2. PICK b \in some : \A t \in some : held(t) <= held(b)
  <2>1. {most - held(t) : t \in some} \in SUBSET Nat /\ {most - held(t) : t \in some} # {}
    BY <1>1
  <2>2. PICK m \in {most - held(t) : t \in some} : \A n \in {most - held(t) : t \in some} : m <= n
    BY <2>1, Least
  <2>3. PICK b \in some : m = most - held(b)
    BY <2>2
  <2>4. \A t \in some : most - held(b) <= most - held(t)
    BY <2>2, <2>3
  <2> QED BY <1>1, <2>4
<1>3. PICK t \in {u \in some : held(u) = held(b)} : \A u \in {v \in some : held(v) = held(b)} : t <= u
  BY SearchAssumption, Least
<1>4. \A u \in some \ {t} : held(t) > held(u) \/ (held(t) = held(u) /\ t < u)
  <2>1. ASSUME NEW u \in some \ {t} PROVE held(t) > held(u) \/ (held(t) = held(u) /\ t < u)
    <3>1. held(t) = held(b) /\ held(u) <= held(t) /\ held(t) \in Nat /\ held(u) \in Nat
      BY <1>1, <1>2, <1>3
    <3>2. CASE held(u) = held(t)
      <4>1. t <= u /\ t \in Nat /\ u \in Nat /\ t # u
        BY <1>3, <3>1, <3>2, SearchAssumption
      <4> QED BY <3>2, <4>1
    <3> QED BY <3>1, <3>2
  <2> QED BY <2>1
<1>5. \E v \in some : \A u \in some \ {v} :
         \/ PostingsHeld(index, v) > PostingsHeld(index, u)
         \/ (PostingsHeld(index, v) = PostingsHeld(index, u) /\ v < u)
  BY <1>3, <1>4 DEF held
<1> QED BY <1>5 DEF TermWithMostPostings

\* A report keeps what a search of its terms describes.
LEMMA ReportsName ==
    ASSUME SearchTypeInv, NEW kept \in KeptForReport(index, criteria, NoCap, terms)
    PROVE  LET abstracts == AbstractsOfTerms(kept)
               planned == {d \in Documents : \A t \in terms : d \in abstracts[t]}
           IN  /\ Described \subseteq planned
               /\ criteria.excluded = {} => planned = Described
<1>1. /\ DOMAIN kept = terms
      /\ \A t \in terms : DOMAIN kept[t] = Accepted(index, criteria, {}, t)
  BY KeptIsAccepted DEF KeptForReport
<1>2. \A t \in terms : AbstractsOfTerms(kept)[t] = Accepted(index, criteria, {}, t)
  BY <1>1 DEF AbstractsOfTerms
<1>3. Described =
        {d \in Documents : /\ \A t \in terms : d \in Accepted(index, criteria, {}, t)
                           /\ \A t \in criteria.excluded : d \notin DOMAIN index[t]}
  BY DEF Described, Accepted
<1> QED BY <1>2, <1>3

\* The abstract of the term with the most postings leaves out nothing described:
\* what a search drops beyond the criteria holds an excluded term.
LEMMA MostPostingsName ==
    ASSUME SearchTypeInv, NEW t \in DOMAIN AbstractOfMostPostings(index, criteria, Exact)
    PROVE  Described \subseteq AbstractOfMostPostings(index, criteria, Exact)[t]
<1> DEFINE term == TermWithMostPostings(index, terms)
           excluded == DocumentsContaining(index, criteria.excluded)
<1>1. /\ Len(criteria.terms) > 1
      /\ AbstractOfMostPostings(index, criteria, Exact) = [u \in {term} |-> DOMAIN Exact[u]]
  <2>1. Len(criteria.terms) \in Nat
    BY DEF SearchTypeInv
  <2>2. DOMAIN << >> = {}
    OBVIOUS
  <2> QED BY <2>1, <2>2 DEF AbstractOfMostPostings, terms
<1>2. terms \in SUBSET Terms /\ terms # {}
  <2>1. criteria.terms \in Seq(Terms) /\ Len(criteria.terms) \in Nat
    BY DEF SearchTypeInv
  <2>2. DOMAIN criteria.terms = 1 .. Len(criteria.terms) /\ 1 \in DOMAIN criteria.terms
    BY <1>1, <2>1
  <2>3. \A i \in DOMAIN criteria.terms : criteria.terms[i] \in Terms
    BY <2>1
  <2> QED BY <2>2, <2>3 DEF terms, Range
<1>3. term \in terms
  BY <1>2, MostPostingsExist
<1>4. Exact \in KeptFor(index, criteria, excluded, NoCap, terms)
  <2>1. KeptForSearch(index, criteria, NoCap) = KeptFor(index, criteria, excluded, NoCap, terms)
    BY DEF KeptForSearch, terms
  <2>2. KeptForSearch(index, criteria, NoCap) # {}
    BY <2>1, KeptIsAccepted
  <2> QED BY <2>1, <2>2 DEF Exact
<1>5. DOMAIN Exact[term] = Accepted(index, criteria, excluded, term)
  BY <1>3, <1>4, KeptIsAccepted
<1>6. Described \subseteq Accepted(index, criteria, excluded, term)
  <2>1. ASSUME NEW d \in Described PROVE d \in Accepted(index, criteria, excluded, term)
    <3>1. d \notin excluded
      BY DEF Described, DocumentsContaining
    <3>2. d \in DOMAIN index[term] /\ Accepts(criteria, {}, d, index[term][d])
      BY <1>3 DEF Described
    <3>3. Accepts(criteria, excluded, d, index[term][d])
      BY <3>1, <3>2 DEF Accepts
    <3> QED BY <3>2, <3>3 DEF Accepted
  <2> QED BY <2>1
<1> QED BY <1>1, <1>5, <1>6

\* Peers that plan a search by the abstracts of its terms plan for what a search
\* of them finds (TermWithMostPostings, abstracts of a search response), whatever
\* the index and the request.
THEOREM AbstractsPlan == SearchInit /\ [][IndexChanges]_searchVars => []AbstractsNameTheMatches
<1>1. SearchTypeInv => AbstractsNameTheMatches
  BY ReportsName, MostPostingsName DEF AbstractsNameTheMatches
<1> QED BY <1>1, SearchStaysTyped, PTL

----------------------------------------------------------------------------
\* The order of a set.

\* What holds of the first of some numbers, and of each after one it holds of,
\* holds of all.
LEMMA OneByOne ==
    ASSUME NEW n \in Nat, NEW S, n > 0 => 1 \in S,
           \A i \in 1 .. n - 1 : i \in S => i + 1 \in S
    PROVE  1 .. n \subseteq S
<1> SUFFICES ASSUME (1 .. n) \ S # {} PROVE FALSE
  OBVIOUS
<1> DEFINE T == (1 .. n) \ S
<1>1. PICK m \in T : \A k \in T : m <= k
  <2>1. T \in SUBSET Nat /\ T # {}
    OBVIOUS
  <2> QED BY <2>1, Least
<1>2. m \in 1 .. n /\ m # 1
  BY <1>1
<1>3. m - 1 \in 1 .. n - 1 /\ (m - 1) + 1 = m
  BY <1>2
<1>4. m - 1 \in S
  BY <1>1, <1>3
<1> QED BY <1>1, <1>3, <1>4

\* The order in which a relation sorts a set: it is there, it has each element
\* once, and an element's place counts those before it.
TotalOrder(R, S) ==
    /\ \A d \in S : <<d, d>> \notin R
    /\ \A d, e \in S : d # e => <<d, e>> \in R \/ <<e, d>> \in R
    /\ \A d, e, f \in S : <<d, e>> \in R /\ <<e, f>> \in R => <<d, f>> \in R

Sorted(order, R, S) ==
    /\ order \in [1 .. Cardinality(S) -> S]
    /\ \A i, j \in 1 .. Cardinality(S) : i < j => <<order[i], order[j]>> \in R

BeforeIn(R, S, d) == {e \in S : <<e, d>> \in R}

\* An element's place is one more than those before it, and each has one.
LEMMA PlacesCount ==
    ASSUME NEW S, IsFiniteSet(S), NEW R, TotalOrder(R, S), NEW order, Sorted(order, R, S)
    PROVE  /\ \A i \in 1 .. Cardinality(S) : Cardinality(BeforeIn(R, S, order[i])) = i - 1
           /\ \A d \in S : \E i \in 1 .. Cardinality(S) : order[i] = d
           /\ \A i, j \in 1 .. Cardinality(S) : <<order[i], order[j]>> \in R => i < j
<1> DEFINE n == Cardinality(S)
<1>0. n \in Nat
  BY FS_CardinalityType
<1>1. order \in [1 .. n -> S]
  BY DEF Sorted
<1>2. \A i, j \in 1 .. n : i < j => <<order[i], order[j]>> \in R
  BY DEF Sorted
<1> HIDE DEF n
<1>3. \A i, j \in 1 .. n : i # j => order[i] # order[j]
  <2>1. ASSUME NEW i \in 1 .. n, NEW j \in 1 .. n, i # j PROVE order[i] # order[j]
    <3>1. i < j \/ j < i
      BY <1>0, <2>1
    <3>2. order[i] \in S /\ order[j] \in S
      BY <1>1
    <3> QED BY <1>2, <3>1, <3>2 DEF TotalOrder
  <2> QED BY <2>1
<1>4. IsFiniteSet(1 .. n) /\ Cardinality(1 .. n) = n
  BY <1>0, FS_Interval
<1>5. order \in Injection(1 .. n, S)
  BY <1>1, <1>3 DEF Injection, IsInjective
<1>6. order \in Surjection(1 .. n, S)
  BY <1>4, <1>5, FS_Injection DEF n
<1>7. \A d \in S : \E i \in 1 .. n : order[i] = d
  BY <1>6 DEF Surjection
<1>8. \A i, j \in 1 .. n : <<order[i], order[j]>> \in R => i < j
  <2>1. ASSUME NEW i \in 1 .. n, NEW j \in 1 .. n, <<order[i], order[j]>> \in R, ~ (i < j)
        PROVE  FALSE
    <3>1. order[i] \in S /\ order[j] \in S
      BY <1>1
    <3>2. i = j \/ j < i
      BY <1>0, <2>1
    <3>3. CASE i = j
      BY <2>1, <3>1, <3>3 DEF TotalOrder
    <3>4. CASE j < i
      <4>1. <<order[j], order[i]>> \in R
        BY <1>2, <3>4
      <4> QED BY <2>1, <3>1, <4>1 DEF TotalOrder
    <3> QED BY <3>2, <3>3, <3>4
  <2> QED BY <2>1
<1>9. ASSUME NEW i \in 1 .. n PROVE Cardinality(BeforeIn(R, S, order[i])) = i - 1
  <2> DEFINE first == [j \in 1 .. i - 1 |-> order[j]]
  <2>1. i - 1 \in Nat /\ \A j \in 1 .. i - 1 : j \in 1 .. n /\ j < i
    BY <1>0
  <2>2. first \in [1 .. i - 1 -> BeforeIn(R, S, order[i])]
    BY <1>1, <1>2, <2>1 DEF BeforeIn
  <2>3. \A j, k \in 1 .. i - 1 : first[j] = first[k] => j = k
    BY <1>3, <2>1
  <2>4. \A d \in BeforeIn(R, S, order[i]) : \E j \in 1 .. i - 1 : first[j] = d
    <3>1. ASSUME NEW d \in BeforeIn(R, S, order[i]) PROVE \E j \in 1 .. i - 1 : first[j] = d
      <4>1. d \in S /\ <<d, order[i]>> \in R
        BY DEF BeforeIn
      <4>2. PICK j \in 1 .. n : order[j] = d
        BY <1>7, <4>1
      <4>3. j < i
        BY <1>8, <4>1, <4>2
      <4>4. j \in 1 .. i - 1
        BY <1>0, <4>3
      <4> QED BY <4>2, <4>4
    <3> QED BY <3>1
  <2> HIDE DEF first
  <2>5. first \in Bijection(1 .. i - 1, BeforeIn(R, S, order[i]))
    BY <2>2, <2>3, <2>4 DEF Bijection, Injection, Surjection, IsInjective
  <2>6. ExistsBijection(1 .. i - 1, BeforeIn(R, S, order[i]))
    BY <2>5 DEF ExistsBijection
  <2> QED BY <2>1, <2>6, FS_CountingElements
<1> QED BY <1>7, <1>8, <1>9 DEF n

\* A finite set can be sorted.
LEMMA OrderExists ==
    ASSUME NEW S, IsFiniteSet(S), NEW R, TotalOrder(R, S)
    PROVE  \E order : Sorted(order, R, S)
<1> DEFINE n == Cardinality(S)
           rank == [d \in S |-> Cardinality(BeforeIn(R, S, d)) + 1]
<1>0. n \in Nat
  BY FS_CardinalityType
<1>1. \A d \in S : /\ IsFiniteSet(BeforeIn(R, S, d))
                   /\ Cardinality(BeforeIn(R, S, d)) \in Nat
                   /\ Cardinality(BeforeIn(R, S, d)) + 1 <= n
  <2>1. ASSUME NEW d \in S
        PROVE  /\ IsFiniteSet(BeforeIn(R, S, d)) /\ Cardinality(BeforeIn(R, S, d)) \in Nat
               /\ Cardinality(BeforeIn(R, S, d)) + 1 <= n
    <3>1. BeforeIn(R, S, d) \in SUBSET (S \ {d})
      BY DEF BeforeIn, TotalOrder
    <3>2. IsFiniteSet(S \ {d}) /\ Cardinality(S \ {d}) = n - 1
      BY FS_RemoveElement
    <3>3. IsFiniteSet(BeforeIn(R, S, d)) /\ Cardinality(BeforeIn(R, S, d)) <= n - 1
      BY <3>1, <3>2, FS_Subset
    <3>4. Cardinality(BeforeIn(R, S, d)) \in Nat
      BY <3>3, FS_CardinalityType
    <3> QED BY <1>0, <3>3, <3>4
  <2> QED BY <2>1
<1>2. ASSUME NEW d \in S, NEW e \in S, <<d, e>> \in R
      PROVE  Cardinality(BeforeIn(R, S, d)) < Cardinality(BeforeIn(R, S, e))
  <2>1. BeforeIn(R, S, d) \cup {d} \in SUBSET BeforeIn(R, S, e)
    BY <1>2 DEF BeforeIn, TotalOrder
  <2>2. d \notin BeforeIn(R, S, d)
    BY DEF BeforeIn, TotalOrder
  <2>3. Cardinality(BeforeIn(R, S, d) \cup {d}) = Cardinality(BeforeIn(R, S, d)) + 1
    BY <1>1, <2>2, FS_AddElement
  <2>4. Cardinality(BeforeIn(R, S, d) \cup {d}) <= Cardinality(BeforeIn(R, S, e))
    BY <1>1, <2>1, FS_Subset
  <2> QED BY <1>1, <2>3, <2>4
<1>3. rank \in [S -> 1 .. n]
  BY <1>0, <1>1
<1>4. \A d, e \in S : rank[d] = rank[e] => d = e
  <2>1. ASSUME NEW d \in S, NEW e \in S, d # e PROVE rank[d] # rank[e]
    <3>1. <<d, e>> \in R \/ <<e, d>> \in R
      BY <2>1 DEF TotalOrder
    <3> QED BY <1>1, <1>2, <3>1
  <2> QED BY <2>1
<1>5. IsFiniteSet(1 .. n) /\ Cardinality(1 .. n) = n
  BY <1>0, FS_Interval
<1>6. rank \in Injection(S, 1 .. n)
  BY <1>3, <1>4 DEF Injection, IsInjective
<1>7. rank \in Surjection(S, 1 .. n)
  BY <1>5, <1>6, FS_Injection
<1>8. \A i \in 1 .. n : \E d \in S : rank[d] = i
  BY <1>7 DEF Surjection
<1> DEFINE order == [i \in 1 .. n |-> CHOOSE d \in S : rank[d] = i]
<1>9. \A i \in 1 .. n : order[i] \in S /\ rank[order[i]] = i
  <2> HIDE DEF rank
  <2> QED BY <1>8
<1>10. ASSUME NEW i \in 1 .. n, NEW j \in 1 .. n, i < j PROVE <<order[i], order[j]>> \in R
  <2> DEFINE d == order[i]
             e == order[j]
  <2>1. d \in S /\ e \in S /\ rank[d] = i /\ rank[e] = j
    BY <1>9
  <2> HIDE DEF d, e, order
  <2>2. d # e
    BY <1>10, <2>1
  <2>3. ASSUME <<e, d>> \in R PROVE FALSE
    BY <1>1, <1>2, <1>10, <2>1, <2>3
  <2>4. <<d, e>> \in R
    BY <2>1, <2>2, <2>3 DEF TotalOrder
  <2> QED BY <2>4 DEF d, e
<1>11. order \in [1 .. n -> S]
  BY <1>9
<1> QED BY <1>10, <1>11 DEF Sorted

\* It can be sorted in one way only.
LEMMA SortedOnce ==
    ASSUME NEW S, IsFiniteSet(S), NEW R, TotalOrder(R, S),
           NEW one, Sorted(one, R, S), NEW other, Sorted(other, R, S)
    PROVE  one = other
<1> DEFINE n == Cardinality(S)
<1>1. one \in [1 .. n -> S] /\ other \in [1 .. n -> S] /\ n \in Nat
  BY FS_CardinalityType DEF Sorted
<1>2. ASSUME NEW i \in 1 .. n PROVE one[i] = other[i]
  <2>1. one[i] \in S
    BY <1>1
  <2>2. PICK j \in 1 .. n : other[j] = one[i]
    BY <2>1, PlacesCount
  <2>3. Cardinality(BeforeIn(R, S, one[i])) = i - 1 /\ Cardinality(BeforeIn(R, S, other[j])) = j - 1
    BY PlacesCount
  <2>4. i = j
    BY <2>2, <2>3
  <2> QED BY <2>2, <2>4
<1> HIDE DEF n
<1> QED BY <1>1, <1>2

----------------------------------------------------------------------------
\* The join of the terms.

\* The matches after each term are there, and follow from each other.
LEMMA MatchesFollow ==
    ASSUME NEW q, NEW len \in Nat, DOMAIN q = 1 .. len, NEW kept, NEW d
    PROVE  LET joined == MatchAfterTerms(q, kept, d) IN
           /\ len > 0 => joined[1] = MatchOfOneTerm(kept[q[1]][d])
           /\ \A n \in 1 .. len - 1 :
                 joined[n + 1] = MatchAcrossTerms(joined[n], kept[q[n + 1]][d])
<1> DEFINE Of(n) == kept[q[n]][d]
           Step(f, n) == IF n = 1 THEN MatchOfOneTerm(Of(n)) ELSE MatchAcrossTerms(f[n - 1], Of(n))
           Follows(f, m) == DOMAIN f = 1 .. m /\ \A n \in 1 .. m : f[n] = Step(f, n)
<1> HIDE DEF Of
<1>1. \A m \in 0 .. len : \E f : Follows(f, m)
  <2> DEFINE S == {m \in 1 .. len : \E f : Follows(f, m)}
  <2>1. Follows([n \in 1 .. 0 |-> n], 0)
    OBVIOUS
  <2>2. ASSUME NEW m \in 0 .. len - 1, NEW f, Follows(f, m) PROVE \E g : Follows(g, m + 1)
    <3> DEFINE g == [n \in 1 .. m + 1 |-> IF n = m + 1 THEN Step(f, n) ELSE f[n]]
    <3>1. DOMAIN g = 1 .. m + 1
      OBVIOUS
    <3>2. ASSUME NEW n \in 1 .. m + 1 PROVE g[n] = Step(g, n)
      <4>1. CASE n = 1
        BY <2>2, <4>1
      <4>2. CASE n # 1
        <5>1. n - 1 \in 1 .. m /\ n - 1 # m + 1 /\ n - 1 \in 1 .. m + 1
          BY <4>2
        <5>2. g[n - 1] = f[n - 1]
          BY <5>1
        <5>3. g[n] = Step(f, n)
          <6>1. CASE n = m + 1
            BY <6>1
          <6>2. CASE n # m + 1
            <7>1. n \in 1 .. m
              BY <6>2
            <7> QED BY <2>2, <6>2, <7>1
          <6> QED BY <6>1, <6>2
        <5> QED BY <4>2, <5>2, <5>3
      <4> QED BY <4>1, <4>2
    <3> HIDE DEF g, Step
    <3> QED BY <3>1, <3>2
  <2> HIDE DEF Follows
  <2>3. 1 .. len \subseteq S
    <3>1. len > 0 => 1 \in S
      <4>1. ASSUME len > 0 PROVE 1 \in S
        <5>1. 0 \in 0 .. len - 1 /\ 0 + 1 = 1
          BY <4>1
        <5>2. \E f : Follows(f, 1)
          BY <2>1, <2>2, <5>1
        <5> QED BY <4>1, <5>2
      <4> QED BY <4>1
    <3>2. ASSUME NEW m \in 1 .. len - 1, m \in S PROVE m + 1 \in S
      <4>1. m \in 0 .. len - 1 /\ m + 1 \in 1 .. len
        OBVIOUS
      <4>2. \E f : Follows(f, m + 1)
        BY <2>2, <3>2, <4>1
      <4> QED BY <4>1, <4>2
    <3> HIDE DEF S
    <3> QED BY <3>1, <3>2, OneByOne
  <2> QED BY <2>1, <2>3
<1> DEFINE joined == CHOOSE f : f = [n \in DOMAIN q |->
                       IF n = 1 THEN MatchOfOneTerm(kept[q[n]][d])
                       ELSE MatchAcrossTerms(f[n - 1], kept[q[n]][d])]
<1>2. MatchAfterTerms(q, kept, d) = joined
  BY DEF MatchAfterTerms
<1>3. PICK f : Follows(f, len)
  BY <1>1
<1>4. \E g : g = [n \in 1 .. len |-> Step(g, n)]
  <2> DEFINE g == [n \in 1 .. len |-> f[n]]
  <2>1. \A n \in 1 .. len : g[n] = Step(g, n)
    <3>1. ASSUME NEW n \in 1 .. len PROVE g[n] = Step(g, n)
      <4>1. n # 1 => n - 1 \in 1 .. len
        OBVIOUS
      <4> QED BY <1>3, <4>1
    <3> QED BY <3>1
  <2> HIDE DEF Step
  <2>2. g = [n \in 1 .. len |-> Step(g, n)]
    BY <2>1
  <2> QED BY <2>2
<1>5. joined = [n \in 1 .. len |-> Step(joined, n)]
  BY <1>4 DEF Of
<1> HIDE DEF joined
<1>6. len > 0 => joined[1] = MatchOfOneTerm(Of(1))
  BY <1>5
<1>7. ASSUME NEW n \in 1 .. len - 1 PROVE joined[n + 1] = MatchAcrossTerms(joined[n], Of(n + 1))
  <2>1. n + 1 \in 1 .. len /\ n + 1 # 1 /\ (n + 1) - 1 = n
    OBVIOUS
  <2>2. joined[n + 1] = Step(joined, n + 1)
    BY <1>5, <2>1
  <2> QED BY <2>1, <2>2
<1> QED BY <1>2, <1>6, <1>7 DEF Of

\* What a match says of the postings it joins, and of nothing else: how far they
\* go, the most hits, the earliest position, the earliest place in a phrase.
Says(match, postings) ==
    /\ match.posting \in PostingFields /\ match.first \in Nat /\ match.last \in Nat
    /\ \E p \in postings : match.first = p.position
    /\ \A p \in postings : match.first <= p.position
    /\ \E p \in postings : match.last = p.position
    /\ \A p \in postings : match.last >= p.position
    /\ \E p \in postings : match.posting.hits = p.hits
    /\ \A p \in postings : match.posting.hits >= p.hits
    /\ \E p \in postings : match.posting.position = p.position
    /\ \A p \in postings : p.position # 0 =>
          match.posting.position # 0 /\ match.posting.position <= p.position
    /\ \E p \in postings : match.posting.phrase = p.phrase /\ match.posting.inPhrase = p.inPhrase
    /\ \A p \in postings : \/ match.posting.phrase < p.phrase
                           \/ /\ match.posting.phrase = p.phrase
                              /\ match.posting.inPhrase <= p.inPhrase

\* What the posting of the first term says.
LEMMA FirstSays ==
    ASSUME NEW p \in PostingFields
    PROVE  Says(MatchOfOneTerm(p), {p})
  BY DEF Says, MatchOfOneTerm, PostingFields

\* What the posting of one term more adds to it (PostingAcrossTerms).
LEMMA NextSays ==
    ASSUME NEW postings \in SUBSET PostingFields, NEW match, Says(match, postings),
           NEW p \in PostingFields
    PROVE  Says(MatchAcrossTerms(match, p), postings \cup {p})
<1> DEFINE next == MatchAcrossTerms(match, p)
           was == match.posting
           is == next.posting
<1>1. was \in PostingFields /\ match.first \in Nat /\ match.last \in Nat
  BY DEF Says
<1>2. is = PostingAcrossTerms(was, p) /\ next.first = Lesser(match.first, p.position)
      /\ next.last = Greater(match.last, p.position)
  BY DEF MatchAcrossTerms
<1>3. /\ was.hits \in Nat /\ was.position \in Nat /\ was.phrase \in Nat /\ was.inPhrase \in Nat
      /\ p.hits \in Nat /\ p.position \in Nat /\ p.phrase \in Nat /\ p.inPhrase \in Nat
      /\ \A e \in postings : e.hits \in Nat /\ e.position \in Nat /\ e.phrase \in Nat /\ e.inPhrase \in Nat
  BY <1>1 DEF PostingFields
<1>4. /\ is.position = EarliestPosition(was.position, p.position)
      /\ is.phrase = Lesser(was.phrase, p.phrase)
      /\ is.inPhrase = IF was.phrase > p.phrase THEN p.inPhrase
                       ELSE IF was.phrase = p.phrase THEN Lesser(was.inPhrase, p.inPhrase)
                       ELSE was.inPhrase
      /\ is.hits = Greater(was.hits, p.hits)
      /\ is \in PostingFields
  <2> DEFINE least == CASE was.phrase > p.phrase -> p.inPhrase
                        [] was.phrase = p.phrase -> Lesser(was.inPhrase, p.inPhrase)
                        [] OTHER -> was.inPhrase
             made == [was EXCEPT !.position = EarliestPosition(@, p.position),
                                 !.phrase = Lesser(@, p.phrase), !.inPhrase = least,
                                 !.hits = Greater(@, p.hits)]
  <2>1. PostingAcrossTerms(was, p) =
           [was EXCEPT !.position = EarliestPosition(@, p.position),
                       !.phrase = Lesser(@, p.phrase),
                       !.inPhrase = CASE was.phrase > p.phrase -> p.inPhrase
                                      [] was.phrase = p.phrase -> Lesser(@, p.inPhrase)
                                      [] OTHER -> @,
                       !.hits = Greater(@, p.hits)]
    BY DEF PostingAcrossTerms
  <2>2. PostingAcrossTerms(was, p) = made
    BY <2>1
  <2>3. least = IF was.phrase > p.phrase THEN p.inPhrase
                ELSE IF was.phrase = p.phrase THEN Lesser(was.inPhrase, p.inPhrase)
                ELSE was.inPhrase
    BY <1>3
  <2> HIDE DEF least
  <2>4. /\ Greater(was.hits, p.hits) \in Nat /\ EarliestPosition(was.position, p.position) \in Nat
        /\ Lesser(was.phrase, p.phrase) \in Nat /\ least \in Nat
    BY <1>3, <2>3 DEF Lesser, Greater, EarliestPosition
  <2>5. /\ made \in PostingFields /\ made.hits = Greater(was.hits, p.hits)
        /\ made.position = EarliestPosition(was.position, p.position)
        /\ made.phrase = Lesser(was.phrase, p.phrase) /\ made.inPhrase = least
    BY <1>1, <2>4 DEF PostingFields
  <2> HIDE DEF made
  <2>6. is = made
    BY <1>2, <2>2
  <2> HIDE DEF is
  <2> QED BY <2>3, <2>5, <2>6
<1> HIDE DEF next, is
<1>5. is \in PostingFields /\ next.first \in Nat /\ next.last \in Nat
  BY <1>1, <1>2, <1>3, <1>4 DEF Lesser, Greater
<1> USE DEF Says
<1>6. /\ \E e \in postings \cup {p} : next.first = e.position
      /\ \A e \in postings \cup {p} : next.first <= e.position
  BY <1>1, <1>2, <1>3 DEF Lesser
<1>7. /\ \E e \in postings \cup {p} : next.last = e.position
      /\ \A e \in postings \cup {p} : next.last >= e.position
  BY <1>1, <1>2, <1>3 DEF Greater
<1>8. /\ \E e \in postings \cup {p} : is.hits = e.hits
      /\ \A e \in postings \cup {p} : is.hits >= e.hits
  BY <1>1, <1>3, <1>4 DEF Greater
<1>9. /\ \E e \in postings \cup {p} : is.position = e.position
      /\ \A e \in postings \cup {p} : e.position # 0 => is.position # 0 /\ is.position <= e.position
  <2>1. \E e \in postings : was.position = e.position
    OBVIOUS
  <2>2. \A e \in postings : e.position # 0 => was.position # 0 /\ was.position <= e.position
    OBVIOUS
  <2> QED BY <2>1, <2>2, <1>3, <1>4 DEF EarliestPosition, PositionAbsent, Lesser, Greater
<1>10. /\ \E e \in postings \cup {p} : is.phrase = e.phrase /\ is.inPhrase = e.inPhrase
       /\ \A e \in postings \cup {p} :
             is.phrase < e.phrase \/ (is.phrase = e.phrase /\ is.inPhrase <= e.inPhrase)
  <2>1. PICK e \in postings : was.phrase = e.phrase /\ was.inPhrase = e.inPhrase
    OBVIOUS
  <2>2. \A e1 \in postings :
           was.phrase < e1.phrase \/ (was.phrase = e1.phrase /\ was.inPhrase <= e1.inPhrase)
    OBVIOUS
  <2>3. (is.phrase = was.phrase /\ is.inPhrase = was.inPhrase)
        \/ (is.phrase = p.phrase /\ is.inPhrase = p.inPhrase)
    BY <1>3, <1>4 DEF Lesser
  <2>4. /\ is.phrase < was.phrase \/ (is.phrase = was.phrase /\ is.inPhrase <= was.inPhrase)
        /\ is.phrase < p.phrase \/ (is.phrase = p.phrase /\ is.inPhrase <= p.inPhrase)
    BY <1>3, <1>4 DEF Lesser
  <2>5. is.phrase \in Nat /\ is.inPhrase \in Nat
    BY <1>5 DEF PostingFields
  <2>6. ASSUME NEW e1 \in postings
        PROVE  is.phrase < e1.phrase \/ (is.phrase = e1.phrase /\ is.inPhrase <= e1.inPhrase)
    BY <1>3, <2>2, <2>4, <2>5
  <2> QED BY <2>1, <2>3, <2>4, <2>6
<1> QED BY <1>5, <1>6, <1>7, <1>8, <1>9, <1>10 DEF next, is

\* Two matches that say it of the same postings say the same.
LEMMA SaysOnce ==
    ASSUME NEW postings \in SUBSET PostingFields, NEW one, NEW other,
           Says(one, postings), Says(other, postings)
    PROVE  /\ one.first = other.first /\ one.last = other.last
           /\ one.posting.hits = other.posting.hits
           /\ one.posting.position = other.posting.position
           /\ one.posting.phrase = other.posting.phrase
           /\ one.posting.inPhrase = other.posting.inPhrase
<1>1. /\ one.posting.hits \in Nat /\ one.posting.position \in Nat
      /\ one.posting.phrase \in Nat /\ one.posting.inPhrase \in Nat
      /\ other.posting.hits \in Nat /\ other.posting.position \in Nat
      /\ other.posting.phrase \in Nat /\ other.posting.inPhrase \in Nat
      /\ one.first \in Nat /\ one.last \in Nat /\ other.first \in Nat /\ other.last \in Nat
      /\ \A e \in postings : e.hits \in Nat /\ e.position \in Nat /\ e.phrase \in Nat /\ e.inPhrase \in Nat
  BY DEF Says, PostingFields
<1>2. one.first = other.first /\ one.last = other.last /\ one.posting.hits = other.posting.hits
  BY <1>1 DEF Says
<1>3. one.posting.position = other.posting.position
  BY <1>1 DEF Says
<1>4. one.posting.phrase = other.posting.phrase /\ one.posting.inPhrase = other.posting.inPhrase
  BY <1>1 DEF Says
<1> QED BY <1>2, <1>3, <1>4

\* The occurrences of the first terms of a query, by how often each has hits.
Occurring(hits, n) == UNION {{i} \X (1 .. hits[i]) : i \in 1 .. n}

\* An occurrence is of one term, by its number.
LEMMA OccurrenceIs ==
    ASSUME NEW hits, NEW n
    PROVE  \A o : o \in Occurring(hits, n) <=>
                    \E i \in 1 .. n : \E k \in 1 .. hits[i] : o = <<i, k>>
<1>1. ASSUME NEW o, o \in Occurring(hits, n)
      PROVE  \E i \in 1 .. n : \E k \in 1 .. hits[i] : o = <<i, k>>
  <2>1. PICK i \in 1 .. n : o \in {i} \X (1 .. hits[i])
    BY <1>1 DEF Occurring
  <2>2. PICK k \in 1 .. hits[i] : o = <<i, k>>
    BY <2>1
  <2> QED BY <2>2
<1>2. ASSUME NEW i \in 1 .. n, NEW k \in 1 .. hits[i]
      PROVE  <<i, k>> \in Occurring(hits, n)
  <2>1. <<i, k>> \in {i} \X (1 .. hits[i])
    OBVIOUS
  <2> QED BY <2>1 DEF Occurring
<1> QED BY <1>1, <1>2

\* One term more adds its hits.
LEMMA OccurrencesAdd ==
    ASSUME NEW n \in Nat, NEW hits, \A i \in 1 .. n + 1 : hits[i] \in Nat,
           IsFiniteSet(Occurring(hits, n))
    PROVE  /\ IsFiniteSet(Occurring(hits, n + 1))
           /\ Cardinality(Occurring(hits, n + 1)) = Cardinality(Occurring(hits, n)) + hits[n + 1]
<1> DEFINE more == {n + 1} \X (1 .. hits[n + 1])
<1>1. 1 .. n + 1 = (1 .. n) \cup {n + 1} /\ n + 1 \notin 1 .. n
  OBVIOUS
<1>2. Occurring(hits, n + 1) = Occurring(hits, n) \cup more
  BY <1>1 DEF Occurring
<1>3. Occurring(hits, n) \cap more = {}
  BY <1>1 DEF Occurring
<1>4. hits[n + 1] \in Nat
  OBVIOUS
<1>5. IsFiniteSet({n + 1}) /\ Cardinality({n + 1}) = 1
  BY FS_Singleton
<1>6. IsFiniteSet(1 .. hits[n + 1]) /\ Cardinality(1 .. hits[n + 1]) = hits[n + 1]
  <2>1. ASSUME NEW h \in Nat PROVE IsFiniteSet(1 .. h) /\ Cardinality(1 .. h) = h
    <3>1. 1 \in Int /\ h \in Int
      OBVIOUS
    <3> QED BY <3>1, FS_Interval
  <2> QED BY <1>4, <2>1
<1>7. IsFiniteSet(more) /\ Cardinality(more) = hits[n + 1]
  <2> DEFINE T == 1 .. hits[n + 1]
             h == hits[n + 1]
  <2>1. IsFiniteSet(T) /\ Cardinality(T) = h /\ h \in Nat /\ more = {n + 1} \X T
    BY <1>4, <1>6
  <2> HIDE DEF T, h, more
  <2>2. IsFiniteSet({n + 1} \X T) /\ Cardinality({n + 1} \X T) = Cardinality({n + 1}) * Cardinality(T)
    BY <1>5, <2>1, FS_Product
  <2>3. Cardinality({n + 1}) * Cardinality(T) = 1 * h
    BY <1>5, <2>1
  <2>4. 1 * h = h
    BY <2>1
  <2>5. IsFiniteSet(more) /\ Cardinality(more) = h
    BY <2>1, <2>2, <2>3, <2>4
  <2> QED BY <2>5 DEF h
<1> HIDE DEF more
<1>8. Cardinality(Occurring(hits, n)) \in Nat /\ Cardinality({}) = 0
  BY FS_CardinalityType, FS_EmptySet
<1> DEFINE O == Occurring(hits, n)
<1> HIDE DEF O
<1>9. /\ IsFiniteSet(O \cup more)
      /\ Cardinality(O \cup more) = Cardinality(O) + Cardinality(more) - Cardinality(O \cap more)
  BY <1>7, FS_Union DEF O
<1>10. Cardinality(O) \in Nat /\ Cardinality(O \cap more) = 0
  BY <1>3, <1>8 DEF O
<1>11. Cardinality(O \cup more) = Cardinality(O) + hits[n + 1]
  BY <1>4, <1>7, <1>9, <1>10
<1> QED BY <1>2, <1>9, <1>11 DEF O

\* There are finitely many of them.
LEMMA OccurrencesFinite ==
    ASSUME NEW n \in Nat, NEW hits, \A i \in 1 .. n : hits[i] \in Nat
    PROVE  IsFiniteSet(Occurring(hits, n))
<1> DEFINE S == {m \in 1 .. n : IsFiniteSet(Occurring(hits, m))}
<1>1. IsFiniteSet(Occurring(hits, 0))
  <2>1. Occurring(hits, 0) = {}
    BY DEF Occurring
  <2> QED BY <2>1, FS_EmptySet
<1>2. ASSUME NEW m \in 0 .. n - 1, IsFiniteSet(Occurring(hits, m))
      PROVE  m + 1 \in S
  <2>1. m \in Nat /\ \A i \in 1 .. m + 1 : hits[i] \in Nat
    OBVIOUS
  <2>2. IsFiniteSet(Occurring(hits, m + 1))
    BY <1>2, <2>1, OccurrencesAdd
  <2> QED BY <2>2
<1>3. n > 0 => 1 \in S
  <2>1. ASSUME n > 0 PROVE 1 \in S
    <3>1. 0 \in 0 .. n - 1 /\ 0 + 1 = 1
      BY <2>1
    <3> QED BY <1>1, <1>2, <3>1
  <2> QED BY <2>1
<1>4. ASSUME NEW m \in 1 .. n - 1, m \in S PROVE m + 1 \in S
  BY <1>2, <1>4
<1>5. 1 .. n \subseteq S
  <2> HIDE DEF S
  <2> QED BY <1>3, <1>4, OneByOne
<1> QED BY <1>1, <1>5

\* Asked for in another order, the terms occur as often.
LEMMA OccurrencesReorder ==
    ASSUME NEW n \in Nat, NEW hits, \A i \in 1 .. n : hits[i] \in Nat,
           NEW p \in [1 .. n -> 1 .. n], \A i \in 1 .. n : \E j \in 1 .. n : p[j] = i
    PROVE  Cardinality(Occurring([i \in 1 .. n |-> hits[p[i]]], n)) = Cardinality(Occurring(hits, n))
<1> DEFINE other == [i \in 1 .. n |-> hits[p[i]]]
           A == Occurring(other, n)
           B == Occurring(hits, n)
           moved == [o \in A |-> <<p[o[1]], o[2]>>]
<1>1. \A i \in 1 .. n : other[i] \in Nat
  OBVIOUS
<1>2. IsFiniteSet(A) /\ IsFiniteSet(B)
  BY <1>1, OccurrencesFinite
<1>3. \A i, j \in 1 .. n : p[i] = p[j] => i = j
  <2>1. IsFiniteSet(1 .. n) /\ p \in Surjection(1 .. n, 1 .. n)
    BY FS_Interval DEF Surjection
  <2>2. p \in Injection(1 .. n, 1 .. n)
    BY <2>1, FS_Surjection
  <2> QED BY <2>2 DEF Injection, IsInjective
<1>4. \A o : o \in A <=> \E i \in 1 .. n : \E k \in 1 .. hits[p[i]] : o = <<i, k>>
  <2>1. \A i \in 1 .. n : other[i] = hits[p[i]]
    OBVIOUS
  <2> HIDE DEF other
  <2>2. \A o : o \in A <=> \E i \in 1 .. n : \E k \in 1 .. other[i] : o = <<i, k>>
    BY OccurrenceIs
  <2> HIDE DEF A
  <2> QED BY <2>1, <2>2
<1>5. \A o : o \in B <=> \E i \in 1 .. n : \E k \in 1 .. hits[i] : o = <<i, k>>
  BY OccurrenceIs
<1> HIDE DEF A, B
<1>6. moved \in [A -> B]
  <2>1. ASSUME NEW o \in A PROVE moved[o] \in B
    <3>1. PICK i \in 1 .. n : \E k \in 1 .. hits[p[i]] : o = <<i, k>>
      BY <1>4
    <3>2. PICK k \in 1 .. hits[p[i]] : o = <<i, k>>
      BY <3>1
    <3>3. moved[o] = <<p[i], k>> /\ p[i] \in 1 .. n
      BY <3>2
    <3> QED BY <1>5, <3>3
  <2> QED BY <2>1
<1>7. \A o, u \in A : moved[o] = moved[u] => o = u
  <2>1. ASSUME NEW o \in A, NEW u \in A, moved[o] = moved[u] PROVE o = u
    <3>1. PICK i \in 1 .. n : \E k \in 1 .. hits[p[i]] : o = <<i, k>>
      BY <1>4
    <3>2. PICK k \in 1 .. hits[p[i]] : o = <<i, k>>
      BY <3>1
    <3>3. PICK j \in 1 .. n : \E m \in 1 .. hits[p[j]] : u = <<j, m>>
      BY <1>4
    <3>4. PICK m \in 1 .. hits[p[j]] : u = <<j, m>>
      BY <3>3
    <3>5. moved[o] = <<p[i], k>> /\ moved[u] = <<p[j], m>>
      BY <3>2, <3>4
    <3>6. p[i] = p[j] /\ k = m
      BY <2>1, <3>5
    <3> QED BY <1>3, <3>2, <3>4, <3>6
  <2> QED BY <2>1
<1>8. \A v \in B : \E o \in A : moved[o] = v
  <2>1. ASSUME NEW v \in B PROVE \E o \in A : moved[o] = v
    <3>1. PICK i \in 1 .. n : \E k \in 1 .. hits[i] : v = <<i, k>>
      BY <1>5
    <3>2. PICK k \in 1 .. hits[i] : v = <<i, k>>
      BY <3>1
    <3>3. PICK j \in 1 .. n : p[j] = i
      OBVIOUS
    <3>4. <<j, k>> \in A
      BY <1>4, <3>3
    <3>5. moved[<<j, k>>] = <<p[j], k>>
      BY <3>4
    <3> QED BY <3>2, <3>3, <3>4, <3>5
  <2> QED BY <2>1
<1> HIDE DEF moved
<1>9. moved \in Bijection(A, B)
  BY <1>6, <1>7, <1>8 DEF Bijection, Injection, Surjection, IsInjective
<1>10. ExistsBijection(A, B)
  BY <1>9 DEF ExistsBijection
<1>11. Cardinality(A) = Cardinality(B)
  BY <1>2, <1>10, FS_Bijection
<1> QED BY <1>11 DEF A, B

\* A document's match, after any number of terms, says what their postings say
\* and counts their occurrences.
LEMMA MatchCounts ==
    ASSUME NEW len \in Nat \ {0}, NEW q, DOMAIN q = 1 .. len, NEW kept, NEW d,
           \A n \in 1 .. len : kept[q[n]][d] \in PostingFields
    PROVE  /\ Says(MatchAfterTerms(q, kept, d)[len], {kept[q[n]][d] : n \in 1 .. len})
           /\ MatchAfterTerms(q, kept, d)[len].occurrences =
                 Cardinality(Occurring([n \in 1 .. len |-> kept[q[n]][d].hits], len))
<1> DEFINE joined == MatchAfterTerms(q, kept, d)
           Of(n) == kept[q[n]][d]
           hits == [n \in 1 .. len |-> Of(n).hits]
           Upto(n) == {Of(i) : i \in 1 .. n}
           Known(n) == /\ Says(joined[n], Upto(n))
                       /\ joined[n].occurrences = Cardinality(Occurring(hits, n))
           S == {n \in 1 .. len : Known(n)}
<1>1. /\ joined[1] = MatchOfOneTerm(Of(1))
      /\ \A n \in 1 .. len - 1 : joined[n + 1] = MatchAcrossTerms(joined[n], Of(n + 1))
  <2>1. len \in Nat /\ len > 0
    OBVIOUS
  <2> QED BY <2>1, MatchesFollow
<1>2. \A n \in 1 .. len : Of(n) \in PostingFields
  OBVIOUS
<1> HIDE DEF joined, Of
<1>3. \A n \in 1 .. len : hits[n] = Of(n).hits /\ hits[n] \in Nat
  BY <1>2 DEF PostingFields
<1> HIDE DEF hits
<1>4. IsFiniteSet(Occurring(hits, 0)) /\ Cardinality(Occurring(hits, 0)) = 0
  <2>1. Occurring(hits, 0) = {}
    BY DEF Occurring
  <2> QED BY <2>1, FS_EmptySet
<1>5. \A n \in 0 .. len - 1 :
         /\ Cardinality(Occurring(hits, n + 1)) = Cardinality(Occurring(hits, n)) + hits[n + 1]
         /\ Cardinality(Occurring(hits, n)) \in Nat
  <2>1. ASSUME NEW n \in 0 .. len - 1
        PROVE  /\ Cardinality(Occurring(hits, n + 1)) = Cardinality(Occurring(hits, n)) + hits[n + 1]
               /\ Cardinality(Occurring(hits, n)) \in Nat
    <3>1. n \in Nat /\ \A i \in 1 .. n + 1 : i \in 1 .. len
      OBVIOUS
    <3>2. \A i \in 1 .. n + 1 : hits[i] \in Nat
      BY <1>3, <3>1
    <3>3. \A i \in 1 .. n : hits[i] \in Nat
      BY <3>1, <3>2
    <3>4. IsFiniteSet(Occurring(hits, n))
      BY <3>1, <3>3, OccurrencesFinite
    <3> QED BY <3>1, <3>2, <3>4, OccurrencesAdd, FS_CardinalityType
  <2> QED BY <2>1
<1>6. Known(1)
  <2>1. Upto(1) = {Of(1)} /\ 1 \in 1 .. len /\ 0 \in 0 .. len - 1 /\ 0 + 1 = 1
    OBVIOUS
  <2>2. Says(joined[1], Upto(1))
    BY <1>1, <1>2, <2>1, FirstSays
  <2>3. joined[1].occurrences = hits[1]
    BY <1>1, <1>3, <2>1 DEF MatchOfOneTerm
  <2> QED BY <1>3, <1>4, <1>5, <2>1, <2>2, <2>3
<1>7. ASSUME NEW n \in 1 .. len - 1, Known(n) PROVE Known(n + 1)
  <2>1. /\ Upto(n + 1) = Upto(n) \cup {Of(n + 1)} /\ n + 1 \in 1 .. len
        /\ n \in 0 .. len - 1 /\ 1 .. n \subseteq 1 .. len
    OBVIOUS
  <2>2. Upto(n) \in SUBSET PostingFields /\ Of(n + 1) \in PostingFields
    BY <1>2, <2>1
  <2>3. joined[n + 1] = MatchAcrossTerms(joined[n], Of(n + 1))
    BY <1>1
  <2> HIDE DEF Upto
  <2>4. Says(joined[n + 1], Upto(n + 1))
    BY <1>7, <2>1, <2>2, <2>3, NextSays
  <2>5. joined[n + 1].occurrences = joined[n].occurrences + Of(n + 1).hits
    BY <2>3 DEF MatchAcrossTerms
  <2>6. hits[n + 1] = Of(n + 1).hits
    BY <1>3, <2>1
  <2>7. Cardinality(Occurring(hits, n + 1)) = Cardinality(Occurring(hits, n)) + hits[n + 1]
    BY <1>5, <2>1
  <2> QED BY <1>7, <2>4, <2>5, <2>6, <2>7
<1>8. 1 .. len \subseteq S
  <2>1. len > 0 => 1 \in S
    BY <1>6
  <2>2. ASSUME NEW n \in 1 .. len - 1, n \in S PROVE n + 1 \in S
    <3>1. n + 1 \in 1 .. len /\ Known(n)
      BY <2>2
    <3>2. Known(n + 1)
      BY <1>7, <3>1
    <3> QED BY <3>1, <3>2
  <2> HIDE DEF S, Known
  <2>3. len \in Nat
    OBVIOUS
  <2> QED BY <2>1, <2>2, <2>3, OneByOne
<1>9. Known(len)
  <2>1. len \in 1 .. len
    OBVIOUS
  <2>2. len \in S
    BY <1>8, <2>1
  <2> HIDE DEF Known
  <2> QED BY <2>2
<1> QED BY <1>9 DEF joined, Of, hits

----------------------------------------------------------------------------
\* What a search keeps of its terms.

\* What is kept of a term is of the most frequent that are accepted, as stored.
LEMMA KeptIsMostFrequent ==
    ASSUME NEW asked, NEW excludedDocuments, NEW bound, NEW some,
           NEW kept \in KeptFor(index, asked, excludedDocuments, bound, some)
    PROVE  \A t \in some :
             LET accepted == Accepted(index, asked, excludedDocuments, t) IN
             /\ DOMAIN kept[t] \in MostFrequent(index[t], accepted, bound)
             /\ DOMAIN kept[t] \subseteq accepted
             /\ \A d \in DOMAIN kept[t] : kept[t][d] = index[t][d]
<1> DEFINE accepted(t) == Accepted(index, asked, excludedDocuments, t)
           candidates(t) == MostFrequent(index[t], accepted(t), bound)
           choices == {c \in [some -> UNION {candidates(t) : t \in some}] :
                         \A t \in some : c[t] \in candidates(t)}
<1>1. \A t : candidates(t) \subseteq SUBSET accepted(t)
  BY DEF MostFrequent
<1>2. KeptFor(index, asked, excludedDocuments, bound, some) =
         {[t \in some |-> [d \in choice[t] |-> index[t][d]]] : choice \in choices}
  BY DEF KeptFor
<1>3. \A choice \in choices : \A t \in some : choice[t] \in candidates(t)
  OBVIOUS
<1> HIDE DEF accepted, candidates, choices
<1>4. PICK choice \in choices : kept = [t \in some |-> [d \in choice[t] |-> index[t][d]]]
  BY <1>2
<1>5. ASSUME NEW t \in some
      PROVE  /\ DOMAIN kept[t] \in candidates(t) /\ DOMAIN kept[t] \subseteq accepted(t)
             /\ \A d \in DOMAIN kept[t] : kept[t][d] = index[t][d]
  <2>1. kept[t] = [d \in choice[t] |-> index[t][d]] /\ choice[t] \in candidates(t)
    BY <1>3, <1>4
  <2> QED BY <1>1, <2>1
<1> QED BY <1>5 DEF accepted, candidates

\* What a search keeps of its terms, as stored.
AsStored(kept) ==
    \A t \in terms : /\ DOMAIN kept[t] \subseteq DOMAIN index[t]
                     /\ \A d \in DOMAIN kept[t] : kept[t][d] = index[t][d]

\* The documents it kept of every term, and the postings of one.
Holders(kept) == {d \in Documents : \A t \in terms : d \in DOMAIN kept[t]}

PostingsOf(d) == {index[t][d] : t \in terms}

\* The terms of a request are those it lists.
LEMMA QueryIs ==
    ASSUME SearchTypeInv
    PROVE  /\ Len(criteria.terms) \in Nat /\ DOMAIN criteria.terms = 1 .. Len(criteria.terms)
           /\ \A i \in DOMAIN criteria.terms : criteria.terms[i] \in terms
           /\ terms \subseteq Terms
           /\ terms = {} <=> Len(criteria.terms) = 0
           /\ terms = {} <=> criteria.terms = <<>>
<1>1. criteria.terms \in Seq(Terms) /\ Len(criteria.terms) \in Nat
  BY DEF SearchTypeInv
<1>2. DOMAIN criteria.terms = 1 .. Len(criteria.terms)
  BY <1>1
<1>3. terms = {criteria.terms[i] : i \in DOMAIN criteria.terms}
  BY DEF terms, Range
<1>4. terms \subseteq Terms
  BY <1>1, <1>3
<1>5. Len(criteria.terms) = 0 => terms = {} /\ criteria.terms = <<>>
  BY <1>1, <1>2, <1>3
<1>6. Len(criteria.terms) # 0 => terms # {} /\ criteria.terms # <<>>
  <2>1. ASSUME Len(criteria.terms) # 0 PROVE terms # {} /\ criteria.terms # <<>>
    <3>1. 1 \in DOMAIN criteria.terms
      BY <1>1, <1>2, <2>1
    <3>2. criteria.terms[1] \in terms
      BY <1>3, <3>1
    <3>3. Len(<<>>) = 0
      OBVIOUS
    <3> QED BY <2>1, <3>2, <3>3
  <2> QED BY <2>1
<1> QED BY <1>1, <1>2, <1>3, <1>4, <1>5, <1>6

\* The query in some order of its terms.
IsOrderOfTerms(q) ==
    \E p \in [1 .. Len(criteria.terms) -> 1 .. Len(criteria.terms)] :
        /\ \A i \in 1 .. Len(criteria.terms) : \E j \in 1 .. Len(criteria.terms) : p[j] = i
        /\ q = [i \in 1 .. Len(criteria.terms) |-> criteria.terms[p[i]]]

\* An order of the terms lists the same terms, each as often.
LEMMA OrderIs ==
    ASSUME SearchTypeInv, NEW q, IsOrderOfTerms(q)
    PROVE  /\ DOMAIN q = 1 .. Len(criteria.terms) /\ Len(q) = Len(criteria.terms)
           /\ q \in Seq(Terms) /\ Range(q) = terms
           /\ \A i \in DOMAIN q : q[i] \in terms
<1> DEFINE n == Len(criteria.terms)
<1>1. /\ n \in Nat /\ DOMAIN criteria.terms = 1 .. n /\ terms \subseteq Terms
      /\ \A i \in 1 .. n : criteria.terms[i] \in terms
  BY QueryIs
<1>2. terms = {criteria.terms[i] : i \in 1 .. n}
  BY <1>1 DEF terms, Range
<1> HIDE DEF n
<1>3. PICK p \in [1 .. n -> 1 .. n] :
         /\ \A i \in 1 .. n : \E j \in 1 .. n : p[j] = i
         /\ q = [i \in 1 .. n |-> criteria.terms[p[i]]]
  BY DEF IsOrderOfTerms, n
<1>4. DOMAIN q = 1 .. n /\ \A i \in 1 .. n : q[i] = criteria.terms[p[i]] /\ q[i] \in terms
  BY <1>1, <1>3
<1>5. q \in Seq(Terms)
  <2>1. q \in [1 .. n -> Terms]
    BY <1>1, <1>3, <1>4
  <2> QED BY <1>1, <2>1
<1>6. Len(q) = n
  <2>1. Len(q) \in Nat /\ DOMAIN q = 1 .. Len(q)
    BY <1>5
  <2> QED BY <1>1, <1>4, <2>1
<1>7. Range(q) = terms
  <2>1. Range(q) = {q[i] : i \in 1 .. n}
    BY <1>4 DEF Range
  <2>2. \A i \in 1 .. n : \E j \in 1 .. n : q[j] = criteria.terms[i]
    BY <1>3, <1>4
  <2>3. ASSUME NEW t \in terms PROVE t \in Range(q)
    BY <1>2, <2>1, <2>2, <2>3
  <2>4. Range(q) \subseteq terms
    BY <1>4, <2>1
  <2> QED BY <2>3, <2>4
<1> QED BY <1>4, <1>5, <1>6, <1>7 DEF n

\* The request states them in one of the orders.
LEMMA StatedOrder ==
    ASSUME SearchTypeInv
    PROVE  IsOrderOfTerms(criteria.terms)
<1> DEFINE n == Len(criteria.terms)
           p == [i \in 1 .. n |-> i]
<1>1. /\ n \in Nat /\ DOMAIN criteria.terms = 1 .. n
  BY QueryIs
<1>2. p \in [1 .. n -> 1 .. n] /\ \A i \in 1 .. n : \E j \in 1 .. n : p[j] = i
  OBVIOUS
<1>3. criteria.terms = [i \in 1 .. n |-> criteria.terms[p[i]]]
  <2>1. criteria.terms \in [1 .. n -> Terms]
    BY <1>1 DEF SearchTypeInv
  <2> QED BY <2>1
<1> HIDE DEF p
<1> QED BY <1>2, <1>3 DEF IsOrderOfTerms

\* How often the terms occur in a document, in any order of them.
LEMMA HitsAre ==
    ASSUME SearchTypeInv, NEW q, IsOrderOfTerms(q),
           NEW d, \A t \in terms : d \in DOMAIN index[t]
    PROVE  /\ Hits(d) \in Nat
           /\ Cardinality(Occurring([i \in 1 .. Len(criteria.terms) |-> index[q[i]][d].hits],
                                    Len(criteria.terms))) = Hits(d)
<1> DEFINE n == Len(criteria.terms)
           hits == [i \in 1 .. n |-> index[criteria.terms[i]][d].hits]
<1>1. /\ n \in Nat /\ DOMAIN criteria.terms = 1 .. n
      /\ \A i \in 1 .. n : criteria.terms[i] \in terms
      /\ terms \subseteq Terms
  BY QueryIs
<1>2. \A i \in 1 .. n : index[criteria.terms[i]][d] \in PostingFields
  BY <1>1 DEF SearchTypeInv
<1>3. \A i \in 1 .. n : hits[i] = index[criteria.terms[i]][d].hits /\ hits[i] \in Nat
  BY <1>2 DEF PostingFields
<1>4. PICK p \in [1 .. n -> 1 .. n] :
         /\ \A i \in 1 .. n : \E j \in 1 .. n : p[j] = i
         /\ q = [i \in 1 .. n |-> criteria.terms[p[i]]]
  BY DEF IsOrderOfTerms, n
<1>5. [i \in 1 .. n |-> hits[p[i]]] = [i \in 1 .. n |-> index[q[i]][d].hits]
  <2>1. \A i \in 1 .. n : p[i] \in 1 .. n /\ q[i] = criteria.terms[p[i]]
    BY <1>4
  <2>2. \A i \in 1 .. n : hits[p[i]] = index[q[i]][d].hits
    BY <2>1, <1>3
  <2> HIDE DEF hits, n
  <2> QED BY <2>2
<1>6. Hits(d) = Cardinality(Occurring(hits, n))
  <2>1. Hits(d) = Cardinality(UNION {{i} \X (1 .. index[criteria.terms[i]][d].hits) : i \in 1 .. n})
    BY <1>1 DEF Hits
  <2>2. {{i} \X (1 .. index[criteria.terms[i]][d].hits) : i \in 1 .. n}
           = {{i} \X (1 .. hits[i]) : i \in 1 .. n}
    BY <1>3
  <2> QED BY <2>1, <2>2 DEF Occurring
<1> HIDE DEF n, hits
<1>7. Cardinality(Occurring([i \in 1 .. n |-> hits[p[i]]], n)) = Cardinality(Occurring(hits, n))
  BY <1>1, <1>3, <1>4, OccurrencesReorder
<1>8. Cardinality(Occurring(hits, n)) \in Nat
  BY <1>1, <1>3, OccurrencesFinite, FS_CardinalityType
<1> QED BY <1>5, <1>6, <1>7, <1>8 DEF n

\* The join in any order of the terms.
LEMMA JoinIs ==
    ASSUME SearchTypeInv, terms # {}, NEW kept, AsStored(kept), NEW q, IsOrderOfTerms(q)
    PROVE  LET matches == MatchesAcrossEveryTerm(q, kept) IN
           /\ DOMAIN matches = Holders(kept)
           /\ \A d \in Holders(kept) : /\ Says(matches[d], PostingsOf(d))
                                       /\ matches[d].occurrences = Hits(d)
<1> DEFINE n == Len(criteria.terms)
           matches == MatchesAcrossEveryTerm(q, kept)
<1>1. /\ n \in Nat \ {0} /\ DOMAIN q = 1 .. n /\ Len(q) = n
      /\ q # <<>> /\ terms = {q[i] : i \in 1 .. n} /\ terms \subseteq Terms
  <2>1. n \in Nat /\ n # 0 /\ terms \subseteq Terms
    BY QueryIs
  <2>2. DOMAIN q = 1 .. n /\ Len(q) = n /\ Range(q) = terms
    BY OrderIs
  <2>3. Len(<<>>) = 0
    OBVIOUS
  <2> QED BY <2>1, <2>2, <2>3 DEF Range
<1>2. Holders(kept) = {d \in Documents : \A i \in DOMAIN q : d \in DOMAIN kept[q[i]]}
  BY <1>1 DEF Holders
<1>3. matches = [d \in Holders(kept) |-> Match(q, kept, d)]
  BY <1>1, <1>2 DEF MatchesAcrossEveryTerm
<1>4. ASSUME NEW d \in Holders(kept)
      PROVE  Says(matches[d], PostingsOf(d)) /\ matches[d].occurrences = Hits(d)
  <2>1. \A t \in terms : d \in DOMAIN kept[t] /\ d \in DOMAIN index[t] /\ kept[t][d] = index[t][d]
    BY DEF Holders, AsStored
  <2>2. \A i \in 1 .. n : kept[q[i]][d] = index[q[i]][d] /\ kept[q[i]][d] \in PostingFields
    BY <1>1, <2>1 DEF SearchTypeInv
  <2>3. /\ Says(MatchAfterTerms(q, kept, d)[n], {kept[q[i]][d] : i \in 1 .. n})
        /\ MatchAfterTerms(q, kept, d)[n].occurrences =
              Cardinality(Occurring([i \in 1 .. n |-> kept[q[i]][d].hits], n))
    <3> HIDE DEF n, matches
    <3>1. n \in Nat \ {0} /\ DOMAIN q = 1 .. n
      BY <1>1
    <3>2. \A i \in 1 .. n : kept[q[i]][d] \in PostingFields
      BY <2>2
    <3> QED BY <3>1, <3>2, MatchCounts
  <2>4. matches[d] = MatchAfterTerms(q, kept, d)[n]
    BY <1>1, <1>3 DEF Match
  <2>5. {kept[q[i]][d] : i \in 1 .. n} = PostingsOf(d)
    BY <1>1, <2>2 DEF PostingsOf
  <2>6. [i \in 1 .. n |-> kept[q[i]][d].hits] = [i \in 1 .. n |-> index[q[i]][d].hits]
    BY <2>2
  <2>7. Cardinality(Occurring([i \in 1 .. n |-> index[q[i]][d].hits], n)) = Hits(d)
    BY <2>1, HitsAre
  <2> HIDE DEF n, matches
  <2> QED BY <2>3, <2>4, <2>5, <2>6, <2>7
<1> HIDE DEF matches
<1>5. DOMAIN matches = Holders(kept)
  BY <1>3
<1> QED BY <1>4, <1>5 DEF matches

----------------------------------------------------------------------------
\* The order of what is found.

\* A match spreads as far as its document's postings are apart.
LEMMA SpreadIsDistance ==
    ASSUME SearchTypeInv, terms # {}, NEW d, \A t \in terms : d \in DOMAIN index[t],
           NEW match, Says(match, PostingsOf(d))
    PROVE  /\ TermSpread(match, Len(criteria.terms)) = Distance(d)
           /\ Distance(d) \in Int
<1> DEFINE n == Len(criteria.terms)
           apart == {p - q : p, q \in Positions(d)}
           most == CHOOSE m \in apart : \A p, q \in Positions(d) : p - q <= m
<1>1. n \in Nat /\ n # 0 /\ terms \subseteq Terms
  BY QueryIs
<1>2. \A t \in terms : index[t][d] \in PostingFields
  BY <1>1 DEF SearchTypeInv
<1>3. \A p \in Positions(d) : p \in Nat
  BY <1>2 DEF Positions, PostingFields
<1>4. /\ match.first \in Nat /\ match.last \in Nat
      /\ match.first \in Positions(d) /\ match.last \in Positions(d)
      /\ \A p \in Positions(d) : match.first <= p /\ p <= match.last
  <2>1. match.first \in Nat /\ match.last \in Nat
    BY DEF Says
  <2>2. Positions(d) = {p.position : p \in PostingsOf(d)}
    BY DEF Positions, PostingsOf
  <2>3. \A p \in PostingsOf(d) : match.first <= p.position /\ match.last >= p.position /\ p.position \in Nat
    BY <1>2 DEF Says, PostingsOf, PostingFields
  <2>4. (\E p \in PostingsOf(d) : match.first = p.position)
        /\ (\E p \in PostingsOf(d) : match.last = p.position)
    BY DEF Says
  <2> QED BY <2>1, <2>2, <2>3, <2>4
<1>5. match.last - match.first \in apart
  BY <1>4
<1>6. \A p, q \in Positions(d) : p - q <= match.last - match.first
  BY <1>3, <1>4
<1>7. most \in apart /\ \A p, q \in Positions(d) : p - q <= most
  <2> HIDE DEF apart
  <2>1. \E m \in apart : \A p, q \in Positions(d) : p - q <= m
    BY <1>5, <1>6
  <2> QED BY <2>1
<1> HIDE DEF most
<1>8. most = match.last - match.first
  <2>1. PICK p \in Positions(d), q \in Positions(d) : most = p - q
    BY <1>7
  <2>2. most <= match.last - match.first /\ most \in Int
    BY <1>3, <1>6, <2>1
  <2>3. match.last - match.first <= most
    BY <1>4, <1>7
  <2> QED BY <1>4, <2>2, <2>3
<1>9. CASE n <= 1
  <2>1. Distance(d) = 0 /\ TermSpread(match, n) = 0
    BY <1>9 DEF Distance, TermSpread
  <2> QED BY <2>1
<1>10. CASE ~ (n <= 1)
  <2>1. Distance(d) = most \div (n - 1)
    BY <1>10 DEF Distance, most
  <2>2. TermSpread(match, n) = (match.last - match.first) \div (n - 1)
    BY <1>10 DEF TermSpread
  <2>3. n - 1 \in Nat /\ n - 1 > 0
    BY <1>1, <1>10
  <2>4. most \in Int
    BY <1>4, <1>8
  <2>5. most \div (n - 1) \in Int
    BY <2>3, <2>4
  <2> QED BY <1>8, <2>1, <2>2, <2>5
<1> QED BY <1>9, <1>10

\* The order of some documents, as the pairs of one better than another.
Ranking(S) == {p \in S \X S : Better(p[1], p[2])}

\* Documents that hold every term have an order of their own.
LEMMA BetterOrders ==
    ASSUME NEW S \in SUBSET Documents, \A d \in S : Hits(d) \in Nat /\ Distance(d) \in Int
    PROVE  IsFiniteSet(S) /\ TotalOrder(Ranking(S), S)
<1>1. IsFiniteSet(S) /\ \A d \in S : d \in Nat
  BY SearchAssumption, FS_Subset
<1>2. \A d, e \in S : <<d, e>> \in Ranking(S) <=> Better(d, e)
  BY DEF Ranking
<1>3. \A d \in S : ~ Better(d, d)
  BY <1>1 DEF Better
<1>4. \A d, e \in S : d # e => Better(d, e) \/ Better(e, d)
  BY <1>1 DEF Better
<1>5. \A d, e, f \in S : Better(d, e) /\ Better(e, f) => Better(d, f)
  BY <1>1 DEF Better
<1> QED BY <1>1, <1>2, <1>3, <1>4, <1>5 DEF TotalOrder

\* A request for the same in some order of its terms.
AsksTheSame(asked) ==
    /\ IsOrderOfTerms(asked.terms)
    /\ asked.maxResults = criteria.maxResults /\ asked.maxTermSpread = criteria.maxTermSpread

\* What it kept and is within the spread that is asked for.
Within(kept) ==
    {d \in Holders(kept) : criteria.maxTermSpread > 0 => Distance(d) <= criteria.maxTermSpread}

\* What a search finds of what it kept: what is within the spread, in its order.
LEMMA FoundIs ==
    ASSUME SearchTypeInv, terms # {}, NEW kept, AsStored(kept), NEW asked, AsksTheSame(asked)
    PROVE  LET S == Within(kept)
               matches == MatchesFor(asked, kept)
               found == DocumentsFound(asked, kept)
           IN  /\ IsFiniteSet(S) /\ TotalOrder(Ranking(S), S)
               /\ DOMAIN matches = S
               /\ \A d \in S : Says(matches[d], PostingsOf(d)) /\ matches[d].occurrences = Hits(d)
               /\ \A d \in S : Hits(d) \in Nat /\ Distance(d) \in Int
               /\ \E order :
                     /\ Sorted(order, Ranking(S), S)
                     /\ found = [i \in 1 .. (IF Cardinality(S) > criteria.maxResults
                                             THEN criteria.maxResults ELSE Cardinality(S))
                                    |-> order[i]]
<1> DEFINE S == Within(kept)
           n == Len(criteria.terms)
           joined == MatchesAcrossEveryTerm(asked.terms, kept)
           matches == MatchesFor(asked, kept)
           ranked == RankedDocuments(matches, n)
           m == Cardinality(S)
<1>1. /\ DOMAIN joined = Holders(kept)
      /\ \A d \in Holders(kept) : Says(joined[d], PostingsOf(d)) /\ joined[d].occurrences = Hits(d)
  BY JoinIs DEF AsksTheSame
<1>2. \A d \in Holders(kept) : \A t \in terms : d \in DOMAIN index[t]
  BY DEF Holders, AsStored
<1>3. \A d \in Holders(kept) : /\ TermSpread(joined[d], n) = Distance(d) /\ Distance(d) \in Int
                               /\ Hits(d) \in Nat
  BY <1>1, <1>2, SpreadIsDistance, HitsAre DEF AsksTheSame
<1>4. Len(asked.terms) = n
  BY OrderIs DEF AsksTheSame
<1>5. matches = MatchesWithinTermSpread(joined, criteria.maxTermSpread, n)
  BY <1>4 DEF MatchesFor, AsksTheSame
<1>6. DOMAIN matches = S /\ \A d \in S : matches[d] = joined[d]
  <2>1. criteria.maxTermSpread \in Int
    BY DEF SearchTypeInv
  <2>2. CASE criteria.maxTermSpread <= 0
    BY <1>1, <1>5, <2>1, <2>2 DEF MatchesWithinTermSpread, Within
  <2>3. CASE ~ (criteria.maxTermSpread <= 0)
    <3>1. S = {d \in DOMAIN joined : TermSpread(joined[d], n) <= criteria.maxTermSpread}
      BY <1>1, <1>3, <2>1, <2>3 DEF Within
    <3>2. matches = [d \in S |-> joined[d]]
      BY <1>5, <2>3, <3>1 DEF MatchesWithinTermSpread
    <3> QED BY <3>2
  <2> QED BY <2>2, <2>3
<1> HIDE DEF joined, matches
<1>7. S \in SUBSET Documents /\ S \subseteq Holders(kept)
  BY DEF Within, Holders
<1>8. \A d \in S : Hits(d) \in Nat /\ Distance(d) \in Int
  BY <1>3, <1>7
<1>9. IsFiniteSet(S) /\ TotalOrder(Ranking(S), S)
  BY <1>7, <1>8, BetterOrders
<1>10. \A d, e \in S : MoreRelevant(matches, n, d, e) <=> <<d, e>> \in Ranking(S)
  <2>1. ASSUME NEW d \in S, NEW e \in S
        PROVE  MoreRelevant(matches, n, d, e) <=> Better(d, e)
    <3>1. /\ matches[d].occurrences = Hits(d) /\ matches[e].occurrences = Hits(e)
          /\ TermSpread(matches[d], n) = Distance(d) /\ TermSpread(matches[e], n) = Distance(e)
      BY <1>1, <1>3, <1>6, <1>7
    <3> QED BY <3>1 DEF MoreRelevant, Better
  <2> QED BY <2>1 DEF Ranking
<1>11. m \in Nat
  BY <1>9, FS_CardinalityType
<1>12. ranked \in [1 .. m -> S]
       /\ \A i, j \in 1 .. m : i < j => MoreRelevant(matches, n, ranked[i], ranked[j])
  <2>1. PICK order : Sorted(order, Ranking(S), S)
    BY <1>9, OrderExists
  <2>2. order \in [1 .. m -> S] /\ \A i, j \in 1 .. m : i < j => <<order[i], order[j]>> \in Ranking(S)
    BY <2>1 DEF Sorted
  <2> HIDE DEF S, m, n
  <2>3. \A i, j \in 1 .. m : i < j => MoreRelevant(matches, n, order[i], order[j])
    BY <1>10, <2>2
  <2>4. \E o \in [1 .. m -> S] : \A i, j \in DOMAIN o : i < j => MoreRelevant(matches, n, o[i], o[j])
    BY <2>2, <2>3
  <2>5. ranked = CHOOSE o \in [1 .. m -> S] :
                    \A i, j \in DOMAIN o : i < j => MoreRelevant(matches, n, o[i], o[j])
    BY <1>6 DEF RankedDocuments, m
  <2>6. ranked \in [1 .. m -> S]
        /\ \A i, j \in DOMAIN ranked : i < j => MoreRelevant(matches, n, ranked[i], ranked[j])
    <3> HIDE DEF ranked
    <3> QED BY <2>4, <2>5
  <2> QED BY <2>6
<1> HIDE DEF ranked, S, m
<1>13. Sorted(ranked, Ranking(S), S)
  BY <1>10, <1>12 DEF Sorted, m
<1> DEFINE found == DocumentsFound(asked, kept)
           most == criteria.maxResults
<1>14. found = IF most > 0 /\ Len(ranked) > most THEN SubSeq(ranked, 1, most) ELSE ranked
  BY <1>4 DEF DocumentsFound, MostRelevantDocuments, ranked, matches, AsksTheSame
<1>15. most \in Nat /\ most > 0
  BY DEF SearchTypeInv
<1> HIDE DEF found, most
<1>16. ranked \in Seq(S) /\ Len(ranked) = m
  BY <1>11, <1>12
<1>17. found = [i \in 1 .. (IF m > most THEN most ELSE m) |-> ranked[i]]
  <2>1. CASE m > most
    <3>1. found = SubSeq(ranked, 1, most)
      BY <1>14, <1>15, <1>16, <2>1
    <3>2. SubSeq(ranked, 1, most) = [i \in 1 .. most |-> ranked[i]]
      BY <1>11, <1>15, <1>16, <2>1
    <3> QED BY <2>1, <3>1, <3>2
  <2>2. CASE ~ (m > most)
    <3>1. ranked = [i \in 1 .. m |-> ranked[i]]
      BY <1>12
    <3> QED BY <1>14, <1>16, <2>2, <3>1
  <2> QED BY <2>1, <2>2
<1> QED BY <1>1, <1>6, <1>7, <1>8, <1>9, <1>13, <1>17 DEF S, matches, found, m, most

\* What a search keeps under any bound is of what the request describes, and
\* without a bound all of it.
LEMMA KeptIsDescribed ==
    ASSUME SearchTypeInv, terms # {}, NEW bound, NEW kept \in KeptForSearch(index, criteria, bound)
    PROVE  AsStored(kept) /\ Holders(kept) \subseteq Described /\ Within(kept) \subseteq Near
<1> DEFINE excluded == DocumentsContaining(index, criteria.excluded)
<1>1. kept \in KeptFor(index, criteria, excluded, bound, terms)
  BY DEF KeptForSearch, terms
<1>2. \A t \in terms :
         /\ DOMAIN kept[t] \subseteq Accepted(index, criteria, excluded, t)
         /\ \A d \in DOMAIN kept[t] : kept[t][d] = index[t][d]
  BY <1>1, KeptIsMostFrequent
<1>3. AsStored(kept)
  BY <1>2 DEF AsStored, Accepted
<1>4. ASSUME NEW d \in Holders(kept) PROVE d \in Described
  <2>1. d \in Documents /\ \A t \in terms : d \in Accepted(index, criteria, excluded, t)
    BY <1>2 DEF Holders
  <2>2. \A t \in terms : d \in DOMAIN index[t] /\ Accepts(criteria, excluded, d, index[t][d])
    BY <2>1 DEF Accepted
  <2>3. \A t \in terms : Accepts(criteria, {}, d, index[t][d]) /\ d \notin excluded
    BY <2>2 DEF Accepts
  <2>4. \A t \in criteria.excluded : d \notin DOMAIN index[t]
    BY <2>3 DEF DocumentsContaining
  <2> QED BY <2>1, <2>2, <2>3, <2>4 DEF Described
<1>5. Within(kept) \subseteq Near
  BY <1>4 DEF Within, Near
<1> QED BY <1>3, <1>4, <1>5

\* Without a bound, what is found is all that is near.
LEMMA ExactIsDescribed ==
    ASSUME SearchTypeInv, terms # {}
    PROVE  /\ Exact \in KeptForSearch(index, criteria, NoCap)
           /\ \A t \in terms :
                 DOMAIN Exact[t] = Accepted(index, criteria,
                                            DocumentsContaining(index, criteria.excluded), t)
           /\ AsStored(Exact) /\ Within(Exact) = Near
<1> DEFINE excluded == DocumentsContaining(index, criteria.excluded)
<1>1. KeptForSearch(index, criteria, NoCap) = KeptFor(index, criteria, excluded, NoCap, terms)
  BY DEF KeptForSearch, terms
<1>2. Exact \in KeptForSearch(index, criteria, NoCap)
  <2>1. KeptForSearch(index, criteria, NoCap) # {}
    BY <1>1, KeptIsAccepted
  <2> QED BY <2>1 DEF Exact
<1>3. \A t \in terms : DOMAIN Exact[t] = Accepted(index, criteria, excluded, t)
  BY <1>1, <1>2, KeptIsAccepted
<1>4. ASSUME NEW d \in Described PROVE d \in Holders(Exact)
  <2>1. d \in Documents /\ d \notin excluded
    BY DEF Described, DocumentsContaining
  <2>2. \A t \in terms : d \in DOMAIN index[t] /\ Accepts(criteria, {}, d, index[t][d])
    BY DEF Described
  <2>3. \A t \in terms : Accepts(criteria, excluded, d, index[t][d])
    BY <2>1, <2>2 DEF Accepts
  <2> HIDE DEF excluded
  <2> QED BY <1>3, <2>1, <2>2, <2>3 DEF Holders, Accepted
<1>5. AsStored(Exact) /\ Within(Exact) \subseteq Near
  BY <1>2, KeptIsDescribed
<1>6. Near \subseteq Within(Exact)
  BY <1>4 DEF Near, Within
<1> QED BY <1>2, <1>3, <1>5, <1>6

\* Documents are found in their order, from the best on.
LEMMA BestAreFound ==
    ASSUME SearchTypeInv, terms # {}
    PROVE  LET found == DocumentsFound(criteria, Exact) IN
           /\ \A i \in DOMAIN found : found[i] \in Near /\ Rank(found[i]) = i
           /\ \A d \in Near : Rank(d) <= criteria.maxResults => d \in Range(found)
<1> DEFINE found == DocumentsFound(criteria, Exact)
           m == Cardinality(Near)
<1>1. AsStored(Exact) /\ Within(Exact) = Near
  BY ExactIsDescribed
<1>2. AsksTheSame(criteria)
  BY StatedOrder DEF AsksTheSame
<1>3. /\ IsFiniteSet(Near) /\ TotalOrder(Ranking(Near), Near)
      /\ \E order :
            /\ Sorted(order, Ranking(Near), Near)
            /\ found = [i \in 1 .. (IF Cardinality(Near) > criteria.maxResults
                                    THEN criteria.maxResults ELSE Cardinality(Near))
                           |-> order[i]]
  BY <1>1, <1>2, FoundIs
<1>4. PICK order :
         /\ Sorted(order, Ranking(Near), Near)
         /\ DOMAIN found = 1 .. (IF m > criteria.maxResults THEN criteria.maxResults ELSE m)
         /\ \A i \in DOMAIN found : found[i] = order[i]
  BY <1>3
<1> HIDE DEF found
<1>5. order \in [1 .. m -> Near] /\ m \in Nat /\ criteria.maxResults \in Nat
  BY <1>3, <1>4, FS_CardinalityType DEF Sorted, SearchTypeInv
<1>6. \A d \in Near : Rank(d) = Cardinality(BeforeIn(Ranking(Near), Near, d)) + 1
  <2>1. ASSUME NEW d \in Near PROVE BeforeIn(Ranking(Near), Near, d) = {e \in Near : Better(e, d)}
    BY DEF BeforeIn, Ranking
  <2> QED BY <2>1 DEF Rank
<1>7. ASSUME NEW i \in 1 .. m PROVE order[i] \in Near /\ Rank(order[i]) = i
  <2>1. order[i] \in Near
    BY <1>5
  <2>2. Cardinality(BeforeIn(Ranking(Near), Near, order[i])) = i - 1
    BY <1>3, <1>4, PlacesCount
  <2> QED BY <1>6, <2>1, <2>2
<1>8. \A d \in Near : \E i \in 1 .. m : order[i] = d
  BY <1>3, <1>4, PlacesCount
<1> HIDE DEF m
<1>9. \A i \in DOMAIN found : found[i] \in Near /\ Rank(found[i]) = i
  <2>1. \A i \in DOMAIN found : i \in 1 .. m
    BY <1>4, <1>5
  <2> QED BY <1>4, <1>7, <2>1
<1>10. ASSUME NEW d \in Near, Rank(d) <= criteria.maxResults PROVE d \in Range(found)
  <2>1. PICK i \in 1 .. m : order[i] = d
    BY <1>8
  <2>2. i <= criteria.maxResults
    BY <1>7, <1>10, <2>1
  <2>3. i \in DOMAIN found /\ found[i] = d
    BY <1>4, <1>5, <2>1, <2>2
  <2> QED BY <2>3 DEF Range
<1> QED BY <1>9, <1>10 DEF found

\* No order of the terms is better than another.
LEMMA OrderIsIgnored ==
    ASSUME SearchTypeInv
    PROVE  JoinIgnoresTermOrder
<1> SUFFICES ASSUME NEW order \in Reordered
             PROVE  LET other == [criteria EXCEPT !.terms = order]
                        mine == MatchesFor(criteria, Exact)
                        theirs == MatchesFor(other, Exact)
                    IN  /\ DocumentsFound(other, Exact) = DocumentsFound(criteria, Exact)
                        /\ \A d \in DOMAIN mine : Joined(theirs[d]) = Joined(mine[d])
  BY DEF JoinIgnoresTermOrder
<1> DEFINE n == Len(criteria.terms)
           other == [criteria EXCEPT !.terms = order]
           mine == MatchesFor(criteria, Exact)
           theirs == MatchesFor(other, Exact)
<1>1. n \in Nat /\ DOMAIN criteria.terms = 1 .. n
  BY QueryIs
<1>2. IsOrderOfTerms(order)
  <2>1. PICK p \in {p \in [DOMAIN criteria.terms -> DOMAIN criteria.terms] :
                      \A i \in DOMAIN criteria.terms : \E j \in DOMAIN criteria.terms : p[j] = i} :
           order = [i \in DOMAIN criteria.terms |-> criteria.terms[p[i]]]
    BY DEF Reordered
  <2>2. p \in [DOMAIN criteria.terms -> DOMAIN criteria.terms]
        /\ \A i \in DOMAIN criteria.terms : \E j \in DOMAIN criteria.terms : p[j] = i
    BY <2>1
  <2>3. order = [i \in 1 .. n |-> criteria.terms[p[i]]]
    BY <1>1, <2>1
  <2> QED BY <1>1, <2>2, <2>3 DEF IsOrderOfTerms
<1>3. /\ other.terms = order /\ other.maxResults = criteria.maxResults
      /\ other.maxTermSpread = criteria.maxTermSpread
  BY DEF SearchTypeInv
<1> HIDE DEF other
<1>4. CASE terms = {}
  <2>1. order = criteria.terms
    <3>1. n = 0 /\ criteria.terms = <<>>
      BY <1>4, QueryIs
    <3>2. order = <<>>
      BY <1>2, <3>1, OrderIs
    <3> QED BY <3>1, <3>2
  <2>2. mine = theirs
    BY <1>3, <2>1 DEF MatchesFor
  <2>3. DocumentsFound(other, Exact) = DocumentsFound(criteria, Exact)
    BY <1>3, <2>1, <2>2 DEF DocumentsFound
  <2> QED BY <2>2, <2>3 DEF other
<1>5. CASE terms # {}
  <2> DEFINE S == Near
  <2>1. AsStored(Exact) /\ Within(Exact) = S
    BY <1>5, ExactIsDescribed
  <2>2. AsksTheSame(criteria) /\ AsksTheSame(other)
    BY <1>2, <1>3, StatedOrder DEF AsksTheSame
  <2> HIDE DEF S
  <2>3. /\ IsFiniteSet(S) /\ TotalOrder(Ranking(S), S)
        /\ DOMAIN mine = S /\ DOMAIN theirs = S
        /\ \A d \in S : Says(mine[d], PostingsOf(d)) /\ mine[d].occurrences = Hits(d)
        /\ \A d \in S : Says(theirs[d], PostingsOf(d)) /\ theirs[d].occurrences = Hits(d)
    BY <1>5, <2>1, <2>2, FoundIs
  <2>4. ASSUME NEW d \in S PROVE Joined(theirs[d]) = Joined(mine[d])
    <3>1. PostingsOf(d) \in SUBSET PostingFields
      <4>1. d \in Holders(Exact)
        BY <2>1 DEF Within
      <4>2. \A t \in terms : d \in DOMAIN index[t] /\ t \in Terms
        BY <2>1, <4>1, QueryIs DEF Holders, AsStored
      <4> QED BY <4>2 DEF PostingsOf, SearchTypeInv
    <3> DEFINE a == mine[d]
               b == theirs[d]
    <3>2. Says(a, PostingsOf(d)) /\ Says(b, PostingsOf(d)) /\ a.occurrences = b.occurrences
      BY <2>3
    <3> HIDE DEF a, b
    <3>3. /\ a.first = b.first /\ a.last = b.last
          /\ a.posting.hits = b.posting.hits /\ a.posting.position = b.posting.position
          /\ a.posting.phrase = b.posting.phrase /\ a.posting.inPhrase = b.posting.inPhrase
      BY <3>1, <3>2, SaysOnce
    <3>4. Joined(a) = Joined(b)
      BY <3>2, <3>3 DEF Joined
    <3> QED BY <3>4 DEF a, b
  <2> DEFINE f == DocumentsFound(criteria, Exact)
             g == DocumentsFound(other, Exact)
             m == IF Cardinality(S) > criteria.maxResults
                  THEN criteria.maxResults ELSE Cardinality(S)
  <2>5. PICK one : Sorted(one, Ranking(S), S) /\ f = [i \in 1 .. m |-> one[i]]
    BY <1>5, <2>1, <2>2, FoundIs
  <2>6. PICK two : Sorted(two, Ranking(S), S) /\ g = [i \in 1 .. m |-> two[i]]
    BY <1>5, <2>1, <2>2, FoundIs
  <2>7. one = two
    BY <2>3, <2>5, <2>6, SortedOnce
  <2> HIDE DEF f, g, m
  <2>8. f = g
    BY <2>5, <2>6, <2>7
  <2> QED BY <2>3, <2>4, <2>8 DEF f, g, other
<1> QED BY <1>4, <1>5

\* Who asks for no terms finds nothing.
LEMMA NothingAsked ==
    ASSUME SearchTypeInv, terms = {}, NEW kept
    PROVE  DOMAIN DocumentsFound(criteria, kept) = {}
<1> DEFINE matches == MatchesFor(criteria, kept)
           n == Len(criteria.terms)
           ranked == RankedDocuments(matches, n)
<1>1. criteria.terms = <<>>
  BY QueryIs
<1>2. MatchesAcrossEveryTerm(criteria.terms, kept) = <<>> /\ DOMAIN <<>> = {}
  BY <1>1 DEF MatchesAcrossEveryTerm
<1>3. DOMAIN matches = {}
  BY <1>2 DEF MatchesFor, MatchesWithinTermSpread
<1> HIDE DEF matches
<1>4. Cardinality({}) = 0 /\ 1 .. 0 = {}
  BY FS_EmptySet
<1>5. ranked = CHOOSE order \in [1 .. 0 -> {}] :
          \A i, j \in DOMAIN order : i < j => MoreRelevant(matches, n, order[i], order[j])
  BY <1>3, <1>4 DEF RankedDocuments
<1>6. \E order \in [1 .. 0 -> {}] :
          \A i, j \in DOMAIN order : i < j => MoreRelevant(matches, n, order[i], order[j])
  <2> DEFINE none == [i \in 1 .. 0 |-> i]
  <2>1. none \in [1 .. 0 -> {}] /\ DOMAIN none = {}
    BY <1>4
  <2> HIDE DEF none
  <2> QED BY <2>1
<1>7. ranked \in [1 .. 0 -> {}]
  <2> HIDE DEF ranked
  <2> QED BY <1>5, <1>6
<1> HIDE DEF ranked
<1>8. DOMAIN ranked = {} /\ Len(ranked) = 0
  BY <1>4, <1>7
<1>9. criteria.maxResults \in Nat /\ criteria.maxResults > 0
  BY DEF SearchTypeInv
<1>10. DocumentsFound(criteria, kept) = ranked
  BY <1>8, <1>9 DEF DocumentsFound, MostRelevantDocuments, matches, ranked
<1> QED BY <1>8, <1>10

\* So of every request, for terms or for none.
LEMMA BestAreFoundWhateverIsAsked ==
    ASSUME SearchTypeInv
    PROVE  FindsTheMostRelevant
<1>1. CASE terms = {}
  BY <1>1, NothingAsked, OrderIsIgnored DEF FindsTheMostRelevant
<1>2. CASE terms # {}
  BY <1>2, BestAreFound, OrderIsIgnored DEF FindsTheMostRelevant
<1> QED BY <1>1, <1>2

\* A search without a bound finds the documents the request describes, the best
\* of them first, however the index was filled and whatever it is asked.
THEOREM SearchFindsTheBest == SearchInit /\ [][IndexChanges]_searchVars => []FindsTheMostRelevant
<1>1. SearchTypeInv => FindsTheMostRelevant
  BY BestAreFoundWhateverIsAsked
<1> QED BY <1>1, SearchStaysTyped, PTL

----------------------------------------------------------------------------
\* A bound on the postings of a term.

\* No more come before an element than its place says.
LEMMA TooManyBefore ==
    ASSUME NEW S, IsFiniteSet(S), NEW R, TotalOrder(R, S), NEW order, Sorted(order, R, S),
           NEW i \in 1 .. Cardinality(S), NEW others,
           \A j \in 1 .. i : others[j] \in S /\ <<others[j], order[i]>> \in R,
           \A j, k \in 1 .. i : others[j] = others[k] => j = k
    PROVE  FALSE
<1> DEFINE before == BeforeIn(R, S, order[i])
           first == [j \in 1 .. i |-> others[j]]
<1>1. Cardinality(before) = i - 1
  BY PlacesCount
<1>2. IsFiniteSet(before)
  BY FS_Subset DEF BeforeIn
<1>3. first \in Injection(1 .. i, before)
  <2>1. first \in [1 .. i -> before]
    BY DEF BeforeIn
  <2>2. \A j, k \in 1 .. i : first[j] = first[k] => j = k
    OBVIOUS
  <2> HIDE DEF first, before
  <2> QED BY <2>1, <2>2 DEF Injection, IsInjective
<1>4. i \in Nat /\ Cardinality(1 .. i) = i
  <2>1. Cardinality(S) \in Nat
    BY FS_CardinalityType
  <2>2. i \in Nat /\ i >= 1 /\ 1 \in Int /\ i \in Int
    BY <2>1
  <2> QED BY <2>2, FS_Interval
<1> HIDE DEF first, before
<1>5. Cardinality(1 .. i) <= Cardinality(before)
  BY <1>2, <1>3, FS_Injection
<1> QED BY <1>1, <1>4, <1>5

\* The best of a set are as frequent as the best of the most frequent of it.
LEMMA BestOfTheMostFrequent ==
    ASSUME NEW all, IsFiniteSet(all), TotalOrder(Ranking(all), all),
           NEW some \in SUBSET all, TotalOrder(Ranking(some), some),
           \A d \in all : Hits(d) \in Nat,
           \A d \in some, e \in all \ some : Hits(d) >= Hits(e),
           NEW best, Sorted(best, Ranking(all), all),
           NEW order, Sorted(order, Ranking(some), some)
    PROVE  \A i \in 1 .. Cardinality(some) : /\ i \in 1 .. Cardinality(all)
                                             /\ Hits(order[i]) = Hits(best[i])
<1> DEFINE n == Cardinality(some)
           m == Cardinality(all)
<1>1. IsFiniteSet(some) /\ n <= m /\ n \in Nat /\ m \in Nat
  BY FS_Subset, FS_CardinalityType
<1>2. /\ best \in [1 .. m -> all] /\ order \in [1 .. n -> some]
      /\ \A i, j \in 1 .. m : i < j => Better(best[i], best[j])
      /\ \A i, j \in 1 .. n : i < j => Better(order[i], order[j])
  BY DEF Sorted, Ranking
<1>3. \A d, e \in all : Better(d, e) => Hits(d) >= Hits(e)
  BY DEF Better
<1>4. \A d, e \in all : Hits(d) > Hits(e) => Better(d, e)
  BY DEF Better
<1>5. /\ \A i, j \in 1 .. m : best[i] = best[j] => i = j
      /\ \A i, j \in 1 .. n : order[i] = order[j] => i = j
  <2>1. \A d \in all : ~ Better(d, d)
    <3>1. \A d \in all : <<d, d>> \notin Ranking(all)
      BY DEF TotalOrder
    <3> QED BY <3>1 DEF Ranking
  <2>2. \A i, j \in 1 .. m : i < j => best[i] # best[j]
    BY <1>2, <2>1
  <2>3. \A i, j \in 1 .. n : i < j => order[i] # order[j]
    BY <1>2, <2>1
  <2>4. \A i, j \in 1 .. m : i = j \/ i < j \/ j < i
    BY <1>1
  <2>5. \A i, j \in 1 .. n : i = j \/ i < j \/ j < i
    BY <1>1
  <2> HIDE DEF n, m
  <2> QED BY <2>2, <2>3, <2>4, <2>5
<1> HIDE DEF n, m
<1>6. SUFFICES ASSUME NEW i \in 1 .. n
               PROVE  i \in 1 .. m /\ Hits(order[i]) = Hits(best[i])
  BY DEF n, m
<1>7. i \in 1 .. m /\ \A j \in 1 .. i : j \in 1 .. n /\ j \in 1 .. m
  BY <1>1
<1>8. order[i] \in some /\ order[i] \in all /\ best[i] \in all
  BY <1>2, <1>7
<1>9. ASSUME Hits(order[i]) < Hits(best[i]) PROVE FALSE
  <2>1. ASSUME NEW j \in 1 .. i PROVE best[j] \in some /\ Better(best[j], order[i])
    <3>1. best[j] \in all /\ Hits(best[j]) >= Hits(best[i])
      <4>1. j = i \/ j < i
        BY <1>7
      <4> QED BY <1>2, <1>3, <1>7, <4>1
    <3>2. Hits(best[j]) > Hits(order[i])
      BY <1>8, <1>9, <3>1
    <3>3. best[j] \in some
      BY <1>8, <3>1, <3>2
    <3> QED BY <1>4, <1>8, <3>1, <3>2, <3>3
  <2>2. \A j \in 1 .. i : best[j] \in some /\ <<best[j], order[i]>> \in Ranking(some)
    BY <1>8, <2>1 DEF Ranking
  <2>3. \A j, k \in 1 .. i : best[j] = best[k] => j = k
    BY <1>5, <1>7
  <2>4. i \in 1 .. Cardinality(some)
    BY DEF n
  <2> QED BY <1>1, <2>2, <2>3, <2>4, TooManyBefore
<1>10. ASSUME Hits(order[i]) > Hits(best[i]) PROVE FALSE
  <2>1. ASSUME NEW j \in 1 .. i PROVE order[j] \in all /\ Better(order[j], best[i])
    <3>1. order[j] \in all /\ Hits(order[j]) >= Hits(order[i])
      <4>1. j = i \/ j < i
        BY <1>7
      <4> QED BY <1>2, <1>3, <1>7, <4>1
    <3>2. Hits(order[j]) > Hits(best[i])
      BY <1>8, <1>10, <3>1
    <3> QED BY <1>4, <1>8, <3>1, <3>2
  <2>2. \A j \in 1 .. i : order[j] \in all /\ <<order[j], best[i]>> \in Ranking(all)
    BY <1>8, <2>1 DEF Ranking
  <2>3. \A j, k \in 1 .. i : order[j] = order[k] => j = k
    BY <1>5, <1>7
  <2>4. i \in 1 .. Cardinality(all)
    BY <1>7 DEF m
  <2> QED BY <2>2, <2>3, <2>4, TooManyBefore
<1>11. Hits(order[i]) \in Nat /\ Hits(best[i]) \in Nat
  BY <1>8
<1> QED BY <1>7, <1>9, <1>10, <1>11

\* Of one term, a document has the hits its posting counts, and no distance.
LEMMA OneTermIs ==
    ASSUME SearchTypeInv, Len(criteria.terms) = 1
    PROVE  \E t \in Terms :
             /\ terms = {t}
             /\ \A d : d \in DOMAIN index[t] => Hits(d) = index[t][d].hits
             /\ \A d : Distance(d) = 0
<1> DEFINE t == criteria.terms[1]
<1>1. DOMAIN criteria.terms = 1 .. 1 /\ 1 .. 1 = {1}
  BY QueryIs
<1>2. t \in terms /\ t \in Terms /\ terms = {t}
  <2>1. terms = {criteria.terms[i] : i \in {1}}
    BY <1>1 DEF terms, Range
  <2>2. terms \subseteq Terms
    BY QueryIs
  <2> QED BY <2>1, <2>2
<1>3. ASSUME NEW d, d \in DOMAIN index[t] PROVE Hits(d) = index[t][d].hits
  <2> DEFINE hits == [i \in 1 .. 1 |-> index[criteria.terms[i]][d].hits]
  <2>1. hits[1] = index[t][d].hits /\ hits[1] \in Nat
    BY <1>1, <1>2, <1>3 DEF SearchTypeInv, PostingFields
  <2> HIDE DEF hits
  <2>2. Occurring(hits, 0) = {} /\ IsFiniteSet({}) /\ Cardinality({}) = 0
    BY FS_EmptySet DEF Occurring
  <2>3. \A i \in 1 .. 0 + 1 : hits[i] \in Nat
    BY <2>1
  <2>4. Cardinality(Occurring(hits, 0 + 1)) = Cardinality(Occurring(hits, 0)) + hits[0 + 1]
    <3>1. IsFiniteSet(Occurring(hits, 0)) /\ 0 \in Nat
      BY <2>2
    <3> HIDE DEF t
    <3> QED BY <2>3, <3>1, OccurrencesAdd
  <2>5. Cardinality(Occurring(hits, 1)) = hits[1]
    BY <2>1, <2>2, <2>4
  <2>6. Cardinality(Occurring(hits, 1)) = Hits(d)
    BY <1>2, <1>3, HitsAre, StatedOrder DEF hits
  <2> QED BY <2>1, <2>5, <2>6
<1>4. \A d : Distance(d) = 0
  BY DEF Distance
<1> QED BY <1>2, <1>3, <1>4

\* What a term keeps is some of what is accepted, the most frequent.
LEMMA KeptAreFrequent ==
    ASSUME NEW postings, NEW documents, NEW bound, NEW some \in MostFrequent(postings, documents, bound),
           \A d \in documents : postings[d].hits \in Nat
    PROVE  \A d \in some, e \in documents \ some : postings[d].hits >= postings[e].hits
  BY DEF MostFrequent

\* A search for one term, whose bound keeps its most frequent postings.
LEMMA BestOfOneTerm ==
    ASSUME SearchTypeInv, Len(criteria.terms) = 1, NEW kept \in KeptForSearch(index, criteria, cap)
    PROVE  LET found == DocumentsFound(criteria, kept)
               exact == DocumentsFound(criteria, Exact)
           IN  \A i \in DOMAIN found : Hits(found[i]) = Hits(exact[i])
<1> DEFINE found == DocumentsFound(criteria, kept)
           exact == DocumentsFound(criteria, Exact)
           excluded == DocumentsContaining(index, criteria.excluded)
           all == Within(Exact)
           some == Within(kept)
           most == criteria.maxResults
<1>1. PICK t \in Terms :
         /\ terms = {t}
         /\ \A d : d \in DOMAIN index[t] => Hits(d) = index[t][d].hits
         /\ \A d : Distance(d) = 0
  BY OneTermIs
<1>2. terms # {} /\ t \in terms
  BY <1>1
<1> DEFINE accepted == Accepted(index, criteria, excluded, t)
<1>3. /\ DOMAIN kept[t] \in MostFrequent(index[t], accepted, cap)
      /\ DOMAIN kept[t] \subseteq accepted /\ DOMAIN Exact[t] = accepted
  <2>1. kept \in KeptFor(index, criteria, excluded, cap, terms)
    BY DEF KeptForSearch, terms
  <2>2. DOMAIN Exact[t] = accepted
    BY <1>2, ExactIsDescribed
  <2> QED BY <1>2, <2>1, <2>2, KeptIsMostFrequent
<1>4. accepted \subseteq DOMAIN index[t] /\ accepted \subseteq Documents
  BY DEF Accepted, SearchTypeInv
<1> HIDE DEF accepted, excluded
<1>5. all = accepted /\ some = DOMAIN kept[t] /\ some \subseteq all
  <2>1. criteria.maxTermSpread \in Int
    BY DEF SearchTypeInv
  <2>2. Within(Exact) = Holders(Exact) /\ Within(kept) = Holders(kept)
    BY <1>1, <2>1 DEF Within, Holders
  <2>3. Holders(Exact) = DOMAIN Exact[t] /\ Holders(kept) = DOMAIN kept[t]
    BY <1>1, <1>3, <1>4 DEF Holders
  <2> QED BY <1>3, <2>2, <2>3
<1>6. \A d \in accepted : Hits(d) = index[t][d].hits /\ Hits(d) \in Nat
  BY <1>1, <1>4 DEF SearchTypeInv, PostingFields
<1>7. \A d \in some, e \in all \ some : Hits(d) >= Hits(e)
  <2>1. \A d \in accepted : index[t][d].hits \in Nat
    BY <1>6
  <2>2. \A d \in DOMAIN kept[t], e \in accepted \ DOMAIN kept[t] : index[t][d].hits >= index[t][e].hits
    BY <1>3, <2>1, KeptAreFrequent
  <2> QED BY <1>3, <1>5, <1>6, <2>2
<1>8. AsStored(kept) /\ AsStored(Exact) /\ AsksTheSame(criteria)
  BY <1>2, KeptIsDescribed, ExactIsDescribed, StatedOrder DEF AsksTheSame
<1>9. /\ IsFiniteSet(all) /\ TotalOrder(Ranking(all), all)
      /\ \E order : /\ Sorted(order, Ranking(all), all)
                    /\ exact = [i \in 1 .. (IF Cardinality(all) > most THEN most ELSE Cardinality(all))
                                   |-> order[i]]
  BY <1>2, <1>8, FoundIs
<1>10. /\ TotalOrder(Ranking(some), some)
       /\ \E order : /\ Sorted(order, Ranking(some), some)
                     /\ found = [i \in 1 .. (IF Cardinality(some) > most THEN most ELSE Cardinality(some))
                                    |-> order[i]]
  BY <1>2, <1>8, FoundIs
<1>11. Cardinality(all) \in Nat /\ Cardinality(some) \in Nat /\ most \in Nat
  <2>1. IsFiniteSet(some)
    BY <1>5, <1>9, FS_Subset
  <2> QED BY <1>9, <2>1, FS_CardinalityType DEF SearchTypeInv
<1> HIDE DEF all, some, found, exact, most
<1>12. PICK best :
          /\ Sorted(best, Ranking(all), all)
          /\ exact = [i \in 1 .. (IF Cardinality(all) > most THEN most ELSE Cardinality(all)) |-> best[i]]
  BY <1>9
<1>13. PICK order :
          /\ Sorted(order, Ranking(some), some)
          /\ found = [i \in 1 .. (IF Cardinality(some) > most THEN most ELSE Cardinality(some)) |-> order[i]]
  BY <1>10
<1>14. \A i \in 1 .. Cardinality(some) : /\ i \in 1 .. Cardinality(all)
                                         /\ Hits(order[i]) = Hits(best[i])
  BY <1>5, <1>6, <1>7, <1>9, <1>10, <1>12, <1>13, BestOfTheMostFrequent
<1>15. ASSUME NEW i \in DOMAIN found PROVE Hits(found[i]) = Hits(exact[i])
  <2>1. i \in 1 .. Cardinality(some) /\ i <= most /\ found[i] = order[i]
    BY <1>11, <1>13
  <2>2. i \in 1 .. Cardinality(all)
    BY <1>14, <2>1
  <2>3. exact[i] = best[i]
    BY <1>11, <1>12, <2>1, <2>2
  <2> QED BY <1>14, <2>1, <2>3
<1> QED BY <1>15 DEF found, exact

\* Under any bound: a document has no later place among what is kept than among
\* all that is near.
LEMMA UndroppedAreFound ==
    ASSUME SearchTypeInv, terms # {}, NEW kept \in KeptForSearch(index, criteria, cap)
    PROVE  LET found == DocumentsFound(criteria, kept) IN
           /\ Range(found) \subseteq Near
           /\ \A i, j \in DOMAIN found : i < j => Better(found[i], found[j])
           /\ \A d \in Near :
                 (\A t \in terms : d \in DOMAIN kept[t]) /\ Rank(d) <= criteria.maxResults
                    => d \in Range(found)
<1> DEFINE found == DocumentsFound(criteria, kept)
           S == Within(kept)
           m == Cardinality(S)
           most == criteria.maxResults
<1>1. AsStored(kept) /\ S \subseteq Near /\ AsksTheSame(criteria)
  BY KeptIsDescribed, StatedOrder DEF AsksTheSame
<1>2. IsFiniteSet(S) /\ TotalOrder(Ranking(S), S)
      /\ \E order : /\ Sorted(order, Ranking(S), S)
                    /\ found = [i \in 1 .. (IF m > most THEN most ELSE m) |-> order[i]]
  BY <1>1, FoundIs
<1>3. \A d \in Near : (\A t \in terms : d \in DOMAIN kept[t]) => d \in S
  BY DEF Near, Described, Within, Holders
<1>4. IsFiniteSet(Near)
  BY SearchAssumption, FS_Subset DEF Near, Described
<1> HIDE DEF found, S
<1>5. PICK order : /\ Sorted(order, Ranking(S), S)
                   /\ found = [i \in 1 .. (IF m > most THEN most ELSE m) |-> order[i]]
  BY <1>2
<1>6. m \in Nat /\ most \in Nat
  BY <1>2, FS_CardinalityType DEF SearchTypeInv
<1>7. \A i \in DOMAIN found : i \in 1 .. m /\ found[i] = order[i]
  BY <1>5, <1>6
<1>8. order \in [1 .. m -> S] /\ \A i, j \in 1 .. m : i < j => <<order[i], order[j]>> \in Ranking(S)
  BY <1>5 DEF Sorted
<1> HIDE DEF m, most
<1>9. Range(found) \subseteq Near
  BY <1>1, <1>7, <1>8 DEF Range
<1>10. \A i, j \in DOMAIN found : i < j => Better(found[i], found[j])
  BY <1>7, <1>8 DEF Ranking
<1>11. ASSUME NEW d \in Near, \A t \in terms : d \in DOMAIN kept[t], Rank(d) <= most
       PROVE  d \in Range(found)
  <2>1. d \in S
    BY <1>3, <1>11
  <2>2. PICK i \in 1 .. m : order[i] = d
    BY <1>2, <1>5, <2>1, PlacesCount DEF m
  <2>3. Cardinality(BeforeIn(Ranking(S), S, d)) = i - 1
    BY <1>2, <1>5, <2>2, PlacesCount DEF m
  <2> DEFINE better == {e \in Near : Better(e, d)}
  <2>4. Rank(d) = Cardinality(better) + 1
    BY DEF Rank
  <2>5. BeforeIn(Ranking(S), S, d) \subseteq better
    BY <1>1 DEF BeforeIn, Ranking
  <2>6. IsFiniteSet(better)
    BY <1>4, FS_Subset
  <2> HIDE DEF better
  <2>7. /\ Cardinality(BeforeIn(Ranking(S), S, d)) <= Cardinality(better)
        /\ Cardinality(better) \in Nat
    BY <2>5, <2>6, FS_Subset, FS_CardinalityType
  <2>8. i <= most
    BY <1>6, <1>11, <2>3, <2>4, <2>7
  <2>9. i \in DOMAIN found /\ found[i] = d
    BY <1>5, <1>6, <2>2, <2>8
  <2> QED BY <2>9 DEF Range
<1> QED BY <1>9, <1>10, <1>11 DEF found, most

\* So under every bound and for every request.
LEMMA CapCostsOnlyDocuments ==
    ASSUME SearchTypeInv
    PROVE  CapKeepsTheBest
<1> SUFFICES ASSUME NEW kept \in KeptForSearch(index, criteria, cap)
             PROVE  LET found == DocumentsFound(criteria, kept)
                        exact == DocumentsFound(criteria, Exact)
                    IN  /\ Range(found) \subseteq Near
                        /\ \A i, j \in DOMAIN found : i < j => Better(found[i], found[j])
                        /\ terms # {} =>
                             \A d \in Near :
                                (\A t \in terms : d \in DOMAIN kept[t]) /\ Rank(d) <= criteria.maxResults
                                   => d \in Range(found)
                        /\ Len(criteria.terms) = 1 =>
                             \A i \in DOMAIN found : Hits(found[i]) = Hits(exact[i])
  BY DEF CapKeepsTheBest
<1> DEFINE found == DocumentsFound(criteria, kept)
<1>1. CASE terms = {}
  <2>1. DOMAIN found = {} /\ Len(criteria.terms) = 0
    BY <1>1, NothingAsked, QueryIs
  <2> HIDE DEF found
  <2>2. Range(found) = {}
    BY <2>1 DEF Range
  <2> QED BY <1>1, <2>1, <2>2 DEF found
<1>2. CASE terms # {}
  <2>1. /\ Range(found) \subseteq Near
        /\ \A i, j \in DOMAIN found : i < j => Better(found[i], found[j])
        /\ \A d \in Near :
              (\A t \in terms : d \in DOMAIN kept[t]) /\ Rank(d) <= criteria.maxResults
                 => d \in Range(found)
    BY <1>2, UndroppedAreFound
  <2>2. Len(criteria.terms) = 1 =>
           LET exact == DocumentsFound(criteria, Exact) IN
           \A i \in DOMAIN found : Hits(found[i]) = Hits(exact[i])
    BY BestOfOneTerm
  <2> QED BY <2>1, <2>2
<1> QED BY <1>1, <1>2

\* Whatever a term loses to its bound, what a search finds is described and in its
\* order, only what some term dropped loses its place, and a search for one term
\* gets documents as frequent as the best ones.
THEOREM CapCostsNoBest == SearchInit /\ [][IndexChanges]_searchVars => []CapKeepsTheBest
<1>1. SearchTypeInv => CapKeepsTheBest
  BY CapCostsOnlyDocuments
<1> QED BY <1>1, SearchStaysTyped, PTL

----------------------------------------------------------------------------
\* The settings of the programs.

\* What a program reads a setting by.
ReadBy(p, env, name, readers) ==
    LET settings == Settings(p, env)
    IN  name \in DOMAIN settings /\ settings[name].by \in readers

\* A setting read as a positive number or a duration is above zero once the
\* program starts, whether it was stated or left out (Int, Duration).
LEMMA CountedIsPositive ==
    ASSUME NEW p, NEW env, NEW name, Starts(p, env), ReadBy(p, env, name, {"positive", "span"})
    PROVE  Values(p, env)[name] \in Nat /\ Values(p, env)[name] > 0
<1> DEFINE settings == Settings(p, env)
           taken == Takes(settings[name], Stated(env, name))
<1>1. name \in DOMAIN settings /\ taken \in Acceptable[settings[name].by]
    BY DEF Starts, ReadBy
<1>2. Values(p, env)[name] = IF taken.is = "size" THEN SizeIn(taken.n) ELSE taken.n
    BY <1>1 DEF Values, Taken
<1>3. taken \in NumberTexts(Positive) \union Spans
    BY <1>1 DEF ReadBy, Acceptable
<1> HIDE DEF taken
<1>4. taken.is # "size" /\ taken.n \in Nat /\ taken.n > 0
    BY <1>3 DEF NumberTexts, Spans, Positive
<1> QED BY <1>2, <1>4

\* A setting that is required, or an address, is not blank once it starts.
LEMMA NamedIsThere ==
    ASSUME NEW p, NEW env, NEW name, Starts(p, env), ReadBy(p, env, name, {"required", "httpURL"})
    PROVE  Taken(p, env)[name] # Blank
<1> DEFINE settings == Settings(p, env)
           taken == Takes(settings[name], Stated(env, name))
<1>1. name \in DOMAIN settings /\ taken \in Acceptable[settings[name].by]
    BY DEF Starts, ReadBy
<1>2. Taken(p, env)[name] = taken
    BY <1>1 DEF Taken
<1>3. taken \in SomeText \union [is: {"http", "https"}, n: Int]
    <2>1. settings[name].by \in {"required", "httpURL"}
        BY DEF ReadBy
    <2>2. Acceptable["required"] = SomeText /\ Acceptable["httpURL"] = [is: {"http", "https"}, n: Int]
        BY DEF Acceptable
    <2> HIDE DEF taken, settings
    <2> QED BY <1>1, <2>1, <2>2
<1> HIDE DEF taken
<1> QED BY <1>2, <1>3 DEF SomeText, Blank, Word, Text

\* What a program's own settings read a text by, it reads it by; none of them is
\* the level of the log.
LEMMA OwnSettings ==
    ASSUME NEW p, NEW env, NEW own, Settings(p, env) = Logging ++ own,
           NEW name \in DOMAIN own, name # "LogLevel", NEW readers, own[name].by \in readers
    PROVE  ReadBy(p, env, name, readers)
BY DEF ReadBy, Logging, ++

\* The settings a node counts on are positive, those of a switched-off part aside.
LEMMA NodeReads ==
    ASSUME NEW env
    PROVE  /\ \A name \in NodeCountsOn(env) : ReadBy("yacynode", env, name, {"positive", "span"})
           /\ \A name \in Names("yacynode", env) :
                 ReadBy("yacynode", env, name, {"required", "httpURL"})
<1> DEFINE own == NodeSettings(env)
<1>1. Settings("yacynode", env) = Logging ++ own
    BY DEF Settings
<1> DEFINE peers == {"AnnounceInterval", "PeerContactConcurrency", "KnownRosterCapacity",
                     "ReachableRosterCapacity"}
           rounds == {"DistributionRedundancy", "PostingsPerBatch", "CycleInterval", "DrainBudget",
                      "LongestOfferInterval", "ShortestOfferInterval", "RecipientCooldown",
                      "MinReachablePeers", "URLMetadataBatchSize"}
<1>2. /\ peers \subseteq DOMAIN PeerExchange
      /\ \A name \in peers : PeerExchange[name].by \in {"positive", "span"}
      /\ rounds \subseteq DOMAIN Distribution
      /\ \A name \in rounds : Distribution[name].by \in {"positive", "span"}
    BY DEF PeerExchange, Distribution, OfferInterval, By, Free, ++
<1>3. /\ Escrow["EscrowPostingCapacity"].by = "positive"
      /\ Egress["EgressProxyURL"].by = "httpURL"
      /\ TakesOffers(env) => PageOfferIntake(env)["PageOfferIntakeConcurrency"].by = "positive"
      /\ Announcing(env) => Identity(env)["AdvertiseHost"].by = "required"
    BY DEF Escrow, Egress, PageOfferIntake, Identity, By, Wanted, ReadIf
<1>4. /\ DOMAIN Serving = {"PeerAddr", "OpsAddr", "TrustedProxies"}
      /\ DOMAIN PeerExchange = peers \union {"SeedlistURLs"}
      /\ DOMAIN Identity(env) =
            {"InitialPeerHash", "PeerName", "NetworkName", "AdvertiseHost", "AdvertisePort"}
      /\ DOMAIN Storage =
            {"DataDir", "StorageQuota", "PebbleBlockCache", "PebbleMemtableSize",
             "PebbleCompactionConcurrency", "PebbleOpenFileLimit"}
      /\ DOMAIN Escrow = {"EscrowPostingCapacity"} /\ DOMAIN Egress = {"EgressProxyURL"}
      /\ DOMAIN PageOfferIntake(env) =
            {"PageOfferNATSURL", "PageOfferDurable", "PageOfferIntakeConcurrency"}
    BY DEF Serving, PeerExchange, Identity, Storage, Escrow, Egress, PageOfferIntake
<1>5. DOMAIN Distribution = rounds \union {"DistributionEnabled", "PartitionExponent"}
    BY DEF Distribution, OfferInterval, ++
<1>6. /\ \A name \in peers : name \in DOMAIN own /\ own[name] = PeerExchange[name]
      /\ \A name \in rounds : name \in DOMAIN own /\ own[name] = Distribution[name]
      /\ "EscrowPostingCapacity" \in DOMAIN own
      /\ own["EscrowPostingCapacity"] = Escrow["EscrowPostingCapacity"]
    <2> DEFINE last == Distribution ++ (Egress ++ PageOfferIntake(env))
               rest == Identity(env) ++ (Storage ++ (Escrow ++ last))
    <2>1. own = Serving ++ (PeerExchange ++ rest)
        BY DEF NodeSettings
    <2>2. rounds \subseteq DOMAIN last /\ \A name \in rounds : last[name] = Distribution[name]
        BY <1>5 DEF ++
    <2> HIDE DEF last
    <2>3. /\ "EscrowPostingCapacity" \in DOMAIN rest
          /\ rest["EscrowPostingCapacity"] = Escrow["EscrowPostingCapacity"]
          /\ rounds \subseteq DOMAIN rest /\ \A name \in rounds : rest[name] = last[name]
        BY <1>4, <2>2 DEF ++
    <2> HIDE DEF rest, own
    <2> QED BY <1>4, <2>1, <2>2, <2>3 DEF ++
<1>7. /\ "EgressProxyURL" \in DOMAIN own /\ own["EgressProxyURL"] = Egress["EgressProxyURL"]
      /\ "PageOfferIntakeConcurrency" \in DOMAIN own
      /\ own["PageOfferIntakeConcurrency"] = PageOfferIntake(env)["PageOfferIntakeConcurrency"]
      /\ "AdvertiseHost" \in DOMAIN own
      /\ own["AdvertiseHost"] = Identity(env)["AdvertiseHost"]
    BY <1>4, <1>5 DEF NodeSettings, ++
<1> HIDE DEF own
<1>8. \A name \in NodeCountsOn(env) :
         name \in DOMAIN own /\ name # "LogLevel" /\ own[name].by \in {"positive", "span"}
    BY <1>2, <1>3, <1>6, <1>7 DEF NodeCountsOn
<1>9. \A name \in Names("yacynode", env) :
         name \in DOMAIN own /\ name # "LogLevel" /\ own[name].by \in {"required", "httpURL"}
    BY <1>3, <1>7 DEF Names
<1> QED BY <1>1, <1>8, <1>9, OwnSettings

\* A crawler reads by these what it counts on.
LEMMA CrawlerReads ==
    ASSUME NEW env, NEW name \in CountsOn("yacycrawler", env)
    PROVE  ReadBy("yacycrawler", env, name, {"positive", "span"})
BY DEF CountsOn, ReadBy, Settings, Logging, CrawlerSettings, FetchLimits, By, Free, Wanted, ++

\* The scraping service.
LEMMA PageScrapeReads ==
    ASSUME NEW env, NEW name \in CountsOn("pagescrape", env)
    PROVE  ReadBy("pagescrape", env, name, {"positive", "span"})
BY DEF CountsOn, ReadBy, Settings, Logging, PageScrapeSettings, FetchSettings, StreamSettings,
       By, Free, Wanted, ++

\* The corpora, and the index of the corpus of texts, which is one of the two.
LEMMA CorpusReads ==
    ASSUME NEW env
    PROVE  /\ \A p \in {"corpustext", "corpusmarkdown"} : \A name \in CountsOn(p, env) :
                 ReadBy(p, env, name, {"positive", "span"})
           /\ Starts("corpustext", env) =>
                \A name \in Names("corpustext", env) :
                   ReadBy("corpustext", env, name, {"required", "httpURL"})
<1>1. \A p \in {"corpustext", "corpusmarkdown"} : \A name \in CountsOn(p, env) :
         ReadBy(p, env, name, {"positive", "span"})
    BY DEF CountsOn, ReadBy, Settings, Logging, CorpusTextSettings, CorpusMarkdownSettings,
           By, Free, Wanted, ++
<1>2. ASSUME Starts("corpustext", env)
      PROVE  Indexes(env, "elasticsearch") \/ Indexes(env, "manticore")
    <2> DEFINE settings == Settings("corpustext", env)
               setting == settings["SearchIndexEngine"]
    <2>1. "SearchIndexEngine" \in DOMAIN settings /\ setting = Wanted("engine")
        BY DEF Settings, Logging, CorpusTextSettings, ++
    <2>2. Takes(setting, Stated(env, "SearchIndexEngine"))
             \in {Word("elasticsearch"), Word("manticore")}
        BY <1>2, <2>1 DEF Starts, Acceptable, Wanted, By
    <2> HIDE DEF setting
    <2>3. Blank \notin {Word("elasticsearch"), Word("manticore")}
        BY DEF Blank, Word, Text
    <2> QED BY <2>1, <2>2, <2>3 DEF Takes, Wanted, By, Indexes
<1>3. ASSUME Starts("corpustext", env), NEW name \in Names("corpustext", env)
      PROVE  ReadBy("corpustext", env, name, {"required", "httpURL"})
    BY <1>2, <1>3 DEF Names, ReadBy, Settings, Logging, CorpusTextSettings, By, Free, Wanted,
           ReadIf, ++
<1> QED BY <1>1, <1>3

\* The research tools.
LEMMA WebResearchReads ==
    ASSUME NEW env, NEW name \in CountsOn("webresearchmcp", env)
    PROVE  ReadBy("webresearchmcp", env, name, {"positive", "span"})
BY DEF CountsOn, ReadBy, Settings, Logging, WebResearchSettings, CallDeadlines, AnswerLimits,
       By, Free, Wanted, ++

\* The crawl of visits, and the render proxy.
LEMMA VisitAndRenderRead ==
    ASSUME NEW env, NEW p \in {"visitcrawl", "renderproxy"}, NEW name \in CountsOn(p, env)
    PROVE  ReadBy(p, env, name, {"positive", "span"})
<1>1. CASE p = "visitcrawl"
  <2>1. name \in {"OrderTimeout", "MaxInFlight", "MaxBodyBytes"}
    BY <1>1 DEF CountsOn
  <2> QED BY <1>1, <2>1 DEF ReadBy, Settings, Logging, VisitCrawlSettings, CrawlProfile,
                            By, Free, Wanted, ++
<1>2. CASE p = "renderproxy"
  <2>1. name \in {"RenderConcurrency", "RequestDeadline"}
    BY <1>2 DEF CountsOn
  <2> QED BY <1>2, <2>1 DEF ReadBy, Settings, Logging, RenderProxySettings, By, Free, Wanted, ++
<1> QED BY <1>1, <1>2

\* The scrape of an archive publishes its requests, unless it only lists them.
LEMMA ArchiveReads ==
    ASSUME NEW env, NEW name \in Names("webarchivescrape", env)
    PROVE  ReadBy("webarchivescrape", env, name, {"required", "httpURL"})
BY DEF Names, ReadBy, Settings, Logging, ArchiveScrapeSettings, By, Free, Wanted, ++

\* Every program that starts can run, whatever its environment.
LEMMA StartedRuns ==
    ASSUME NEW p, NEW env, Starts(p, env)
    PROVE  Runnable(p, env)
<1>1. \A name \in CountsOn(p, env) : ReadBy(p, env, name, {"positive", "span"})
    <2>1. CASE p \in {"yacynode"}
        BY <2>1, NodeReads DEF CountsOn
    <2>2. CASE p \in {"yacycrawler", "pagescrape", "webresearchmcp"}
        BY <2>2, CrawlerReads, PageScrapeReads, WebResearchReads
    <2>3. CASE p \in {"corpustext", "corpusmarkdown"}
        BY <2>3, CorpusReads
    <2>4. CASE p \in {"visitcrawl", "renderproxy"}
        BY <2>4, VisitAndRenderRead
    <2> QED BY <2>1, <2>2, <2>3, <2>4 DEF CountsOn
<1>2. \A name \in Names(p, env) : ReadBy(p, env, name, {"required", "httpURL"})
    <2>1. CASE p = "yacynode"
        BY <2>1, NodeReads
    <2>2. CASE p = "corpustext"
        BY <2>2, CorpusReads
    <2>3. CASE p = "webarchivescrape"
        BY <2>3, ArchiveReads
    <2> QED BY <2>1, <2>2, <2>3 DEF Names
<1>3. \A name \in CountsOn(p, env) :
         Values(p, env)[name] \in Nat /\ Values(p, env)[name] > 0
    BY <1>1, CountedIsPositive
<1>4. p = "yacycrawler" =>
        PendingPageVisitAckWait(Values(p, env)["FetchDeadline"]) > Values(p, env)["FetchDeadline"]
    <2>1. p = "yacycrawler" => "FetchDeadline" \in CountsOn(p, env)
        BY DEF CountsOn
    <2> QED BY <1>3, <2>1 DEF PendingPageVisitAckWait
<1>5. \A name \in Names(p, env) : Taken(p, env)[name] # Blank
    BY <1>2, NamedIsThere
<1> QED BY <1>3, <1>4, <1>5 DEF Runnable

\* What a program counts on is above zero, whom it speaks to is named, and an
\* ack wait is longer than a fetch (the loaders of every program against what its
\* assembly does with the settings): in every state, of any environment.
THEOREM AcceptedSettingsRun == []AcceptedRuns
<1>1. AcceptedRuns
    BY StartedRuns DEF AcceptedRuns
<1> QED BY <1>1, PTL
----------------------------------------------------------------------------
\* What peers say to each other.

\* What separators leave of a text.
Piece == [is : {"plain", "ragged", "junk"}, n : Int]

\* A written text has the values it was written of.
LEMMA Rewritten ==
    ASSUME NEW v \in Seq(Int)
    PROVE  /\ TextOf(v) \in Seq(Piece) /\ Len(TextOf(v)) = Len(v)
           /\ \A i \in 1 .. Len(v) : TextOf(v)[i] = Plain(v[i])
           /\ NumbersOf(TextOf(v)) = v
<1>1. DOMAIN v = 1 .. Len(v) /\ Len(v) \in Nat /\ \A i \in 1 .. Len(v) : v[i] \in Int
  OBVIOUS
<1>2. \A i \in 1 .. Len(v) : Plain(v[i]) \in Piece /\ Plain(v[i]).n = v[i]
  BY <1>1 DEF Plain, Piece
<1>3. TextOf(v) = [i \in 1 .. Len(v) |-> Plain(v[i])]
  BY <1>1 DEF TextOf
<1>4. TextOf(v) \in Seq(Piece) /\ Len(TextOf(v)) = Len(v)
  BY <1>1, <1>2, <1>3
<1>5. NumbersOf(TextOf(v)) = [i \in 1 .. Len(v) |-> v[i]]
  BY <1>1, <1>2, <1>3 DEF NumbersOf
<1>6. v = [i \in 1 .. Len(v) |-> v[i]]
  BY <1>1
<1> QED BY <1>3, <1>4, <1>5, <1>6
\* One number is written as one piece.
LEMMA RewrittenOne ==
    ASSUME NEW n \in Int
    PROVE  /\ TextOf(<<n>>) \in Seq(Piece) /\ Len(TextOf(<<n>>)) = 1
           /\ TextOf(<<n>>)[1] = Plain(n) /\ TextOf(<<n>>) # <<>>
<1> DEFINE v == <<n>>
<1>1. v \in Seq(Int) /\ Len(v) = 1 /\ v[1] = n
  OBVIOUS
<1> HIDE DEF v
<1>2. TextOf(v) \in Seq(Piece) /\ Len(TextOf(v)) = 1 /\ TextOf(v)[1] = Plain(n)
  BY <1>1, Rewritten
<1>3. TextOf(v) # <<>>
  BY <1>2
<1> QED BY <1>2, <1>3 DEF v
\* Nothing is written as nothing.
LEMMA RewrittenNone == TextOf(<<>>) = <<>>
BY DEF TextOf
\* A text of one piece is a text.
LEMMA OneIsSome ==
    ASSUME NEW S, NEW t \in Seq(S), Len(t) = 1
    PROVE  t # <<>>
OBVIOUS

----------------------------------------------------------------------------
\* The places of a sequence that are kept, in their order.

\* A set of places up to each of its own.
UpTo(places, i) == {j \in places : j <= i}
\* Places of a sequence are finitely many, and so are those up to one.
LEMMA Counted ==
    ASSUME NEW m \in Nat, NEW places, places \subseteq 1 .. m
    PROVE  /\ IsFiniteSet(places) /\ Cardinality(places) \in 0 .. m
           /\ \A i \in Int : IsFiniteSet(UpTo(places, i)) /\ Cardinality(UpTo(places, i)) \in Nat
           /\ UpTo(places, m) = places /\ UpTo(places, 0) = {}
<1>1. IsFiniteSet(1 .. m) /\ Cardinality(1 .. m) = m
  BY FS_Interval
<1>2. \A T \in SUBSET (1 .. m) : IsFiniteSet(T) /\ Cardinality(T) \in Nat /\ Cardinality(T) <= m
  BY <1>1, FS_Subset, FS_CardinalityType
<1>3. \A i : UpTo(places, i) \in SUBSET (1 .. m)
  BY DEF UpTo
<1>4. UpTo(places, m) = places /\ UpTo(places, 0) = {}
  <2>1. \A j \in places : j \in Int /\ j <= m /\ ~(j <= 0)
    OBVIOUS
  <2> QED BY <2>1 DEF UpTo
<1> QED BY <1>2, <1>3, <1>4

\* Later places have more places before them.
LEMMA CountsGrow ==
    ASSUME NEW m \in Nat, NEW places, places \subseteq 1 .. m,
           NEW i \in Int, NEW j \in places, i < j
    PROVE  Cardinality(UpTo(places, i)) < Cardinality(UpTo(places, j))
<1>0. \A x \in places : x \in Int
  OBVIOUS
<1>1. IsFiniteSet(UpTo(places, j)) /\ j \in Int
  BY <1>0, Counted
<1>2. UpTo(places, i) \in SUBSET UpTo(places, j) /\ j \in UpTo(places, j) /\ j \notin UpTo(places, i)
  <2>1. \A x \in places : x <= i => x <= j
    BY <1>0
  <2>2. j <= j /\ ~ (j <= i)
    BY <1>1
  <2> QED BY <2>1, <2>2 DEF UpTo
<1>3. /\ Cardinality(UpTo(places, i)) <= Cardinality(UpTo(places, j))
      /\ Cardinality(UpTo(places, j)) = Cardinality(UpTo(places, i)) =>
            UpTo(places, j) = UpTo(places, i)
  BY <1>1, <1>2, FS_Subset
<1>4. Cardinality(UpTo(places, i)) \in Nat /\ Cardinality(UpTo(places, j)) \in Nat
  BY <1>1, Counted
<1> QED BY <1>2, <1>3, <1>4

\* There is an n-th place, and one only.
LEMMA NthIs ==
    ASSUME NEW m \in Nat, NEW places, places \subseteq 1 .. m,
           NEW n \in 1 .. Cardinality(places)
    PROVE  /\ Nth(places, n) \in places
           /\ Cardinality(UpTo(places, Nth(places, n))) = n
           /\ \A i \in places : Cardinality(UpTo(places, i)) = n => i = Nth(places, n)
<1>1. /\ Cardinality(places) \in Nat /\ UpTo(places, m) = places /\ UpTo(places, 0) = {}
      /\ \A i \in Int : IsFiniteSet(UpTo(places, i)) /\ Cardinality(UpTo(places, i)) \in Nat
  <2>1. Cardinality(places) \in 0 .. m
    BY Counted
  <2>2. UpTo(places, m) = places /\ UpTo(places, 0) = {}
    BY Counted
  <2>3. \A i \in Int : IsFiniteSet(UpTo(places, i)) /\ Cardinality(UpTo(places, i)) \in Nat
    BY Counted
  <2>4. \A x \in 0 .. m : x \in Nat
    OBVIOUS
  <2> QED BY <2>1, <2>2, <2>3, <2>4
<1>0. \A x \in places : x \in Int
  OBVIOUS
<1>2. \E i \in places : Cardinality(UpTo(places, i)) = n
  <2> DEFINE T == {i \in Nat : Cardinality(UpTo(places, i)) >= n}
  <2>1. m \in T
    BY <1>1
  <2>2. PICK i \in T : \A j \in T : ~ (<<j, i>> \in OpToRel(<, Nat))
    BY <2>1, NatLessThanWellFounded, WFMin
  <2>3. \A j \in T : ~ (j < i)
    BY <2>2 DEF OpToRel
  <2>4. i \in Nat /\ Cardinality(UpTo(places, i)) >= n
    OBVIOUS
  <2>5. i # 0
    BY <1>1, <2>4, FS_EmptySet
  <2>6. i - 1 \in Nat /\ i - 1 < i
    BY <2>4, <2>5
  <2>7. Cardinality(UpTo(places, i - 1)) < n
    <3>1. i - 1 \notin T
      BY <2>3, <2>6
    <3>2. Cardinality(UpTo(places, i - 1)) \in Nat
      BY <1>1, <2>6
    <3> QED BY <2>6, <3>1, <3>2
  <2>8. i \in places
    <3>1. i \notin places => UpTo(places, i) = UpTo(places, i - 1)
      <4>1. \A x \in places : x # i => (x <= i <=> x <= i - 1)
        BY <1>0, <2>4
      <4> QED BY <4>1 DEF UpTo
    <3> QED BY <1>1, <2>4, <2>6, <2>7, <3>1
  <2>9. Cardinality(UpTo(places, i)) <= Cardinality(UpTo(places, i - 1)) + 1
    <3>1. UpTo(places, i) = UpTo(places, i - 1) \cup {i}
      <4>1. \A x \in places : x <= i <=> x <= i - 1 \/ x = i
        BY <1>0, <2>4
      <4> QED BY <2>8, <4>1 DEF UpTo
    <3>2. i \notin UpTo(places, i - 1)
      <4>1. \A x \in places : x # i => (x <= i <=> x <= i - 1)
        BY <1>0, <2>4
      <4> QED BY <4>1 DEF UpTo
    <3>3. IsFiniteSet(UpTo(places, i - 1)) /\ Cardinality(UpTo(places, i - 1)) \in Nat
      BY <1>1, <2>6
    <3> QED BY <3>1, <3>2, <3>3, FS_AddElement
  <2>10. Cardinality(UpTo(places, i)) \in Nat /\ Cardinality(UpTo(places, i - 1)) \in Nat
    BY <1>1, <2>4, <2>6
  <2>11. Cardinality(UpTo(places, i)) = n
    BY <2>4, <2>7, <2>9, <2>10
  <2> QED BY <2>8, <2>11
<1>3. Nth(places, n) = CHOOSE i \in places : Cardinality(UpTo(places, i)) = n
  BY DEF Nth, UpTo
<1>4. Nth(places, n) \in places /\ Cardinality(UpTo(places, Nth(places, n))) = n
  BY <1>2, <1>3
<1>5. ASSUME NEW i \in places, Cardinality(UpTo(places, i)) = n
      PROVE  i = Nth(places, n)
  <2> DEFINE k == Nth(places, n)
  <2>1. i \in Int /\ k \in Int
    BY <1>0, <1>4
  <2>2. /\ Cardinality(UpTo(places, i)) = n /\ Cardinality(UpTo(places, k)) = n /\ ~ (n < n)
        /\ k \in places
    BY <1>1, <1>4, <1>5
  <2> HIDE DEF k
  <2>3. ~ (i < k)
    BY <2>1, <2>2, CountsGrow
  <2>4. ~ (k < i)
    BY <2>1, <2>2, CountsGrow
  <2>5. i = k
    BY <2>1, <2>3, <2>4
  <2> QED BY <2>5 DEF k
<1> QED BY <1>4, <1>5

\* What is kept is of what there was.
LEMMA OnlyIs ==
    ASSUME NEW S, NEW s \in Seq(S), NEW places, places \subseteq DOMAIN s
    PROVE  /\ Only(s, places) \in Seq(S) /\ Len(Only(s, places)) = Cardinality(places)
           /\ Cardinality(places) \in 0 .. Len(s)
           /\ \A n \in 1 .. Cardinality(places) :
                 Nth(places, n) \in places /\ Only(s, places)[n] = s[Nth(places, n)]
<1>1. Len(s) \in Nat /\ DOMAIN s = 1 .. Len(s) /\ \A i \in 1 .. Len(s) : s[i] \in S
  OBVIOUS
<1>2. Cardinality(places) \in 0 .. Len(s) /\ Cardinality(places) \in Nat
  BY <1>1, Counted
<1>3. \A n \in 1 .. Cardinality(places) : Nth(places, n) \in places
  BY <1>1, NthIs
<1>4. \A n \in 1 .. Cardinality(places) : s[Nth(places, n)] \in S
  BY <1>1, <1>3
<1>5. Only(s, places) = [n \in 1 .. Cardinality(places) |-> s[Nth(places, n)]]
  BY DEF Only
<1> QED BY <1>2, <1>3, <1>4, <1>5
\* All that there is, kept, is what there was.
LEMMA OnlyAll ==
    ASSUME NEW S, NEW s \in Seq(S)
    PROVE  Only(s, DOMAIN s) = s
<1>1. Len(s) \in Nat /\ DOMAIN s = 1 .. Len(s)
  OBVIOUS
<1>2. Cardinality(1 .. Len(s)) = Len(s)
  BY <1>1, FS_Interval
<1>3. ASSUME NEW n \in 1 .. Len(s) PROVE Nth(1 .. Len(s), n) = n
  <2>1. UpTo(1 .. Len(s), n) = 1 .. n /\ n \in Int
    BY <1>1 DEF UpTo
  <2>2. Cardinality(1 .. n) = n
    BY <2>1, FS_Interval
  <2> QED BY <1>1, <1>2, <2>1, <2>2, NthIs
<1>4. Only(s, DOMAIN s) = [n \in 1 .. Len(s) |-> s[n]]
  BY <1>1, <1>2, <1>3 DEF Only
<1> QED BY <1>1, <1>4

----------------------------------------------------------------------------
\* Columns.

\* A text of one plain number.
OneText(t, n) == t \in Seq(Piece) /\ Len(t) = 1 /\ t[1].is = "plain" /\ t[1].n = n

NumberWays ==
    {"required", "optional", "strict", "cardinal", "count", "number", "someNumber", "answer",
     "readable", "capabilities", "flags", "constraint", "postingType", "metadataType",
     "letters", "language", "location"}

\* A column of one number reads what it would write as what it read, and what it
\* leaves out as that.
LEMMA NumberAgrees ==
    ASSUME NEW column, column.as \in NumberWays,
           column.as = "cardinal" => column.of \in Nat \ {0},
           NEW text \in Seq(Piece), ValueOf(column, text) # Bad
    PROVE  \/ /\ ValueOf(column, text) = NoValue /\ ValueOf(column, <<>>) = NoValue
           \/ \E n \in Int :
                 /\ ValueOf(column, text) = Some(<<n>>)
                 /\ \A t : OneText(t, n) => ValueOf(column, t) = Some(<<n>>)
                 /\ column.as \in {"someNumber", "answer"} /\ n = 0 =>
                       ValueOf(column, <<>>) = Some(<<n>>)
<1>0. /\ \A t, n : OneText(t, n) => t # <<>> /\ \A S : IsValue(t, S) <=> n \in S
      /\ \A S : ~IsValue(<<>>, S)
      /\ \A S : IsValue(text, S) => text[1].n \in Int /\ text[1].n \in S
      /\ text # <<>> => text[1] \in Piece /\ text[1].n \in Int
  <2>1. ASSUME NEW t, NEW n, OneText(t, n) PROVE t # <<>> /\ \A S : IsValue(t, S) <=> n \in S
    <3>1. t # <<>>
      <4>1. t \in Seq(Piece) /\ Len(t) = 1
        BY <2>1 DEF OneText
      <4> QED BY <4>1, OneIsSome
    <3>2. \A S : IsValue(t, S) <=> n \in S
      BY <2>1 DEF OneText, IsValue
    <3> QED BY <3>1, <3>2
  <2>2. \A S : ~IsValue(<<>>, S)
    BY DEF IsValue
  <2>3. text # <<>> => text[1] \in Piece /\ text[1].n \in Int
    <3>1. text # <<>> => Len(text) \in Nat /\ Len(text) # 0 /\ 1 \in 1 .. Len(text)
      OBVIOUS
    <3>2. text # <<>> => text[1] \in Piece
      BY <3>1
    <3> QED BY <3>2 DEF Piece
  <2>4. \A S : IsValue(text, S) => text # <<>> /\ text[1].n \in S
    BY DEF IsValue
  <2> QED BY <2>1, <2>2, <2>3, <2>4
<1>1. CASE column.as = "required"
  <2>1. \A x : ValueOf(column, x) = Required(x, column.of)
    BY <1>1 DEF ValueOf
  <2>2. IsValue(text, column.of)
    BY <2>1 DEF Required
  <2> DEFINE n == text[1].n
  <2>3. n \in Int /\ n \in column.of /\ ValueOf(column, text) = Some(<<n>>)
    BY <1>0, <2>1, <2>2 DEF Required
  <2> HIDE DEF n
  <2>4. \A t : OneText(t, n) => ValueOf(column, t) = Some(<<n>>)
    BY <1>0, <2>1, <2>3 DEF Required, OneText
  <2> QED BY <1>1, <2>3, <2>4
<1>2. CASE column.as = "optional"
  <2>1. \A x : ValueOf(column, x) = Optional(x, column.of)
    BY <1>2 DEF ValueOf
  <2>2. CASE IsValue(text, column.of)
    <3> DEFINE n == text[1].n
    <3>1. n \in Int /\ n \in column.of /\ ValueOf(column, text) = Some(<<n>>)
      BY <1>0, <2>1, <2>2 DEF Optional
    <3> HIDE DEF n
    <3>2. \A t : OneText(t, n) => ValueOf(column, t) = Some(<<n>>)
      BY <1>0, <2>1, <3>1 DEF Optional, OneText
    <3> QED BY <1>2, <3>1, <3>2
  <2>3. CASE ~IsValue(text, column.of)
    BY <1>0, <2>1, <2>3 DEF Optional
  <2> QED BY <2>2, <2>3
<1>3. CASE column.as = "strict"
  <2>1. \A x : ValueOf(column, x) = Strict(x, column.of)
    BY <1>3 DEF ValueOf
  <2>2. CASE text = <<>>
    BY <2>1, <2>2 DEF Strict
  <2>3. CASE text # <<>>
    <3> DEFINE n == text[1].n
    <3>1. IsValue(text, column.of)
      BY <2>1, <2>3 DEF Strict, Required
    <3>2. n \in Int /\ n \in column.of /\ ValueOf(column, text) = Some(<<n>>)
      BY <1>0, <2>1, <2>3, <3>1 DEF Strict, Required
    <3> HIDE DEF n
    <3>3. \A t : OneText(t, n) => ValueOf(column, t) = Some(<<n>>)
      BY <1>0, <2>1, <3>2 DEF Strict, Required, OneText
    <3> QED BY <1>3, <3>2, <3>3
  <2> QED BY <2>2, <2>3
<1>4. CASE column.as = "cardinal"
  <2>1. \A x : ValueOf(column, x) = Cardinal(x, column.of)
    BY <1>4 DEF ValueOf
  <2> DEFINE n == Prefix(text) % column.of
  <2>2. Prefix(text) \in Int
    BY <1>0 DEF Prefix
  <2>3. n \in Int /\ n \in 0 .. column.of - 1 /\ n % column.of = n
    BY <1>4, <2>2
  <2>4. \A t : OneText(t, n) => Prefix(t) = n
    BY DEF OneText, Prefix
  <2> HIDE DEF n
  <2>5. \A t : OneText(t, n) => ValueOf(column, t) = Some(<<n>>)
    BY <2>1, <2>3, <2>4 DEF Cardinal
  <2>6. ValueOf(column, text) = Some(<<n>>)
    BY <2>1 DEF Cardinal, n
  <2> QED BY <1>4, <2>3, <2>5, <2>6
<1>5. CASE column.as = "count"
  <2>1. \A x : ValueOf(column, x) = Count(x)
    BY <1>5 DEF ValueOf
  <2> DEFINE n == IF IsValue(text, Numbers) THEN text[1].n ELSE 0
  <2>2. n \in Int /\ n \in Numbers
    BY <1>0 DEF Numbers
  <2>3. ValueOf(column, text) = Some(<<n>>)
    BY <2>1 DEF Count
  <2> HIDE DEF n
  <2>4. \A t : OneText(t, n) => ValueOf(column, t) = Some(<<n>>)
    BY <1>0, <2>1, <2>2 DEF Count, OneText
  <2> QED BY <1>5, <2>2, <2>3, <2>4
<1>6. CASE column.as = "number"
  <2>1. \A x : ValueOf(column, x) = StrictCount(x)
    BY <1>6 DEF ValueOf
  <2> DEFINE n == IF text = <<>> THEN 0 ELSE text[1].n
  <2>2. text # <<>> => IsValue(text, Numbers)
    BY <2>1 DEF StrictCount, Required
  <2>3. n \in Int /\ n \in Numbers
    BY <1>0, <2>2 DEF Numbers
  <2>4. ValueOf(column, text) = Some(<<n>>)
    BY <2>1, <2>2 DEF StrictCount, Required
  <2>5. ValueOf(column, <<>>) = Some(<<0>>)
    BY <2>1 DEF StrictCount
  <2> HIDE DEF n
  <2>6. \A t : OneText(t, n) => ValueOf(column, t) = Some(<<n>>)
    BY <1>0, <2>1, <2>3 DEF StrictCount, Required, OneText
  <2> QED BY <1>6, <2>3, <2>4, <2>5, <2>6
<1>7. CASE column.as = "someNumber"
  <2>1. \A x : ValueOf(column, x) = StrictCount(x)
    BY <1>7 DEF ValueOf
  <2>2. ValueOf(column, <<>>) = Some(<<0>>) /\ \A n \in Int : \A t : OneText(t, n) => ValueOf(column, t) = Some(<<n>>)
    BY <1>0, <2>1 DEF StrictCount, Required, Numbers, OneText
  <2>3. CASE text = <<>>
    BY <2>2, <2>3
  <2>4. CASE text # <<>>
    <3> DEFINE n == text[1].n
    <3>1. n \in Int /\ ValueOf(column, text) = Some(<<n>>)
      BY <1>0, <2>1, <2>4 DEF StrictCount, Required, Numbers
    <3> QED BY <2>2, <3>1
  <2> QED BY <2>3, <2>4
<1>8. CASE column.as = "answer"
  <2>1. \A x : ValueOf(column, x) = Answer(x)
    BY <1>8 DEF ValueOf
  <2> DEFINE n == IF text = <<>> THEN 0 ELSE text[1].n
  <2>2. text # <<>> => IsValue(text, Answers)
    BY <2>1 DEF Answer, Required
  <2>3. n \in Int /\ n \in Answers
    BY <1>0, <2>2 DEF Answers
  <2>4. ValueOf(column, text) = Some(<<n>>)
    BY <2>1, <2>2 DEF Answer, Required
  <2>5. ValueOf(column, <<>>) = Some(<<0>>)
    BY <2>1 DEF Answer
  <2> HIDE DEF n
  <2>6. \A t : OneText(t, n) => ValueOf(column, t) = Some(<<n>>)
    BY <1>0, <2>1, <2>3 DEF Answer, Required, OneText
  <2> QED BY <1>8, <2>3, <2>4, <2>5, <2>6
<1>9. CASE column.as = "readable"
  <2>1. \A x : ValueOf(column, x) = Required(x, Numbers)
    BY <1>9 DEF ValueOf
  <2>2. IsValue(text, Numbers)
    BY <2>1 DEF Required
  <2> DEFINE n == text[1].n
  <2>3. n \in Int /\ n \in Numbers /\ ValueOf(column, text) = Some(<<n>>)
    BY <1>0, <2>1, <2>2 DEF Required
  <2> HIDE DEF n
  <2>4. \A t : OneText(t, n) => ValueOf(column, t) = Some(<<n>>)
    BY <1>0, <2>1, <2>3 DEF Required, OneText
  <2> QED BY <1>9, <2>3, <2>4
<1>10. CASE column.as = "capabilities"
  <2>1. \A x : ValueOf(column, x) = Capabilities(x)
    BY <1>10 DEF ValueOf
  <2> DEFINE n == IF text = <<>> \/ text[1].is = "junk" THEN 0 ELSE text[1].n % Capable
  <2>2. n \in Int /\ n % Capable = n
    BY <1>0 DEF Capable
  <2>3. ValueOf(column, text) = Some(<<n>>)
    BY <2>1 DEF Capabilities
  <2> HIDE DEF n
  <2>4. \A t : OneText(t, n) => ValueOf(column, t) = Some(<<n>>)
    BY <1>0, <2>1, <2>2 DEF Capabilities, OneText
  <2> QED BY <1>10, <2>2, <2>3, <2>4
<1>11. CASE column.as = "flags"
  <2>1. \A x : ValueOf(column, x) = Flags(x, Traits)
    BY <1>11 DEF ValueOf
  <2> DEFINE n == IF text = <<>> THEN 0 ELSE text[1].n % Traits
  <2>2. n \in Int /\ n % Traits = n
    BY <1>0 DEF Traits
  <2>3. ValueOf(column, text) = Some(<<n>>)
    BY <2>1 DEF Flags
  <2> HIDE DEF n
  <2>4. \A t : OneText(t, n) => ValueOf(column, t) = Some(<<n>>)
    BY <1>0, <2>1, <2>2 DEF Flags, OneText
  <2> QED BY <1>11, <2>2, <2>3, <2>4
<1>12. CASE column.as = "constraint"
  <2>1. \A x : ValueOf(column, x) = Constraint(x)
    BY <1>12 DEF ValueOf
  <2>2. ValueOf(column, <<>>) = NoValue
    BY <2>1 DEF Constraint
  <2>3. CASE ValueOf(column, text) # NoValue
    <3> DEFINE n == text[1].n % Traits
    <3>1. text # <<>> /\ text[1].n \in Int
      BY <1>0, <2>2, <2>3
    <3>2. n # 0 /\ ValueOf(column, text) = Some(<<n>>)
      BY <2>1, <2>3, <3>1 DEF Constraint
    <3>3. n \in Int /\ n >= 0 /\ n % Traits = n
      BY <3>1 DEF Traits
    <3> HIDE DEF n
    <3>4. \A t : OneText(t, n) => ValueOf(column, t) = Some(<<n>>)
      BY <1>0, <2>1, <3>2, <3>3 DEF Constraint, OneText
    <3> QED BY <1>12, <3>2, <3>3, <3>4
  <2> QED BY <2>2, <2>3
<1>13. CASE column.as = "postingType"
  <2>1. \A x : ValueOf(column, x) = PostingType(x)
    BY <1>13 DEF ValueOf
  <2> DEFINE n == TypeOfLetter(Prefix(text) % ByteRange)
  <2>2. n \in KnownTypes /\ n \in Int /\ n % ByteRange = n /\ TypeOfLetter(n) = n
    <3>1. n \in KnownTypes /\ n \in Int /\ TypeOfLetter(n) = n
      BY DEF TypeOfLetter, KnownTypes, UnknownType
    <3>2. n \in 0 .. ByteRange - 1 /\ ByteRange \in Nat \ {0}
      BY <3>1, RangesAssumption
    <3> HIDE DEF n
    <3>3. n % ByteRange = n
      BY <3>1, <3>2
    <3> QED BY <3>1, <3>3
  <2>3. \A t : OneText(t, n) => Prefix(t) = n
    BY DEF OneText, Prefix
  <2> HIDE DEF n
  <2>4. \A t : OneText(t, n) => ValueOf(column, t) = Some(<<n>>)
    BY <2>1, <2>2, <2>3 DEF PostingType
  <2>5. ValueOf(column, text) = Some(<<n>>)
    BY <2>1 DEF PostingType, n
  <2> QED BY <1>13, <2>2, <2>4, <2>5
<1>14. CASE column.as = "metadataType"
  <2>1. \A x : ValueOf(column, x) = MetadataType(x)
    BY <1>14 DEF ValueOf
  <2>2. \A m : TypeOfLetter(m) \in KnownTypes /\ TypeOfLetter(TypeOfLetter(m)) = TypeOfLetter(m)
    BY DEF TypeOfLetter, KnownTypes, UnknownType
  <2>3. KnownTypes \subseteq Int /\ TextType \in KnownTypes /\ UnknownType \in KnownTypes
    BY DEF KnownTypes, TextType, UnknownType
  <2>4. PICK n \in KnownTypes : ValueOf(column, text) = Some(<<n>>) /\ TypeOfLetter(n) = n
    BY <2>1, <2>2, <2>3 DEF MetadataType, TypeOfLetter
  <2>5. \A t : OneText(t, n) => ValueOf(column, t) = Some(<<n>>)
    BY <1>0, <2>1, <2>4 DEF MetadataType, OneText
  <2> QED BY <1>14, <2>3, <2>4, <2>5
<1>15. CASE column.as = "letters"
  <2>1. \A x : ValueOf(column, x) = FirstLetters(x)
    BY <1>15 DEF ValueOf
  <2> DEFINE n == text[1].n
  <2>2. text # <<>> /\ n \in Languages /\ ValueOf(column, text) = Some(<<n>>)
    BY <2>1 DEF FirstLetters
  <2>3. n \in Int
    BY <1>0, <2>2
  <2> HIDE DEF n
  <2>4. \A t : OneText(t, n) => ValueOf(column, t) = Some(<<n>>)
    BY <1>0, <2>1, <2>2 DEF FirstLetters, OneText
  <2> QED BY <1>15, <2>2, <2>3, <2>4
<1>16. CASE column.as = "language"
  <2>1. \A x : ValueOf(column, x) = KnownLanguage(x)
    BY <1>16 DEF ValueOf
  <2>2. ~ FirstLetters(<<>>).ok /\ ValueOf(column, <<>>) = NoValue
    <3>1. FirstLetters(<<>>) = Bad
      BY DEF FirstLetters
    <3> QED BY <2>1, <3>1 DEF KnownLanguage, Bad
  <2>3. CASE FirstLetters(text).ok
    <3> DEFINE n == text[1].n
    <3>1. FirstLetters(text) # Bad
      BY <2>3 DEF Bad
    <3>2. text # <<>> /\ n \in Languages /\ FirstLetters(text) = Some(<<n>>)
      BY <3>1 DEF FirstLetters
    <3>3. n \in Int /\ ValueOf(column, text) = Some(<<n>>)
      BY <1>0, <2>1, <2>3, <3>2 DEF KnownLanguage
    <3> HIDE DEF n
    <3>4. \A t : OneText(t, n) => FirstLetters(t) = Some(<<n>>)
      BY <1>0, <3>2 DEF FirstLetters, OneText
    <3>5. \A t : OneText(t, n) => ValueOf(column, t) = Some(<<n>>)
      BY <2>1, <3>4 DEF KnownLanguage, Some
    <3> QED BY <1>16, <3>3, <3>5
  <2>4. CASE ~ FirstLetters(text).ok
    BY <2>1, <2>2, <2>4 DEF KnownLanguage
  <2> QED BY <2>3, <2>4
<1>17. CASE column.as = "location"
  <2>1. \A x : ValueOf(column, x) = Location(x)
    BY <1>17 DEF ValueOf
  <2>2. \A n : Some(<<n>>).of = <<0>> <=> n = 0
    BY DEF Some
  <2>3. \A n \in Places : n \in Int
    BY DEF Places
  <2>4. ASSUME NEW n \in Places, NEW t, OneText(t, n), n # 0
        PROVE  ValueOf(column, t) = Some(<<n>>)
    <3>1. IsValue(t, Numbers) /\ IsValue(t, Places) /\ t[1].n = n
      BY <1>0, <2>3, <2>4 DEF Numbers, OneText
    <3>2. Count(t).of # <<0>>
      BY <2>2, <2>4, <3>1 DEF Count
    <3> QED BY <2>1, <3>1, <3>2 DEF Location, Required
  <2>5. ValueOf(column, <<>>) = NoValue
    <3>1. Count(<<>>) = Some(<<0>>)
      BY <1>0 DEF Count
    <3> QED BY <2>1, <2>2, <3>1 DEF Location
  <2>6. CASE ValueOf(column, text) # NoValue
    <3> DEFINE n == text[1].n
    <3>1. IsValue(text, Places) /\ Count(text).of # <<0>> /\ ValueOf(column, text) = Some(<<n>>)
      BY <2>1, <2>6 DEF Location, Required
    <3>2. n \in Places /\ n \in Int
      BY <1>0, <3>1
    <3>3. IsValue(text, Numbers)
      BY <3>1, <3>2 DEF IsValue, Numbers
    <3>4. n # 0
      BY <2>2, <3>1, <3>3 DEF Count
    <3> HIDE DEF n
    <3>5. \A t : OneText(t, n) => ValueOf(column, t) = Some(<<n>>)
      BY <2>4, <3>2, <3>4
    <3> QED BY <1>17, <3>1, <3>2, <3>5
  <2> QED BY <2>5, <2>6
<1> QED BY <1>1, <1>2, <1>3, <1>4, <1>5, <1>6, <1>7, <1>8, <1>9, <1>10, <1>11, <1>12, <1>13,
            <1>14, <1>15, <1>16, <1>17 DEF NumberWays

ListWays == {"tags", "hashes", "query", "address", "framed", "kept", "hosts"}

\* What is read of a text is a number for each piece.
LEMMA NumbersAre ==
    ASSUME NEW text \in Seq(Piece)
    PROVE  NumbersOf(text) \in Seq(Int) /\ Len(NumbersOf(text)) = Len(text)
<1>1. DOMAIN text = 1 .. Len(text) /\ Len(text) \in Nat /\ \A i \in 1 .. Len(text) : text[i] \in Piece
  OBVIOUS
<1>2. \A i \in 1 .. Len(text) : text[i].n \in Int
  BY <1>1 DEF Piece
<1> QED BY <1>1, <1>2 DEF NumbersOf
\* Written numbers are all readable.
LEMMA WrittenNumbers ==
    ASSUME NEW v \in Seq(Int)
    PROVE  AllOf(TextOf(v), Int) /\ NumbersOf(TextOf(v)) = v /\ Len(TextOf(v)) = Len(v)
           /\ (TextOf(v) # <<>> => Last(TextOf(v)).is # "ragged")
<1>1. /\ TextOf(v) \in Seq(Piece) /\ Len(TextOf(v)) = Len(v) /\ Len(v) \in Nat
      /\ NumbersOf(TextOf(v)) = v /\ \A i \in 1 .. Len(v) : TextOf(v)[i] = Plain(v[i]) /\ v[i] \in Int
  BY Rewritten
<1> DEFINE t == TextOf(v)
<1>2. DOMAIN t = 1 .. Len(v)
  BY <1>1
<1> HIDE DEF t
<1>3. \A i \in 1 .. Len(v) : t[i].is = "plain" /\ t[i].n \in Int
  <2>1. \A n : Plain(n).is = "plain" /\ Plain(n).n = n
    BY DEF Plain
  <2>2. \A i \in 1 .. Len(v) : t[i] = Plain(v[i]) /\ v[i] \in Int
    BY <1>1 DEF t
  <2> QED BY <2>1, <2>2
<1>4. \A i \in DOMAIN t : IsValue(<<t[i]>>, Int)
  BY <1>2, <1>3 DEF IsValue
<1>5. t # <<>> => Last(t).is # "ragged"
  <2>1. t # <<>> => Len(t) # 0 /\ Len(t) \in 1 .. Len(v)
    BY <1>1 DEF t
  <2> QED BY <1>3, <2>1 DEF Last
<1> QED BY <1>1, <1>4, <1>5 DEF AllOf, t

\* Addresses that are none were left out already.
LEMMA HostsAgree ==
    ASSUME NEW text \in Seq(Piece)
    PROVE  \E v \in Seq(Int) : /\ HostList(text) = Some(v) /\ HostList(TextOf(v)) = Some(v)
                               /\ v = <<>> => HostList(<<>>) = Some(<<>>)
<1> DEFINE Hosted(x) == {i \in DOMAIN x : IsValue(<<x[i]>>, Hosts)}
           kept == Only(text, Hosted(text))
           v == NumbersOf(kept)
<1>1. /\ kept \in Seq(Piece) /\ Len(kept) \in Nat
      /\ \A n \in 1 .. Len(kept) : \E i \in Hosted(text) : kept[n] = text[i]
  <2>1. Hosted(text) \subseteq DOMAIN text
    OBVIOUS
  <2> HIDE DEF Hosted
  <2> QED BY <2>1, OnlyIs
<1>2. \A n \in 1 .. Len(kept) : kept[n].n \in Hosts
  BY <1>1 DEF IsValue
<1> HIDE DEF kept
<1>3. v \in Seq(Int) /\ Len(v) = Len(kept) /\ \A n \in 1 .. Len(v) : v[n] = kept[n].n
  <2>1. DOMAIN kept = 1 .. Len(kept)
    BY <1>1
  <2> QED BY <1>1, <2>1, NumbersAre DEF NumbersOf
<1>4. HostList(text) = Some(v)
  BY DEF HostList, kept
<1> HIDE DEF v
<1>5. /\ TextOf(v) \in Seq(Piece) /\ Len(TextOf(v)) = Len(v) /\ NumbersOf(TextOf(v)) = v
      /\ \A n \in 1 .. Len(v) : TextOf(v)[n] = Plain(v[n])
  BY <1>3, Rewritten
<1>6. Hosted(TextOf(v)) = DOMAIN TextOf(v)
  <2>1. DOMAIN TextOf(v) = 1 .. Len(v)
    BY <1>5
  <2>2. \A n \in 1 .. Len(v) : v[n] \in Hosts
    BY <1>2, <1>3
  <2>3. \A n : Plain(n).is = "plain" /\ Plain(n).n = n
    BY DEF Plain
  <2>4. \A n \in 1 .. Len(v) : IsValue(<<TextOf(v)[n]>>, Hosts)
    BY <1>5, <2>2, <2>3 DEF IsValue
  <2> QED BY <2>1, <2>4
<1>7. HostList(TextOf(v)) = Some(NumbersOf(Only(TextOf(v), DOMAIN TextOf(v))))
  BY <1>6 DEF HostList
<1>8. HostList(TextOf(v)) = Some(v)
  BY <1>5, <1>7, OnlyAll
<1>9. v = <<>> => HostList(<<>>) = Some(<<>>)
  BY <1>8, RewrittenNone
<1> QED BY <1>3, <1>4, <1>8, <1>9

\* A column of many reads what it would write as what it read.
LEMMA ListAgrees ==
    ASSUME NEW column, column.as \in ListWays, NEW text \in Seq(Piece),
           ValueOf(column, text) # Bad
    PROVE  \E v \in Seq(Int) :
              /\ ValueOf(column, text) = Some(v)
              /\ v = <<>> => column.as # "address"
              /\ ValueOf(column, TextOf(v)) = Some(v) \/ v = <<>>
              /\ v = <<>> => ValueOf(column, <<>>) = Some(<<>>)
<1>1. NumbersOf(text) \in Seq(Int) /\ Len(NumbersOf(text)) = Len(text)
  BY NumbersAre
<1>2. \A v \in Seq(Int) :
         /\ AllOf(TextOf(v), Numbers) /\ AllOf(TextOf(v), Hashes)
         /\ NumbersOf(TextOf(v)) = v /\ Len(TextOf(v)) = Len(v)
         /\ TextOf(v) # <<>> => Last(TextOf(v)).is # "ragged"
  BY WrittenNumbers DEF Numbers, Hashes
<1>3. AllOf(<<>>, Numbers) /\ AllOf(<<>>, Hashes) /\ NumbersOf(<<>>) = <<>> /\ Len(<<>>) = 0
  BY DEF AllOf, NumbersOf
<1>4. CASE column.as = "tags"
  <2>1. \A x : ValueOf(column, x) = TagList(x)
    BY <1>4 DEF ValueOf
  <2>2. ValueOf(column, text) = Some(NumbersOf(text)) /\ Len(text) <= MaxTags
    BY <2>1 DEF TagList
  <2> QED BY <1>1, <1>2, <1>3, <1>4, <2>1, <2>2 DEF TagList, MaxTags
<1>5. CASE column.as = "hashes"
  <2>1. \A x : ValueOf(column, x) = HashList(x)
    BY <1>5 DEF ValueOf
  <2> QED BY <1>1, <1>2, <1>3, <1>5, <2>1 DEF HashList
<1>6. CASE column.as = "query"
  <2>1. \A x : ValueOf(column, x) = QueryHashes(x)
    BY <1>6 DEF ValueOf
  <2> DEFINE whole == IF text # <<>> /\ Last(text).is = "ragged" THEN Front(text) ELSE text
  <2>2. whole \in Seq(Piece)
    <3>1. text # <<>> => Front(text) \in Seq(Piece)
      BY DEF Front
    <3> QED BY <3>1
  <2>3. NumbersOf(whole) \in Seq(Int) /\ QueryHashes(text) = HashList(whole)
    BY <2>2, NumbersAre DEF QueryHashes
  <2> HIDE DEF whole
  <2>4. ValueOf(column, text) = Some(NumbersOf(whole))
    BY <2>1, <2>3 DEF HashList
  <2>5. \A v \in Seq(Int) : QueryHashes(TextOf(v)) = Some(v)
    BY <1>2 DEF QueryHashes, HashList
  <2>6. QueryHashes(<<>>) = Some(<<>>)
    BY <1>3 DEF QueryHashes, HashList
  <2> QED BY <1>6, <2>1, <2>3, <2>4, <2>5, <2>6
<1>7. CASE column.as = "address"
  <2>1. \A x : ValueOf(column, x) = FramedAddress(x)
    BY <1>7 DEF ValueOf
  <2>2. text # <<>> /\ ValueOf(column, text) = Some(NumbersOf(text))
    BY <2>1 DEF FramedAddress, Framed
  <2>3. NumbersOf(text) # <<>>
    <3>1. Len(text) # 0
      BY <2>2
    <3> QED BY <1>1, <1>3, <3>1
  <2>4. \A v \in Seq(Int) : v # <<>> => TextOf(v) # <<>>
    <3>1. \A v \in Seq(Int) : v # <<>> => Len(v) # 0
      OBVIOUS
    <3> QED BY <1>2, <1>3, <3>1
  <2>5. \A v \in Seq(Int) : v # <<>> => FramedAddress(TextOf(v)) = Some(v)
    BY <1>2, <2>4 DEF FramedAddress, Framed
  <2> QED BY <1>1, <2>1, <2>2, <2>3, <2>5
<1>8. CASE column.as = "framed"
  <2>1. \A x : ValueOf(column, x) = Framed(x)
    BY <1>8 DEF ValueOf
  <2> QED BY <1>1, <1>2, <1>3, <1>8, <2>1 DEF Framed
<1>9. CASE column.as = "kept"
  <2>1. \A x : ValueOf(column, x) = Kept(x)
    BY <1>9 DEF ValueOf
  <2> QED BY <1>1, <1>2, <1>3, <1>9, <2>1 DEF Kept
<1>10. CASE column.as = "hosts"
  <2>1. \A x : ValueOf(column, x) = HostList(x)
    BY <1>10 DEF ValueOf
  <2>2. PICK v \in Seq(Int) :
            /\ HostList(text) = Some(v) /\ HostList(TextOf(v)) = Some(v)
            /\ v = <<>> => HostList(<<>>) = Some(<<>>)
    BY HostsAgree
  <2>3. v = <<>> => column.as # "address"
    BY <1>10
  <2>4. ValueOf(column, text) = Some(v) /\ ValueOf(column, TextOf(v)) = Some(v)
    BY <2>1, <2>2
  <2>5. v = <<>> => ValueOf(column, <<>>) = Some(<<>>)
    BY <2>1, <2>2
  <2> QED BY <2>3, <2>4, <2>5
<1> QED BY <1>4, <1>5, <1>6, <1>7, <1>8, <1>9, <1>10 DEF ListWays

\* Columns are read in the ways there are.
ColumnTyped(column) ==
    /\ column.as \in NumberWays \cup ListWays
    /\ column.as = "cardinal" => column.of \in Nat \ {0}

\* What a column is written as, or left out for, is read as what was written.
LEMMA ColumnAgrees ==
    ASSUME NEW column, ColumnTyped(column), NEW text, text \in Seq(Piece),
           ValueOf(column, text).ok
    PROVE  LET v == ValueOf(column, text).of IN
           /\ ValueOf(column, text) = Some(v)
           /\ TextOf(v) \in Seq(Piece)
           /\ IsWritten(column, v) => ValueOf(column, TextOf(v)) = Some(v)
           /\ ~IsWritten(column, v) /\ column.as \notin ToldByPresence =>
                 ValueOf(column, <<>>) = Some(v)
           /\ ~IsWritten(column, v) /\ column.as \in ToldByPresence => v = <<>>
<1>1. ValueOf(column, text) # Bad /\ \A v : Some(v).of = v
  BY DEF Bad, Some
<1>2. CASE column.as \in NumberWays
  <2>0. text \in Seq(Piece)
    BY <1>2 DEF NumberWays
  <2>1. CASE ValueOf(column, text) = NoValue /\ ValueOf(column, <<>>) = NoValue
    <3>1. TextOf(<<>>) = <<>> /\ <<>> \in Seq(Piece)
      BY RewrittenNone
    <3> QED BY <1>1, <2>1, <3>1 DEF NoValue
  <2>2. ASSUME NEW n \in Int, ValueOf(column, text) = Some(<<n>>),
               \A t : OneText(t, n) => ValueOf(column, t) = Some(<<n>>),
               column.as \in {"someNumber", "answer"} /\ n = 0 =>
                  ValueOf(column, <<>>) = Some(<<n>>)
        PROVE  /\ ValueOf(column, text) = Some(ValueOf(column, text).of)
               /\ TextOf(<<n>>) \in Seq(Piece)
               /\ ValueOf(column, TextOf(<<n>>)) = Some(<<n>>)
               /\ ~IsWritten(column, <<n>>) => ValueOf(column, <<>>) = Some(<<n>>)
               /\ ~IsWritten(column, <<n>>) => column.as \notin ToldByPresence
    <3>1. /\ TextOf(<<n>>) \in Seq(Piece) /\ Len(TextOf(<<n>>)) = 1
          /\ TextOf(<<n>>)[1] = Plain(n)
      BY RewrittenOne
    <3>2. OneText(TextOf(<<n>>), n)
      BY <3>1 DEF OneText, Plain
    <3>3. <<n>> # <<>> /\ (<<n>> = <<0>> <=> n = 0)
      OBVIOUS
    <3>4. ~IsWritten(column, <<n>>) => column.as \in {"someNumber", "answer"} /\ n = 0
      BY <3>3 DEF IsWritten
    <3> QED BY <1>1, <2>2, <3>1, <3>2, <3>4 DEF ToldByPresence
  <2>3. \/ ValueOf(column, text) = NoValue /\ ValueOf(column, <<>>) = NoValue
        \/ \E n \in Int :
              /\ ValueOf(column, text) = Some(<<n>>)
              /\ \A t : OneText(t, n) => ValueOf(column, t) = Some(<<n>>)
              /\ column.as \in {"someNumber", "answer"} /\ n = 0 =>
                    ValueOf(column, <<>>) = Some(<<n>>)
    BY <1>1, <1>2, <2>0, NumberAgrees DEF ColumnTyped
  <2>4. ASSUME NEW n \in Int, ValueOf(column, text) = Some(<<n>>)
        PROVE  ValueOf(column, text).of = <<n>>
    BY <1>1, <2>4
  <2> QED BY <2>1, <2>2, <2>3, <2>4
<1>3. CASE column.as \in ListWays
  <2>0. text \in Seq(Piece)
    BY <1>3 DEF ListWays
  <2>1. PICK v \in Seq(Int) :
              /\ ValueOf(column, text) = Some(v)
              /\ v = <<>> => column.as # "address"
              /\ ValueOf(column, TextOf(v)) = Some(v) \/ v = <<>>
              /\ v = <<>> => ValueOf(column, <<>>) = Some(<<>>)
    BY <1>1, <1>3, <2>0, ListAgrees
  <2>2. TextOf(v) \in Seq(Piece) /\ TextOf(<<>>) = <<>>
    BY Rewritten, RewrittenNone
  <2>3. ~IsWritten(column, v) => v = <<>>
    BY <1>3 DEF IsWritten, ListWays
  <2>4. column.as \notin ToldByPresence
    BY <1>3 DEF ToldByPresence, ListWays
  <2>5. ValueOf(column, TextOf(v)) = Some(v)
    BY <2>1, <2>2
  <2> QED BY <1>1, <2>1, <2>2, <2>3, <2>4, <2>5
<1> QED BY <1>2, <1>3 DEF ColumnTyped

\* Every column of every row, form and message is read in a way there is, and has
\* a name.
ColumnsTyped(f) == (\A c \in DOMAIN f : ColumnTyped(f[c])) /\ "" \notin DOMAIN f
\* So are the columns of two.
LEMMA BothTyped ==
    ASSUME NEW f, NEW g, ColumnsTyped(f), ColumnsTyped(g)
    PROVE  ColumnsTyped(f || g)
BY DEF ColumnsTyped, ||
\* The ways columns are declared in.
LEMMA WaysTyped ==
    /\ \A values : /\ ColumnTyped(Must(values)) /\ ColumnTyped(May(values))
                    /\ ColumnTyped(Sound(values))
    /\ ColumnTyped(Told("count")) /\ ColumnTyped(Told("number"))
    /\ ColumnTyped(Told("someNumber")) /\ ColumnTyped(Told("answer"))
    /\ ColumnTyped(Told("readable")) /\ ColumnTyped(Told("capabilities"))
    /\ ColumnTyped(Told("flags")) /\ ColumnTyped(Told("constraint"))
    /\ ColumnTyped(Told("postingType")) /\ ColumnTyped(Told("metadataType"))
    /\ ColumnTyped(Told("letters")) /\ ColumnTyped(Told("language"))
    /\ ColumnTyped(Told("location")) /\ ColumnTyped(Told("tags"))
    /\ ColumnTyped(Told("hashes")) /\ ColumnTyped(Told("query"))
    /\ ColumnTyped(Told("address")) /\ ColumnTyped(Told("framed"))
    /\ ColumnTyped(Told("kept")) /\ ColumnTyped(Told("hosts"))
    /\ ColumnTyped(Wrapped(ByteRange)) /\ ColumnTyped(Wrapped(WordRange))
    /\ ColumnTyped(Wrapped(DayRange))
BY RangesAssumption DEF ColumnTyped, Must, May, Sound, Told, Wrapped, NumberWays, ListWays
\* The columns of every row, form and message.
LEMMA SchemaTyped ==
    /\ \A k \in DOMAIN Schema : ColumnsTyped(Schema[k])
    /\ "News" \in DOMAIN Schema
<1>1. ColumnsTyped(SeedColumns)
  <2>1. \A c \in DOMAIN SeedColumns : ColumnTyped(SeedColumns[c])
    BY WaysTyped DEF SeedColumns
  <2>2. "" \notin DOMAIN SeedColumns
    BY DEF SeedColumns
  <2> QED BY <2>1, <2>2 DEF ColumnsTyped
<1>2. ColumnsTyped(ActivityColumns)
  <2>1. \A c \in DOMAIN ActivityColumns : ColumnTyped(ActivityColumns[c])
    BY WaysTyped DEF ActivityColumns
  <2>2. "" \notin DOMAIN ActivityColumns
    BY DEF ActivityColumns
  <2> QED BY <2>1, <2>2 DEF ColumnsTyped
<1>3. ColumnsTyped(NewsColumns)
  <2>1. \A c \in DOMAIN NewsColumns : ColumnTyped(NewsColumns[c])
    BY WaysTyped DEF NewsColumns
  <2>2. "" \notin DOMAIN NewsColumns
    BY DEF NewsColumns
  <2> QED BY <2>1, <2>2 DEF ColumnsTyped
<1>4. ColumnsTyped(MetadataColumns)
  <2>1. \A c \in DOMAIN MetadataColumns : ColumnTyped(MetadataColumns[c])
    BY WaysTyped DEF MetadataColumns
  <2>2. "" \notin DOMAIN MetadataColumns
    BY DEF MetadataColumns
  <2> QED BY <2>1, <2>2 DEF ColumnsTyped
<1>5. ColumnsTyped(CountColumns)
  <2>1. \A c \in DOMAIN CountColumns : ColumnTyped(CountColumns[c])
    BY WaysTyped DEF CountColumns
  <2>2. "" \notin DOMAIN CountColumns
    BY DEF CountColumns
  <2> QED BY <2>1, <2>2 DEF ColumnsTyped
<1>6. ColumnsTyped(Asked)
  <2>1. \A c \in DOMAIN Asked : ColumnTyped(Asked[c])
    BY WaysTyped DEF Asked
  <2>2. "" \notin DOMAIN Asked
    BY DEF Asked
  <2> QED BY <2>1, <2>2 DEF ColumnsTyped
<1>7. ColumnsTyped(ResponseHeader)
  <2>1. \A c \in DOMAIN ResponseHeader : ColumnTyped(ResponseHeader[c])
    BY WaysTyped DEF ResponseHeader
  <2>2. "" \notin DOMAIN ResponseHeader
    BY DEF ResponseHeader
  <2> QED BY <2>1, <2>2 DEF ColumnsTyped
<1>8. ColumnsTyped(TransferURLRequestFields)
  <2>1. \A c \in DOMAIN TransferURLRequestFields : ColumnTyped(TransferURLRequestFields[c])
    BY WaysTyped DEF TransferURLRequestFields
  <2>2. "" \notin DOMAIN TransferURLRequestFields
    BY DEF TransferURLRequestFields
  <2> QED BY <2>1, <2>2 DEF ColumnsTyped
<1>9. ColumnsTyped(PostingColumns)
  <2> DEFINE part1 == [word |-> Must(Hashes), h |-> Must(Hashes), a |-> Wrapped(DayRange),
                       w |-> Wrapped(WordRange), p |-> Wrapped(WordRange),
                       t |-> Wrapped(WordRange), d |-> Told("postingType"),
                       l |-> Told("letters"), z |-> Told("flags")]
             part2 == [c \in {"u", "x", "y", "m", "n", "c", "r", "o"} |-> Wrapped(ByteRange)]
  <2>1. (\A c \in DOMAIN part1 : ColumnTyped(part1[c])) /\ "" \notin DOMAIN part1
    BY WaysTyped
  <2>2. (\A c \in DOMAIN part2 : ColumnTyped(part2[c])) /\ "" \notin DOMAIN part2
    BY WaysTyped
  <2>3. PostingColumns = part1 || part2
    BY DEF PostingColumns
  <2> HIDE DEF part1, part2
  <2> QED BY <2>1, <2>2, <2>3, BothTyped DEF ColumnsTyped
<1>10. ColumnsTyped(ResourceColumns)
  <2> DEFINE part1 == [wi |-> Sound(Records)]
  <2>1. (\A c \in DOMAIN part1 : ColumnTyped(part1[c])) /\ "" \notin DOMAIN part1
    BY WaysTyped
  <2>2. ResourceColumns = MetadataColumns || CountColumns || part1
    BY DEF ResourceColumns
  <2> HIDE DEF part1
  <2> QED BY <1>4, <1>5, <2>1, <2>2, BothTyped DEF ColumnsTyped
<1>11. ColumnsTyped(HelloRequestFields)
  <2> DEFINE part1 == [seed |-> Must(Records), count |-> Told("number"),
                       magicmd5 |-> Told("kept"), mytime |-> Sound(Instants)]
  <2>1. (\A c \in DOMAIN part1 : ColumnTyped(part1[c])) /\ "" \notin DOMAIN part1
    BY WaysTyped
  <2>2. HelloRequestFields = Asked || part1
    BY DEF HelloRequestFields
  <2> HIDE DEF part1
  <2> QED BY <1>6, <2>1, <2>2, BothTyped DEF ColumnsTyped
<1>12. ColumnsTyped(QueryRequestFields)
  <2> DEFINE part1 == [youare |-> Sound(Hashes), object |-> Must(Objects), env |-> Told("kept"),
                       magicmd5 |-> Told("kept"), mytime |-> Sound(Instants)]
  <2>1. (\A c \in DOMAIN part1 : ColumnTyped(part1[c])) /\ "" \notin DOMAIN part1
    BY WaysTyped
  <2>2. QueryRequestFields = Asked || part1
    BY DEF QueryRequestFields
  <2> HIDE DEF part1
  <2> QED BY <1>6, <2>1, <2>2, BothTyped DEF ColumnsTyped
<1>13. ColumnsTyped(TransferRWIRequestFields)
  <2> DEFINE part1 == [youare |-> Sound(Hashes), wordc |-> Told("number"),
                       entryc |-> Told("number")]
  <2>1. (\A c \in DOMAIN part1 : ColumnTyped(part1[c])) /\ "" \notin DOMAIN part1
    BY WaysTyped
  <2>2. TransferRWIRequestFields = Asked || part1
    BY DEF TransferRWIRequestFields
  <2> HIDE DEF part1
  <2> QED BY <1>6, <2>1, <2>2, BothTyped DEF ColumnsTyped
<1>14. ColumnsTyped(SearchRequestFields)
  <2> DEFINE part1 == [myseed |-> Sound(Records), query |-> Told("query"),
                       exclude |-> Told("query"), urls |-> Told("query"),
                       abstracts |-> Told("query"), contentdom |-> Sound(Domains),
                       strictContentDom |-> Told("answer"), constraint |-> Told("constraint")]
             part2 == [f \in {"count", "time", "maxdist", "partitions",
                       "timezoneOffset"} |-> Told("someNumber")]
             part3 == [f \in {"network", "language", "modifier", "prefer", "filter", "profile",
                       "sitehost", "sitehash", "author", "collection", "filetype",
                       "protocol"} |-> Told("kept")]
  <2>1. (\A c \in DOMAIN part1 : ColumnTyped(part1[c])) /\ "" \notin DOMAIN part1
    BY WaysTyped
  <2>2. (\A c \in DOMAIN part2 : ColumnTyped(part2[c])) /\ "" \notin DOMAIN part2
    BY WaysTyped
  <2>3. (\A c \in DOMAIN part3 : ColumnTyped(part3[c])) /\ "" \notin DOMAIN part3
    BY WaysTyped
  <2>4. SearchRequestFields = part1 || part2 || part3
    BY DEF SearchRequestFields
  <2> HIDE DEF part1, part2, part3
  <2> QED BY <2>1, <2>2, <2>3, <2>4, BothTyped DEF ColumnsTyped
<1>15. ColumnsTyped(HelloResponseFields)
  <2> DEFINE part1 == [yourip |-> Told("kept"), yourtype |-> Sound(PeerTypes),
                       mytime |-> Sound(Instants), message |-> Told("kept")]
  <2>1. (\A c \in DOMAIN part1 : ColumnTyped(part1[c])) /\ "" \notin DOMAIN part1
    BY WaysTyped
  <2>2. HelloResponseFields = ResponseHeader || part1
    BY DEF HelloResponseFields
  <2> HIDE DEF part1
  <2> QED BY <1>7, <2>1, <2>2, BothTyped DEF ColumnsTyped
<1>16. ColumnsTyped(QueryResponseFields)
  <2> DEFINE part1 == [response |-> Told("number"), mytime |-> Sound(Instants),
                       magic |-> Told("kept")]
  <2>1. (\A c \in DOMAIN part1 : ColumnTyped(part1[c])) /\ "" \notin DOMAIN part1
    BY WaysTyped
  <2>2. QueryResponseFields = ResponseHeader || part1
    BY DEF QueryResponseFields
  <2> HIDE DEF part1
  <2> QED BY <1>7, <2>1, <2>2, BothTyped DEF ColumnsTyped
<1>17. ColumnsTyped(TransferRWIResponseFields)
  <2> DEFINE part1 == [result |-> Must(PostingResults), pause |-> Told("number"),
                       unknownURL |-> Told("hashes"), errorURL |-> Told("hashes")]
  <2>1. (\A c \in DOMAIN part1 : ColumnTyped(part1[c])) /\ "" \notin DOMAIN part1
    BY WaysTyped
  <2>2. TransferRWIResponseFields = ResponseHeader || part1
    BY DEF TransferRWIResponseFields
  <2> HIDE DEF part1
  <2> QED BY <1>7, <2>1, <2>2, BothTyped DEF ColumnsTyped
<1>18. ColumnsTyped(TransferURLResponseFields)
  <2> DEFINE part1 == [result |-> Sound(URLResults), double |-> Told("number"),
                       errorURL |-> Told("hashes")]
  <2>1. (\A c \in DOMAIN part1 : ColumnTyped(part1[c])) /\ "" \notin DOMAIN part1
    BY WaysTyped
  <2>2. TransferURLResponseFields = ResponseHeader || part1
    BY DEF TransferURLResponseFields
  <2> HIDE DEF part1
  <2> QED BY <1>7, <2>1, <2>2, BothTyped DEF ColumnsTyped
<1>19. ColumnsTyped(SearchResponseFields)
  <2> DEFINE part1 == [searchtime |-> Told("number"), references |-> Told("kept"),
                       joincount |-> Told("number"), count |-> Told("number"),
                       indexcount |-> Told("readable"), indexabstract |-> Told("kept")]
  <2>1. (\A c \in DOMAIN part1 : ColumnTyped(part1[c])) /\ "" \notin DOMAIN part1
    BY WaysTyped
  <2>2. SearchResponseFields = ResponseHeader || part1
    BY DEF SearchResponseFields
  <2> HIDE DEF part1
  <2> QED BY <1>7, <2>1, <2>2, BothTyped DEF ColumnsTyped
<1>20. ColumnsTyped(SeedColumns || ActivityColumns) /\ ColumnsTyped(MetadataColumns || CountColumns)
  BY <1>1, <1>2, <1>4, <1>5, BothTyped
<1>21. \A k \in DOMAIN Rows : ColumnsTyped(Rows[k])
  BY <1>3, <1>9, <1>10, <1>20 DEF Rows
<1>22. \A k \in DOMAIN Forms : ColumnsTyped(Forms[k])
  BY <1>8, <1>11, <1>12, <1>13, <1>14 DEF Forms
<1>23. \A k \in DOMAIN Messages : ColumnsTyped(Messages[k])
  BY <1>15, <1>16, <1>17, <1>18, <1>19 DEF Messages
<1>24. \A k \in DOMAIN Schema :
          Schema[k] \in {Rows[j] : j \in DOMAIN Rows} \cup {Forms[j] : j \in DOMAIN Forms}
                        \cup {Messages[j] : j \in DOMAIN Messages}
  BY DEF Schema, ||
<1>25. "News" \in DOMAIN Rows /\ DOMAIN Rows \subseteq DOMAIN Schema
  BY DEF Rows, Schema, ||
<1> QED BY <1>21, <1>22, <1>23, <1>24, <1>25

----------------------------------------------------------------------------
RowTyped(k, pairs) ==
    \A c \in DOMAIN Schema[k], turn \in Turns :
        <<c, turn>> \in DOMAIN pairs => pairs[<<c, turn>>] \in Seq(Piece)

\* There is a first and a last turn.
LEMMA FirstAndLast ==
    ASSUME NEW turns, turns \subseteq Turns, turns # {}
    PROVE  Min(turns) \in turns /\ Max(turns) \in turns
<1>1. MostTurns \in Nat \ {0} /\ turns \subseteq Nat /\ \A x \in turns : x <= MostTurns
  BY SamplesAssumption DEF Turns
<1>2. ASSUME NEW T \in SUBSET Nat, T # {}
      PROVE  \E x \in T : \A y \in T : x <= y
  <2>1. PICK x \in T : \A y \in T : ~ (<<y, x>> \in OpToRel(<, Nat))
    BY <1>2, NatLessThanWellFounded, WFMin
  <2>2. \A y \in T : ~ (y < x)
    BY <2>1 DEF OpToRel
  <2> QED BY <2>2
<1>3. \E x \in turns : \A y \in turns : x <= y
  BY <1>1, <1>2
<1>4. \E x \in turns : \A y \in turns : x >= y
  <2> DEFINE T == {MostTurns - x : x \in turns}
  <2>1. T \in SUBSET Nat /\ T # {}
    <3>1. \A x \in turns : MostTurns - x \in Nat
      BY <1>1
    <3> QED BY <3>1
  <2>2. PICK z \in T : \A y \in T : z <= y
    BY <1>2, <2>1
  <2>3. PICK x \in turns : z = MostTurns - x
    OBVIOUS
  <2>4. \A y \in turns : MostTurns - x <= MostTurns - y
    BY <2>2, <2>3
  <2> QED BY <1>1, <2>4
<1> QED BY <1>3, <1>4 DEF Min, Max

\* Of a row's pairs of one column, one is read.
LEMMA OneIsRead ==
    ASSUME NEW k \in DOMAIN Schema, NEW pairs, NEW c
    PROVE  /\ ~IsThere(pairs, c) => TextIn(k, pairs, c) = <<>>
           /\ IsThere(pairs, c) =>
                 \E turn \in Turns : /\ <<c, turn>> \in DOMAIN pairs
                                     /\ TextIn(k, pairs, c) = pairs[<<c, turn>>]
<1>1. CASE ~IsThere(pairs, c)
  BY <1>1 DEF TextIn
<1>2. CASE IsThere(pairs, c)
  <2> DEFINE turns == {turn \in Turns : <<c, turn>> \in DOMAIN pairs}
  <2>1. turns \subseteq Turns /\ turns # {}
    BY <1>2 DEF IsThere
  <2>2. Min(turns) \in turns /\ Max(turns) \in turns
    BY <2>1, FirstAndLast
  <2> QED BY <1>2, <2>2 DEF TextIn
<1> QED BY <1>1, <1>2

\* What a row says in a column, and what it says to who reads it.
Read(k, pairs) ==
    [c \in DOMAIN Schema[k] |->
        IF Schema[k][c].as \in ToldByPresence /\ ~IsThere(pairs, c) THEN NoValue
        ELSE ValueOf(Schema[k][c], TextIn(k, pairs, c))]

Record(k, pairs) == [c \in DOMAIN Schema[k] |-> Read(k, pairs)[c].of]
\* A row is read column by column.
LEMMA RowIsRead ==
    ASSUME NEW k, NEW pairs
    PROVE  ReadRow(k, pairs) =
             IF \/ k \in DOMAIN Rows /\ Unpaired \in DOMAIN pairs
                \/ Outgrows(k, pairs)
                \/ \E c \in DOMAIN Schema[k] : ~Read(k, pairs)[c].ok
             THEN Refused
             ELSE IF k = "ListedSeed" /\ ~IsAddressable(Record(k, pairs)) THEN Refused
             ELSE [ok |-> TRUE, of |-> Record(k, pairs)]
BY DEF ReadRow, Read, Record

\* What a node writes of a row it accepted is read as what it accepted.
THEOREM ReadAsWritten ==
    ASSUME NEW k \in DOMAIN Schema, NEW pairs, RowTyped(k, pairs), ReadRow(k, pairs).ok
    PROVE  LET written == WriteRow(k, ReadRow(k, pairs).of) IN
           /\ RowTyped(k, written)
           /\ ~Outgrows(k, written) =>
                 ReadRow(k, written) = ReadRow(k, pairs)
<1> DEFINE columns == Schema[k]
           record == Record(k, pairs)
           written == WriteRow(k, record)
<1>1. /\ \A c \in DOMAIN columns : Read(k, pairs)[c].ok
      /\ k = "ListedSeed" => IsAddressable(record)
      /\ ReadRow(k, pairs) = [ok |-> TRUE, of |-> record]
  BY RowIsRead DEF Refused
<1>2. ColumnsTyped(columns)
  BY SchemaTyped
<1>3. ASSUME NEW c \in DOMAIN columns
      PROVE  /\ TextOf(record[c]) \in Seq(Piece)
             /\ Read(k, pairs)[c] = Some(record[c])
             /\ IsWritten(columns[c], record[c]) =>
                   ValueOf(columns[c], TextOf(record[c])) = Some(record[c])
             /\ ~IsWritten(columns[c], record[c]) =>
                   \/ columns[c].as \in ToldByPresence /\ record[c] = <<>>
                   \/ /\ columns[c].as \notin ToldByPresence
                      /\ ValueOf(columns[c], <<>>) = Some(record[c])
  <2> DEFINE text == TextIn(k, pairs, c)
  <2>1. text \in Seq(Piece)
    <3>1. CASE IsThere(pairs, c)
      <4>1. PICK turn \in Turns : /\ <<c, turn>> \in DOMAIN pairs
                                 /\ text = pairs[<<c, turn>>]
        BY <3>1, OneIsRead
      <4> QED BY <4>1 DEF RowTyped
    <3>2. CASE ~IsThere(pairs, c)
      <4>1. text = <<>>
        BY <3>2, OneIsRead
      <4>2. <<>> \in Seq(Piece)
        OBVIOUS
      <4> QED BY <4>1, <4>2
    <3> QED BY <3>1, <3>2
  <2>2. ColumnTyped(columns[c])
    BY <1>2 DEF ColumnsTyped
  <2>3. CASE columns[c].as \in ToldByPresence /\ ~IsThere(pairs, c)
    <3>1. Read(k, pairs)[c] = NoValue /\ record[c] = <<>>
      BY <2>3 DEF Read, Record, NoValue, Some
    <3>2. ~IsWritten(columns[c], record[c])
      BY <2>3, <3>1 DEF IsWritten, ToldByPresence
    <3>3. TextOf(<<>>) \in Seq(Piece)
      <4>1. TextOf(<<>>) = <<>> /\ <<>> \in Seq(Piece)
        BY RewrittenNone
      <4> QED BY <4>1
    <3>4. TextOf(record[c]) \in Seq(Piece) /\ Read(k, pairs)[c] = Some(record[c])
      BY <3>1, <3>3 DEF NoValue
    <3> HIDE DEF columns, record
    <3> QED BY <2>3, <3>1, <3>2, <3>4
  <2>4. CASE ~(columns[c].as \in ToldByPresence /\ ~IsThere(pairs, c))
    <3>1. Read(k, pairs)[c] = ValueOf(columns[c], text)
      BY <2>4 DEF Read
    <3>2. record[c] = ValueOf(columns[c], text).of /\ ValueOf(columns[c], text).ok
      BY <1>1, <3>1 DEF Record
    <3> HIDE DEF text, columns, record
    <3>3. LET v == record[c] IN
             /\ ValueOf(columns[c], text) = Some(v)
             /\ TextOf(v) \in Seq(Piece)
             /\ IsWritten(columns[c], v) => ValueOf(columns[c], TextOf(v)) = Some(v)
             /\ ~IsWritten(columns[c], v) /\ columns[c].as \notin ToldByPresence =>
                   ValueOf(columns[c], <<>>) = Some(v)
             /\ ~IsWritten(columns[c], v) /\ columns[c].as \in ToldByPresence => v = <<>>
      BY <2>1, <2>2, <3>2, ColumnAgrees
    <3> QED BY <3>1, <3>3
  <2> QED BY <2>3, <2>4
<1> DEFINE shown == {d \in DOMAIN columns : IsWritten(columns[d], record[d])}
<1>4. written = [place \in shown \X {1} |-> TextOf(record[place[1]])]
  BY DEF WriteRow
<1>5. DOMAIN written = shown \X {1}
  BY <1>4
<1>6. \A c, turn : <<c, turn>> \in DOMAIN written <=> c \in shown /\ turn = 1
  BY <1>5
<1>7. \A c \in shown : written[<<c, 1>>] = TextOf(record[c])
  BY <1>4
<1> HIDE DEF written, shown, record
<1>8. RowTyped(k, written)
  BY <1>3, <1>6, <1>7 DEF RowTyped, shown
<1>9. Unpaired \notin DOMAIN written
  BY <1>2, <1>6 DEF Unpaired, ColumnsTyped, shown
<1>10. 1 \in Turns
  BY SamplesAssumption DEF Turns
<1>11. \A c : IsThere(written, c) <=> c \in shown
  BY <1>6, <1>10 DEF IsThere
<1>12. \A c \in DOMAIN columns : Read(k, written)[c] = Some(record[c])
  <2> SUFFICES ASSUME NEW c \in DOMAIN columns
               PROVE  Read(k, written)[c] = Some(record[c])
    OBVIOUS
  <2>1. Read(k, written)[c] =
          IF columns[c].as \in ToldByPresence /\ ~IsThere(written, c) THEN NoValue
          ELSE ValueOf(columns[c], TextIn(k, written, c))
    BY DEF Read
  <2>2. CASE c \in shown
    <3>1. IsThere(written, c)
      BY <1>11, <2>2
    <3>2. PICK turn \in Turns : /\ <<c, turn>> \in DOMAIN written
                               /\ TextIn(k, written, c) = written[<<c, turn>>]
      BY <3>1, OneIsRead
    <3>3. TextIn(k, written, c) = TextOf(record[c])
      BY <1>6, <1>7, <2>2, <3>2
    <3> QED BY <1>3, <2>1, <2>2, <3>1, <3>3 DEF shown
  <2>3. CASE c \notin shown
    <3>1. TextIn(k, written, c) = <<>> /\ ~IsThere(written, c)
      BY <1>11, <2>3, OneIsRead
    <3> QED BY <1>3, <2>1, <2>3, <3>1 DEF shown, NoValue
  <2> QED BY <2>2, <2>3
<1>13. Record(k, written) = record
  <2>1. \A c \in DOMAIN columns : Read(k, written)[c].of = Read(k, pairs)[c].of
    BY <1>3, <1>12
  <2> QED BY <2>1 DEF Record, record
<1>14. \A c \in DOMAIN columns : Read(k, written)[c].ok
  <2>1. \A values : Some(values).ok
    BY DEF Some
  <2> QED BY <1>12, <2>1
<1>15. ~Outgrows(k, written) => ReadRow(k, written) = [ok |-> TRUE, of |-> record]
  BY <1>1, <1>9, <1>13, <1>14, RowIsRead
<1> QED BY <1>1, <1>8, <1>15 DEF written, record

\* What is on the wire is of pieces.
WireTypeInv == kind \in DOMAIN Schema /\ RowTyped(kind, row)
\* The texts that are sent are of pieces.
LEMMA TextsArePieces == \A t \in Texts : t \in Seq(Piece)
<1>1. Samples \subseteq Int
  BY SamplesAssumption
<1>2. \A n \in Int : Plain(n) \in Piece /\ Ragged(n) \in Piece
  BY DEF Plain, Ragged, Piece
<1>3. Junk \in Piece
  BY DEF Junk, Piece
<1>4. Pieces \subseteq Piece
  BY <1>1, <1>2, <1>3 DEF Pieces
<1>5. \A p \in Piece : <<p>> \in Seq(Piece)
  OBVIOUS
<1>6. \A p, q \in Piece : <<p, q>> \in Seq(Piece)
  OBVIOUS
<1>7. {Plain(1), Ragged(1), Junk} \subseteq Piece
  BY <1>2, <1>3
<1>8. \A t \in Texts : \/ t = <<>> \/ \E p \in Pieces : t = <<p>>
                       \/ \E p, q \in {Plain(1), Ragged(1), Junk} : t = <<p, q>>
  BY DEF Texts
<1>9. <<>> \in Seq(Piece)
  OBVIOUS
<1>10. \A p \in Pieces : <<p>> \in Seq(Piece)
  BY <1>4, <1>5
<1>11. \A p, q \in {Plain(1), Ragged(1), Junk} : <<p, q>> \in Seq(Piece)
  BY <1>6, <1>7
<1> SUFFICES ASSUME NEW t \in Texts PROVE t \in Seq(Piece)
  OBVIOUS
<1> QED BY <1>8, <1>9, <1>10, <1>11

\* Pairs whose texts are of pieces, and what is in both.
PairsTyped(pairs) == \A place \in DOMAIN pairs : pairs[place] \in Seq(Piece)
\* So are those of a row that is sent.
LEMMA SentTyped ==
    ASSUME NEW k \in DOMAIN Schema, NEW pairs \in Sent(k)
    PROVE  RowTyped(k, pairs)
<1>1. \A f, g : PairsTyped(f) /\ PairsTyped(g) => PairsTyped(f || g)
  BY DEF PairsTyped, ||
<1>2. \A place, t : t \in Seq(Piece) => PairsTyped(At(place, t))
  BY DEF PairsTyped, At
<1>3. \A n \in Int : <<Plain(n)>> \in Seq(Piece)
  <2>1. \A n \in Int : Plain(n) \in Piece
    BY DEF Plain, Piece
  <2> QED BY <2>1
<1>4. <<Junk>> \in Seq(Piece) /\ <<>> \in Seq(Piece)
  BY DEF Junk, Piece
<1>5. PairsTyped(Barest(k))
  <2> DEFINE needed == {c \in DOMAIN Schema[k] :
                      Schema[k][c].as \in Compulsory \/ (k = "ListedSeed" /\ c = "IP")}
  <2>1. Barest(k) = [place \in needed \X {2} |-> <<Plain(3)>>]
    BY DEF Barest
  <2> HIDE DEF needed
  <2> QED BY <1>3, <2>1 DEF PairsTyped
<1>6. PairsTyped(<<>>)
  BY DEF PairsTyped
<1>7. \A t \in Texts : t \in Seq(Piece)
  BY TextsArePieces
<1>8. PairsTyped(pairs)
  <2>1. \A c \in DOMAIN Schema[k], t \in Texts : PairsTyped(At(<<c, 1>>, t) || Barest(k))
    BY <1>1, <1>2, <1>5, <1>7
  <2>2. \A more \in Beside : PairsTyped(more)
    <3>1. <<Plain(1)>> \in Seq(Piece)
      BY <1>3
    <3>2. PairsTyped(At(<<"unknown", 1>>, <<Plain(1)>>))
      BY <1>2, <3>1
    <3>3. PairsTyped(At(Unpaired, <<Junk>>))
      BY <1>2, <1>4
    <3> QED BY <1>6, <3>2, <3>3 DEF Beside
  <2>3. \A c \in DOMAIN Schema[k], u \in Again : PairsTyped(At(<<c, 3>>, u))
    <3>1. <<Plain(5)>> \in Seq(Piece)
      BY <1>3
    <3>2. \A u \in Again : u \in Seq(Piece)
      BY <1>4, <3>1 DEF Again
    <3> QED BY <1>2, <3>2
  <2>4. \/ \E c \in DOMAIN Schema[k], t \in Texts, more \in Beside :
              pairs = (At(<<c, 1>>, t) || Barest(k)) || more
        \/ \E c \in DOMAIN Schema[k], t \in Texts, u \in Again :
              pairs = (At(<<c, 1>>, t) || Barest(k)) || At(<<c, 3>>, u)
    BY DEF Sent, SentOnce, SentAgain
  <2>5. \E f, g : PairsTyped(f) /\ PairsTyped(g) /\ pairs = f || g
    BY <2>1, <2>2, <2>3, <2>4
  <2> QED BY <1>1, <2>5
<1> QED BY <1>8 DEF PairsTyped, RowTyped
\* And of every row on its way.
LEMMA WireTyped == WireInit /\ [][WireNext]_wireVars => []WireTypeInv
<1>1. ASSUME WireInit PROVE WireTypeInv
  <2>1. CASE kind \in DOMAIN Schema /\ row \in Sent(kind)
    BY <2>1, SentTyped DEF WireTypeInv
  <2>2. CASE kind = "News" /\ row = <<>>
    BY <2>2, SchemaTyped DEF WireTypeInv, RowTyped
  <2> QED BY <1>1, <2>1, <2>2 DEF WireInit
<1>2. ASSUME WireTypeInv, [WireNext]_wireVars PROVE WireTypeInv'
  <2>1. CASE PassOn
    <3>1. kind' = kind /\ RowTyped(kind, row')
      BY <1>2, <2>1, ReadAsWritten DEF PassOn, WireTypeInv
    <3> QED BY <1>2, <3>1 DEF WireTypeInv, RowTyped
  <2>2. CASE Drop
    BY <1>2, <2>2 DEF Drop, WireTypeInv, RowTyped
  <2>3. CASE UNCHANGED <<kind, row>>
    BY <1>2, <2>3 DEF WireTypeInv, RowTyped
  <2> QED BY <1>2, <2>1, <2>2, <2>3 DEF WireNext, SpoiltItem, NextBatch, wireVars
<1> QED BY <1>1, <1>2, PTL

\* Rows passed on are read as the same.
THEOREM RowsPassedOn == WireInit /\ [][WireNext]_wireVars => PassedOnUnchanged
<1>1. ASSUME WireTypeInv, [WireNext]_wireVars
      PROVE  [PassOn /\ ~Outgrows(kind, row') => ReadRow(kind, row') = ReadRow(kind, row)]_wireVars
  BY <1>1, ReadAsWritten DEF PassOn, WireTypeInv
<1> QED BY <1>1, WireTyped, PTL DEF PassedOnUnchanged

----------------------------------------------------------------------------
\* Batches.

Item == [is : {"good", "broken", "nothing"}, n : Int]
\* A sequence with one more.
LEMMA InsertedIs ==
    ASSUME NEW s \in Seq(Item), NEW k \in 1 .. Len(s) + 1, NEW x \in Item
    PROVE  /\ InsertAt(s, k, x) \in Seq(Item) /\ Len(InsertAt(s, k, x)) = Len(s) + 1
           /\ InsertAt(s, k, x)[k] = x
           /\ \A j \in 1 .. Len(s) : j < k => InsertAt(s, k, x)[j] = s[j]
           /\ \A j \in 1 .. Len(s) : j >= k => InsertAt(s, k, x)[j + 1] = s[j]
<1>1. Len(s) \in Nat /\ k \in Nat /\ 1 <= k /\ k <= Len(s) + 1
  OBVIOUS
<1> DEFINE a == SubSeq(s, 1, k - 1)
           b == SubSeq(s, k, Len(s))
<1>2. a \in Seq(Item) /\ Len(a) = k - 1 /\ \A j \in 1 .. k - 1 : a[j] = s[j]
  BY <1>1
<1>3. b \in Seq(Item) /\ Len(b) = Len(s) - k + 1 /\ \A j \in 1 .. Len(s) - k + 1 : b[j] = s[j + k - 1]
  BY <1>1
<1> HIDE DEF a, b
<1> DEFINE c == a \o <<x>>
<1>4. c \in Seq(Item) /\ Len(c) = k /\ c[k] = x /\ \A j \in 1 .. k - 1 : c[j] = s[j]
  BY <1>1, <1>2
<1> HIDE DEF c
<1>5. c \o b \in Seq(Item) /\ Len(c \o b) = Len(s) + 1
  <2>1. c \in Seq(Item) /\ b \in Seq(Item) /\ Len(c) = k /\ Len(b) = Len(s) - k + 1
    BY <1>3, <1>4
  <2>2. c \o b \in Seq(Item) /\ Len(c \o b) = Len(c) + Len(b)
    BY <2>1
  <2> QED BY <1>1, <2>1, <2>2
<1>6. \A j \in 1 .. Len(s) + 1 : (c \o b)[j] = IF j <= k THEN c[j] ELSE b[j - k]
  BY <1>1, <1>3, <1>4
<1>7. (c \o b)[k] = x
  BY <1>1, <1>4, <1>6
<1>8. ASSUME NEW j \in 1 .. Len(s), j < k PROVE (c \o b)[j] = s[j]
  BY <1>1, <1>4, <1>6, <1>8
<1>9. ASSUME NEW j \in 1 .. Len(s), j >= k PROVE (c \o b)[j + 1] = s[j]
  <2> DEFINE i == j + 1
  <2>1. i \in 1 .. Len(s) + 1 /\ ~(i <= k) /\ i - k \in 1 .. Len(s) - k + 1
    BY <1>1, <1>9
  <2>2. (i - k) + k - 1 = j
    BY <1>1
  <2> HIDE DEF i
  <2>3. (c \o b)[i] = b[i - k]
    BY <1>6, <2>1
  <2>4. b[i - k] = s[(i - k) + k - 1]
    BY <1>3, <2>1
  <2>5. (c \o b)[i] = s[j]
    BY <2>2, <2>3, <2>4
  <2> QED BY <2>5 DEF i
<1>10. InsertAt(s, k, x) = c \o b
  BY DEF InsertAt, a, b, c
<1> QED BY <1>5, <1>7, <1>8, <1>9, <1>10

\* Where an item is once another is inserted at k.
Shift(k, i) == IF i < k THEN i ELSE i + 1

Shifted(k, places) == {Shift(k, i) : i \in places}
\* Places that are shifted are as many, in the same order.
LEMMA ShiftKeeps ==
    ASSUME NEW m \in Nat, NEW places, places \subseteq 1 .. m, NEW k \in 1 .. m + 1
    PROVE  /\ Shifted(k, places) \subseteq 1 .. m + 1
           /\ Cardinality(Shifted(k, places)) = Cardinality(places)
           /\ \A n \in 1 .. Cardinality(places) :
                 Nth(Shifted(k, places), n) = Shift(k, Nth(places, n))
<1>1. \A i, j \in 1 .. m :
         /\ Shift(k, i) \in 1 .. m + 1
         /\ Shift(k, i) <= Shift(k, j) <=> i <= j
         /\ Shift(k, i) = Shift(k, j) => i = j
  BY DEF Shift
<1>2. ASSUME NEW T, T \subseteq 1 .. m
      PROVE  Cardinality(Shifted(k, T)) = Cardinality(T)
  <2> DEFINE f == [i \in T |-> Shift(k, i)]
  <2>1. f \in [T -> Shifted(k, T)]
    BY DEF Shifted
  <2>2. \A i, j \in T : f[i] = f[j] => i = j
    BY <1>1, <1>2
  <2>3. \A y \in Shifted(k, T) : \E i \in T : f[i] = y
    BY DEF Shifted
  <2> HIDE DEF f
  <2>4. f \in Bijection(T, Shifted(k, T))
    <3>1. f \in Injection(T, Shifted(k, T))
      BY <2>1, <2>2 DEF Injection, IsInjective
    <3>2. f \in Surjection(T, Shifted(k, T))
      BY <2>1, <2>3 DEF Surjection
    <3> QED BY <3>1, <3>2 DEF Bijection
  <2>5. ExistsBijection(T, Shifted(k, T))
    BY <2>4 DEF ExistsBijection
  <2>6. IsFiniteSet(T)
    BY <1>2, Counted
  <2> QED BY <2>5, <2>6, FS_Bijection
<1>3. Shifted(k, places) \subseteq 1 .. m + 1
  BY <1>1 DEF Shifted
<1>4. Cardinality(Shifted(k, places)) = Cardinality(places)
  BY <1>2
<1>5. ASSUME NEW n \in 1 .. Cardinality(places)
      PROVE  Nth(Shifted(k, places), n) = Shift(k, Nth(places, n))
  <2> DEFINE i == Nth(places, n)
  <2>1. i \in places /\ Cardinality(UpTo(places, i)) = n
    BY NthIs
  <2> HIDE DEF i
  <2>2. UpTo(Shifted(k, places), Shift(k, i)) = Shifted(k, UpTo(places, i))
    <3>1. \A j \in places : Shift(k, j) <= Shift(k, i) <=> j <= i
      BY <1>1, <2>1
    <3> QED BY <3>1 DEF UpTo, Shifted
  <2>3. Cardinality(UpTo(Shifted(k, places), Shift(k, i))) = n
    <3>1. UpTo(places, i) \subseteq 1 .. m
      BY DEF UpTo
    <3> QED BY <1>2, <2>1, <2>2, <3>1
  <2>4. Shift(k, i) \in Shifted(k, places)
    BY <2>1 DEF Shifted
  <2>5. m + 1 \in Nat /\ n \in 1 .. Cardinality(Shifted(k, places))
    BY <1>4
  <2>6. Shift(k, i) = Nth(Shifted(k, places), n)
    BY <1>3, <2>3, <2>4, <2>5, NthIs
  <2> QED BY <2>6 DEF i
<1> QED BY <1>3, <1>4, <1>5

PlacesOf(items, what) == {i \in DOMAIN items : items[i].is = what}

\* Items of a kind keep their order when one of another kind is inserted.
LEMMA PlacesShift ==
    ASSUME NEW items \in Seq(Item), NEW k \in 1 .. Len(items) + 1,
           NEW x \in Item, NEW what, x.is # what
    PROVE  /\ PlacesOf(InsertAt(items, k, x), what) = Shifted(k, PlacesOf(items, what))
           /\ \A i \in 1 .. Len(items) : InsertAt(items, k, x)[Shift(k, i)] = items[i]
<1> DEFINE more == InsertAt(items, k, x)
           places == PlacesOf(items, what)
<1>1. Len(items) \in Nat /\ DOMAIN items = 1 .. Len(items)
  OBVIOUS
<1>2. more \in Seq(Item) /\ Len(more) = Len(items) + 1 /\ more[k] = x
  BY InsertedIs
<1>3. \A i \in 1 .. Len(items) : i < k => more[i] = items[i]
  BY InsertedIs
<1>4. \A i \in 1 .. Len(items) : i >= k => more[i + 1] = items[i]
  BY InsertedIs
<1>5. DOMAIN more = 1 .. Len(items) + 1
  BY <1>2
<1> HIDE DEF more
<1>6. \A i \in 1 .. Len(items) : Shift(k, i) \in 1 .. Len(items) + 1 /\ more[Shift(k, i)] = items[i]
  BY <1>1, <1>3, <1>4 DEF Shift
<1>7. \A j \in 1 .. Len(items) + 1 : j # k => \E i \in 1 .. Len(items) : j = Shift(k, i)
  <2> TAKE j \in 1 .. Len(items) + 1
  <2>1. CASE j < k
    BY <1>1, <2>1 DEF Shift
  <2>2. CASE j > k
    <3>1. j - 1 \in 1 .. Len(items) /\ Shift(k, j - 1) = j
      BY <1>1, <2>2 DEF Shift
    <3> QED BY <3>1
  <2> QED BY <1>1, <2>1, <2>2
<1>8. ASSUME NEW j \in PlacesOf(more, what) PROVE j \in Shifted(k, places)
  <2>1. j \in 1 .. Len(items) + 1 /\ more[j].is = what
    BY <1>5 DEF PlacesOf
  <2>2. PICK i \in 1 .. Len(items) : j = Shift(k, i)
    BY <1>2, <1>7, <2>1
  <2> QED BY <1>1, <1>6, <2>1, <2>2 DEF PlacesOf, Shifted
<1>9. ASSUME NEW j \in Shifted(k, places) PROVE j \in PlacesOf(more, what)
  <2>1. PICK i \in places : j = Shift(k, i)
    BY DEF Shifted
  <2> QED BY <1>1, <1>5, <1>6, <2>1 DEF PlacesOf
<1>10. PlacesOf(more, what) = Shifted(k, places)
  BY <1>8, <1>9
<1> QED BY <1>6, <1>10 DEF more

\* An item that is not good is not among the good ones, nor moves them.
LEMMA GoodStay ==
    ASSUME NEW items \in Seq(Item), NEW k \in 1 .. Len(items) + 1,
           NEW x \in Item, x.is # "good"
    PROVE  GoodOf(InsertAt(items, k, x)) = GoodOf(items)
<1> DEFINE more == InsertAt(items, k, x)
           places == PlacesOf(items, "good")
<1>1. /\ PlacesOf(more, "good") = Shifted(k, places)
      /\ \A i \in 1 .. Len(items) : more[Shift(k, i)] = items[i]
  BY PlacesShift
<1>2. Len(items) \in Nat /\ places \subseteq 1 .. Len(items)
  BY DEF PlacesOf
<1> HIDE DEF more, places
<1>3. /\ Cardinality(Shifted(k, places)) = Cardinality(places)
      /\ \A n \in 1 .. Cardinality(places) :
            Nth(Shifted(k, places), n) = Shift(k, Nth(places, n))
  BY <1>2, ShiftKeeps
<1>4. \A n \in 1 .. Cardinality(places) : more[Shift(k, Nth(places, n))] = items[Nth(places, n)]
  BY <1>1, <1>2, NthIs
<1>5. Only(more, Shifted(k, places)) = Only(items, places)
  BY <1>3, <1>4 DEF Only
<1>6. \A all : GoodOf(all) = NumbersOf(Only(all, PlacesOf(all, "good")))
  BY DEF GoodOf, PlacesOf
<1> QED BY <1>1, <1>5, <1>6 DEF more, places

\* So it is where only the first items are read.
LEMMA PrefixStays ==
    ASSUME NEW items \in Seq(Item), NEW k \in 1 .. Len(items) + 1,
           NEW x \in Item, x.is # "good", NEW p \in 0 .. Len(items)
    PROVE  /\ k <= p + 1 =>
                 GoodOf(SubSeq(InsertAt(items, k, x), 1, p + 1)) = GoodOf(SubSeq(items, 1, p))
           /\ k > p => SubSeq(InsertAt(items, k, x), 1, p) = SubSeq(items, 1, p)
<1> DEFINE more == InsertAt(items, k, x)
           head == SubSeq(items, 1, p)
<1>1. Len(items) \in Nat /\ p \in Nat /\ p <= Len(items) /\ k \in Nat /\ 1 <= k
  OBVIOUS
<1>2. more \in Seq(Item) /\ Len(more) = Len(items) + 1 /\ more[k] = x
  BY InsertedIs
<1>3. \A i \in 1 .. Len(items) : i < k => more[i] = items[i]
  BY InsertedIs
<1>4. \A i \in 1 .. Len(items) : i >= k => more[i + 1] = items[i]
  BY InsertedIs
<1>5. head \in Seq(Item) /\ Len(head) = p /\ \A i \in 1 .. p : head[i] = items[i]
  BY <1>1
<1> HIDE DEF more, head
<1>6. CASE k <= p + 1
  <2> DEFINE one == SubSeq(more, 1, p + 1)
             two == InsertAt(head, k, x)
  <2>0. head \in Seq(Item)
    BY <1>5
  <2>1. k \in 1 .. Len(head) + 1
    BY <1>1, <1>5, <1>6
  <2>2. two \in Seq(Item) /\ Len(two) = p + 1 /\ two[k] = x
    <3>1. two \in Seq(Item) /\ Len(two) = Len(head) + 1 /\ two[k] = x
      BY <2>0, <2>1, InsertedIs
    <3> QED BY <1>5, <3>1
  <2>3. \A i \in 1 .. p : i < k => two[i] = head[i]
    <3>1. \A i \in 1 .. Len(head) : i < k => two[i] = head[i]
      BY <2>0, <2>1, InsertedIs
    <3> QED BY <1>5, <3>1
  <2>4. \A i \in 1 .. p : i >= k => two[i + 1] = head[i]
    <3>1. \A i \in 1 .. Len(head) : i >= k => two[i + 1] = head[i]
      BY <2>0, <2>1, InsertedIs
    <3> QED BY <1>5, <3>1
  <2>5. one \in Seq(Item) /\ Len(one) = p + 1 /\ \A i \in 1 .. p + 1 : one[i] = more[i]
    BY <1>1, <1>2
  <2> HIDE DEF one, two
  <2>6. ASSUME NEW i \in 1 .. p + 1 PROVE one[i] = two[i]
    <3>1. CASE i = k
      BY <1>2, <2>2, <2>5, <3>1
    <3>2. CASE i < k
      <4>1. i \in 1 .. p /\ i \in 1 .. Len(items)
        BY <1>1, <1>6, <3>2
      <4> QED BY <1>3, <1>5, <2>3, <2>5, <3>2, <4>1
    <3>3. CASE i > k
      <4> DEFINE j == i - 1
      <4>1. j \in 1 .. p /\ j \in 1 .. Len(items) /\ j >= k /\ j + 1 = i
        BY <1>1, <3>3
      <4> HIDE DEF j
      <4> QED BY <1>4, <1>5, <2>4, <2>5, <4>1
    <3> QED BY <1>1, <3>1, <3>2, <3>3
  <2>7. one = two
    <3>1. DOMAIN one = 1 .. p + 1 /\ DOMAIN two = 1 .. p + 1
      BY <1>1, <2>2, <2>5
    <3>2. one = [i \in 1 .. p + 1 |-> one[i]] /\ two = [i \in 1 .. p + 1 |-> two[i]]
      BY <2>2, <2>5, <3>1
    <3> QED BY <2>6, <3>2
  <2>8. GoodOf(two) = GoodOf(head)
    BY <1>5, <2>1, GoodStay DEF two
  <2>9. GoodOf(SubSeq(more, 1, p + 1)) = GoodOf(head)
    BY <2>7, <2>8 DEF one
  <2>10. k > p => SubSeq(more, 1, p) = head
    BY <1>1, <1>2, <1>3, <1>5, <1>6
  <2> QED BY <2>9, <2>10 DEF more, head
<1>7. CASE ~(k <= p + 1)
  BY <1>1, <1>2, <1>3, <1>5, <1>7 DEF more, head
<1> QED BY <1>6, <1>7

\* As many items are read as there were, of what is announced.
LEMMA FirstStays ==
    ASSUME NEW items \in Seq(Item), NEW k \in 1 .. Len(items) + 1,
           NEW x \in Item, x.is # "good", NEW n \in Nat
    PROVE  GoodOf(First(InsertAt(items, k, x), IF n >= k THEN n + 1 ELSE n))
              = GoodOf(First(items, n))
<1> DEFINE more == InsertAt(items, k, x)
           p == IF n < Len(items) THEN n ELSE Len(items)
           m == IF n >= k THEN n + 1 ELSE n
           q == IF m < Len(more) THEN m ELSE Len(more)
<1>1. Len(items) \in Nat /\ k \in Nat /\ k <= Len(items) + 1
  OBVIOUS
<1>2. Len(more) = Len(items) + 1
  BY InsertedIs
<1>3. p \in 0 .. Len(items)
  BY <1>1
<1>4. /\ n >= k => k <= p + 1 /\ q = p + 1
      /\ ~(n >= k) => k > p /\ q = p
  <2> HIDE DEF more
  <2> QED BY <1>1, <1>2
<1>5. First(more, m) = SubSeq(more, 1, q) /\ First(items, n) = SubSeq(items, 1, p)
  BY DEF First
<1>6. /\ k <= p + 1 => GoodOf(SubSeq(more, 1, p + 1)) = GoodOf(SubSeq(items, 1, p))
      /\ k > p => SubSeq(more, 1, p) = SubSeq(items, 1, p)
  BY <1>3, PrefixStays
<1> HIDE DEF more, p, q
<1>7. GoodOf(First(more, m)) = GoodOf(First(items, n))
  BY <1>4, <1>5, <1>6
<1> QED BY <1>7 DEF more

\* The first of some places.
LEMMA LeastOfPlaces ==
    ASSUME NEW m \in Nat, NEW T, T \subseteq 1 .. m, T # {}
    PROVE  LET least == CHOOSE i \in T : \A j \in T : i <= j IN
           /\ least \in T /\ \A j \in T : least <= j
           /\ \A i \in T : (\A j \in T : i <= j) => i = least
<1>1. \A i \in T : i \in Nat
  OBVIOUS
<1>2. PICK i \in T : \A j \in T : ~ (<<j, i>> \in OpToRel(<, Nat))
  BY <1>1, NatLessThanWellFounded, WFMin
<1>3. \A j \in T : ~ (j < i)
  BY <1>1, <1>2 DEF OpToRel
<1>4. \A j \in T : i <= j
  BY <1>1, <1>3
<1> DEFINE least == CHOOSE e \in T : \A j \in T : e <= j
<1>5. least \in T /\ \A j \in T : least <= j
  BY <1>4
<1> HIDE DEF least
<1>6. ASSUME NEW e \in T, \A j \in T : e <= j PROVE e = least
  <2>1. e <= least /\ least <= e /\ e \in Nat /\ least \in Nat
    BY <1>1, <1>5, <1>6
  <2> QED BY <2>1
<1> QED BY <1>5, <1>6 DEF least

\* A broken item is read past also where items are read up to a gap.
LEMMA GapStays ==
    ASSUME NEW items \in Seq(Item), NEW k \in 1 .. Len(items) + 1,
           NEW x \in Item, x.is = "broken"
    PROVE  GoodOf(UpToGap(InsertAt(items, k, x))) = GoodOf(UpToGap(items))
<1> DEFINE more == InsertAt(items, k, x)
           gaps == PlacesOf(items, "nothing")
           least(T) == CHOOSE i \in T : \A j \in T : i <= j
<1>1. PlacesOf(more, "nothing") = Shifted(k, gaps)
  BY PlacesShift
<1>2. Len(items) \in Nat /\ gaps \subseteq 1 .. Len(items)
  BY DEF PlacesOf
<1>3. \A all : UpToGap(all) =
         IF PlacesOf(all, "nothing") = {} THEN all
         ELSE SubSeq(all, 1, least(PlacesOf(all, "nothing")) - 1)
  BY DEF UpToGap, PlacesOf
<1>4. CASE gaps = {}
  <2>1. Shifted(k, gaps) = {}
    BY <1>4 DEF Shifted
  <2>2. UpToGap(more) = more /\ UpToGap(items) = items
    BY <1>1, <1>3, <1>4, <2>1
  <2>3. GoodOf(more) = GoodOf(items)
    BY GoodStay
  <2> HIDE DEF more
  <2> QED BY <2>2, <2>3 DEF more
<1>5. CASE gaps # {}
  <2> DEFINE g == least(gaps)
             p == g - 1
  <2>1. g \in gaps /\ \A j \in gaps : g <= j
    BY <1>2, <1>5, LeastOfPlaces
  <2> HIDE DEF g
  <2>2. Shift(k, g) \in Shifted(k, gaps) /\ \A j \in Shifted(k, gaps) : Shift(k, g) <= j
    BY <1>2, <2>1 DEF Shifted, Shift
  <2>3. Shifted(k, gaps) \subseteq 1 .. Len(items) + 1
    BY <1>2, ShiftKeeps
  <2>4. least(Shifted(k, gaps)) = Shift(k, g)
    <3>1. Shifted(k, gaps) # {} /\ Len(items) + 1 \in Nat
      BY <1>2, <2>2
    <3> QED BY <2>2, <2>3, <3>1, LeastOfPlaces
  <2>5. UpToGap(more) = SubSeq(more, 1, Shift(k, g) - 1) /\ UpToGap(items) = SubSeq(items, 1, p)
    BY <1>1, <1>3, <1>5, <2>2, <2>4 DEF g
  <2>6. p \in 0 .. Len(items) /\ g \in Nat
    BY <1>2, <2>1
  <2>7. /\ k <= p + 1 => GoodOf(SubSeq(more, 1, p + 1)) = GoodOf(SubSeq(items, 1, p))
        /\ k > p => SubSeq(more, 1, p) = SubSeq(items, 1, p)
    BY <2>6, PrefixStays
  <2>8. \/ k <= p + 1 /\ Shift(k, g) - 1 = p + 1
        \/ k > p /\ Shift(k, g) - 1 = p
    BY <2>6 DEF Shift
  <2> HIDE DEF more, p
  <2>9. GoodOf(UpToGap(more)) = GoodOf(UpToGap(items))
    BY <2>5, <2>7, <2>8
  <2> QED BY <2>9 DEF more
<1> QED BY <1>4, <1>5

\* Whoever reads the batch.
LEMMA SpoiltStays ==
    ASSUME NEW r \in BatchReaders, NEW items \in Seq(Item), NEW n \in Nat,
           NEW k \in 1 .. Len(items) + 1, NEW x \in Spoils[r], r = "seeds" => k > 1
    PROVE  ReadBatch(r, [items |-> InsertAt(items, k, x),
                         count |-> IF n >= k THEN n + 1 ELSE n])
              = ReadBatch(r, [items |-> items, count |-> n])
<1> DEFINE more == InsertAt(items, k, x)
           m == IF n >= k THEN n + 1 ELSE n
<1>1. x \in {Broken, Nothing} /\ (r \in {"seeds", "resources"} => x = Broken)
  BY DEF Spoils, BatchReaders
<1>2. x \in Item /\ x.is # "good"
  BY <1>1 DEF Broken, Nothing, Item
<1>20. r \in {"seeds", "resources"} => x.is = "broken"
  BY <1>1 DEF Broken
<1>3. GoodOf(more) = GoodOf(items)
  BY <1>2, GoodStay
<1>4. GoodOf(First(more, m)) = GoodOf(First(items, n))
  BY <1>2, FirstStays
<1>5. r \in {"seeds", "resources"} => GoodOf(UpToGap(more)) = GoodOf(UpToGap(items))
  BY <1>2, <1>20, GapStays
<1>6. r = "seeds" => items # <<>> /\ more # <<>> /\ more[1] = items[1]
  <2>1. Len(items) \in Nat /\ (r = "seeds" => 1 \in 1 .. Len(items) /\ 1 < k)
    OBVIOUS
  <2>0. x \in Item
    BY <1>2
  <2>2. more \in Seq(Item) /\ Len(more) = Len(items) + 1
    BY <2>0, InsertedIs
  <2>3. \A i \in 1 .. Len(items) : i < k => more[i] = items[i]
    BY <2>0, InsertedIs
  <2> HIDE DEF more
  <2>4. r = "seeds" => Len(items) # 0 /\ Len(more) # 0
    BY <2>1, <2>2
  <2> QED BY <2>1, <2>3, <2>4
<1>7. m <= 0 <=> n <= 0
  OBVIOUS
<1> DEFINE b == [items |-> items, count |-> n]
           c == [items |-> more, count |-> m]
<1>8. b.items = items /\ b.count = n /\ c.items = more /\ c.count = m
  OBVIOUS
<1> HIDE DEF b, c, more, m
<1>9. r = "postings" => ReadBatch(r, c) = ReadBatch(r, b)
  BY <1>3, <1>8 DEF ReadBatch, PostingLines
<1>10. r = "metadata" => ReadBatch(r, c) = ReadBatch(r, b)
  BY <1>4, <1>8 DEF ReadBatch, MetadataRows
<1>11. r = "seeds" => ReadBatch(r, c) = ReadBatch(r, b)
  BY <1>5, <1>6, <1>8 DEF ReadBatch, HelloSeeds
<1>12. r = "resources" => ReadBatch(r, c) = ReadBatch(r, b)
  BY <1>4, <1>5, <1>7, <1>8 DEF ReadBatch, Resources
<1>13. r = "seedList" => ReadBatch(r, c) = ReadBatch(r, b)
  BY <1>3, <1>8 DEF ReadBatch, SeedLines
<1>14. ReadBatch(r, c) = ReadBatch(r, b)
  BY <1>9, <1>10, <1>11, <1>12, <1>13 DEF BatchReaders
<1> QED BY <1>14 DEF b, c, more, m

\* A batch of good items within the bounds is read whole.
LEMMA ReadWhole ==
    ASSUME NEW r \in BatchReaders, NEW b, b.items \in Seq(Item),
           Len(GoodOf(b.items)) = Len(b.items), Len(GoodOf(b.items)) <= PostingLimit,
           b.count = Len(GoodOf(b.items))
    PROVE  ReadBatch(r, b) = Some(GoodOf(b.items))
<1> DEFINE items == b.items
           good == PlacesOf(items, "good")
           all == GoodOf(items)
<1>1. items \in Seq(Item) /\ Len(items) \in Nat /\ DOMAIN items = 1 .. Len(items)
  OBVIOUS
<1>2. all = NumbersOf(Only(items, good))
  BY DEF GoodOf, PlacesOf
<1>3. good \subseteq 1 .. Len(items)
  BY <1>1 DEF PlacesOf
<1> HIDE DEF items, good
<1>4. Only(items, good) \in Seq(Item) /\ Len(Only(items, good)) = Cardinality(good)
  <2> HIDE DEF Item
  <2> QED BY <1>1, <1>3, OnlyIs
<1>5. all \in Seq(Int) /\ Len(all) = Cardinality(good)
  <2> DEFINE o == Only(items, good)
  <2>1. DOMAIN o = 1 .. Len(o) /\ \A i \in 1 .. Len(o) : o[i].n \in Int
    <3>1. \A y \in Item : y.n \in Int
      BY DEF Item
    <3>2. o \in Seq(Item)
      BY <1>4
    <3> HIDE DEF o, Item
    <3>3. DOMAIN o = 1 .. Len(o) /\ \A i \in 1 .. Len(o) : o[i] \in Item
      BY <3>2
    <3> QED BY <3>1, <3>3
  <2>2. Len(o) \in Nat /\ Len(o) = Cardinality(good)
    BY <1>4
  <2> HIDE DEF o
  <2>3. NumbersOf(o) = [i \in 1 .. Len(o) |-> o[i].n]
    BY <2>1 DEF NumbersOf
  <2>4. NumbersOf(o) \in Seq(Int) /\ Len(NumbersOf(o)) = Len(o)
    BY <2>1, <2>2, <2>3
  <2> QED BY <1>2, <2>2, <2>4 DEF o
<1> HIDE DEF all
<1>6. Len(all) = Len(items) /\ Len(all) <= PostingLimit /\ b.count = Len(all)
  BY DEF all, items
<1>7. good = 1 .. Len(items)
  <2>0. Len(items) \in Nat
    BY <1>1
  <2>1. \A m \in Nat : IsFiniteSet(1 .. m) /\ Cardinality(1 .. m) = m
    <3> TAKE m \in Nat
    <3> QED BY FS_Interval
  <2>2. good \in SUBSET (1 .. Len(items)) /\ Cardinality(1 .. Len(items)) = Cardinality(good)
    BY <1>3, <1>5, <1>6, <2>0, <2>1
  <2>3. IsFiniteSet(1 .. Len(items))
    BY <2>0, <2>1
  <2> QED BY <2>2, <2>3, FS_Subset
<1>8. \A i \in 1 .. Len(items) : items[i].is = "good"
  BY <1>7 DEF good, PlacesOf
<1>9. UpToGap(items) = items
  BY <1>1, <1>8 DEF UpToGap
<1>10. First(items, b.count) = items
  BY <1>1, <1>6 DEF First
<1>11. PostingLimit \in Nat
  BY SamplesAssumption
<1>12. First(all, PostingLimit) = all
  BY <1>5, <1>6, <1>11 DEF First
<1>13. items # <<>> => items[1].is # "broken"
  <2>1. items # <<>> => 1 \in 1 .. Len(items)
    BY <1>1
  <2> QED BY <1>8, <2>1
<1>14. GoodOf(items) = all
  BY DEF all
<1>15. r = "postings" => ReadBatch(r, b) = Some(all)
  BY <1>12, <1>14 DEF ReadBatch, PostingLines, items
<1>16. r = "metadata" => ReadBatch(r, b) = Some(all)
  BY <1>10, <1>14 DEF ReadBatch, MetadataRows, items
<1>17. r = "seeds" => ReadBatch(r, b) = Some(all)
  BY <1>9, <1>13, <1>14 DEF ReadBatch, HelloSeeds, items
<1>18. r = "resources" => ReadBatch(r, b) = Some(all)
  BY <1>9, <1>10, <1>14 DEF ReadBatch, Resources, items
<1>19. r = "seedList" => ReadBatch(r, b) = Some(all)
  BY <1>14 DEF ReadBatch, SeedLines, items
<1>20. ReadBatch(r, b) = Some(all)
  BY <1>15, <1>16, <1>17, <1>18, <1>19 DEF BatchReaders
<1> QED BY <1>14, <1>20 DEF items

BatchInv ==
    /\ reader \in BatchReaders
    /\ batch = [items |-> batch.items, count |-> batch.count]
    /\ batch.items \in Seq(Item) /\ batch.count \in Nat
\* A batch is of items, at every step.
LEMMA BatchTyped == WireInit /\ [][WireNext]_wireVars => []BatchInv
<1>1. ASSUME WireInit PROVE BatchInv
  <2>1. CASE reader = "postings" /\ batch = [items |-> <<>>, count |-> 0]
    <3>1. batch.items = <<>> /\ batch.count = 0
      BY <2>1
    <3> QED BY <2>1, <3>1 DEF BatchInv, BatchReaders
  <2>2. CASE reader \in BatchReaders /\ batch \in Batches
    <3>1. MaxItems \in Nat
      BY SamplesAssumption
    <3>2. Items \subseteq Item
      BY DEF Items, Good, Broken, Nothing, Item
    <3>3. \A s \in BoundedSeq(Items, MaxItems - 1) : s \in Seq(Item)
      <4>1. \A l \in 0 .. MaxItems - 1 : \A s \in [1 .. l -> Items] : s \in Seq(Item)
        <5> HIDE DEF Item
        <5> QED BY <3>1, <3>2
      <4> QED BY <4>1 DEF BoundedSeq, SeqOf
    <3>4. PICK s \in BoundedSeq(Items, MaxItems - 1), n \in 0 .. MaxItems :
             batch = [items |-> s, count |-> n]
      BY <2>2 DEF Batches
    <3>5. batch.items = s /\ batch.count = n
      BY <3>4
    <3>6. n \in Nat
      BY <3>1
    <3> QED BY <2>2, <3>3, <3>4, <3>5, <3>6 DEF BatchInv
  <2> QED BY <1>1, <2>1, <2>2 DEF WireInit
<1>2. ASSUME BatchInv, [WireNext]_wireVars PROVE BatchInv'
  <2>1. CASE UNCHANGED <<reader, batch>>
    BY <1>2, <2>1 DEF BatchInv
  <2>2. CASE SpoiltItem
    <3>1. PICK i \in 1 .. Len(batch.items) + 1, x \in Spoils[reader] :
             batch' = [items |-> InsertAt(batch.items, i, x),
                       count |-> IF batch.count >= i THEN batch.count + 1 ELSE batch.count]
      BY <2>2 DEF SpoiltItem
    <3>2. x \in Item
      BY <1>2 DEF BatchInv, BatchReaders, Spoils, Broken, Nothing, Item
    <3>3. batch.items \in Seq(Item) /\ batch.count \in Nat
      BY <1>2 DEF BatchInv
    <3>4. InsertAt(batch.items, i, x) \in Seq(Item)
      BY <3>2, <3>3, InsertedIs
    <3>5. batch'.items = InsertAt(batch.items, i, x) /\ batch'.count \in Nat
      BY <3>1, <3>3
    <3>6. batch' = [items |-> batch'.items, count |-> batch'.count]
      BY <3>1
    <3> QED BY <1>2, <2>2, <3>4, <3>5, <3>6 DEF BatchInv, SpoiltItem
  <2>3. CASE NextBatch
    <3>1. batch'.items = <<Good(1)>> /\ batch'.count = 1
          /\ batch' = [items |-> batch'.items, count |-> batch'.count] /\ reader' = reader
      BY <2>3 DEF NextBatch
    <3>2. Good(1) \in Item
      BY DEF Good, Item
    <3>3. <<Good(1)>> \in Seq(Item)
      BY <3>2
    <3> QED BY <1>2, <3>1, <3>3 DEF BatchInv
  <2> QED BY <1>2, <2>1, <2>2, <2>3 DEF WireNext, PassOn, Drop, wireVars
<1> QED BY <1>1, <1>2, PTL

\* What cannot be read costs nothing else.
THEOREM BatchesAreRead == WireInit /\ [][WireNext]_wireVars => BadItemsCostOnlyThemselves
<1>1. ASSUME BatchInv, [WireNext]_wireVars
      PROVE  [SpoiltItem => ReadBatch(reader, batch') = ReadBatch(reader, batch)]_wireVars
  <2> SUFFICES ASSUME SpoiltItem PROVE ReadBatch(reader, batch') = ReadBatch(reader, batch)
    OBVIOUS
  <2>1. PICK i \in 1 .. Len(batch.items) + 1, x \in Spoils[reader] :
           /\ reader = "seeds" => i > 1
           /\ batch' = [items |-> InsertAt(batch.items, i, x),
                        count |-> IF batch.count >= i THEN batch.count + 1 ELSE batch.count]
    BY DEF SpoiltItem
  <2>2. /\ reader \in BatchReaders /\ batch.items \in Seq(Item) /\ batch.count \in Nat
        /\ batch = [items |-> batch.items, count |-> batch.count]
    BY <1>1 DEF BatchInv
  <2> DEFINE items == batch.items
             n == batch.count
  <2>3. batch' = [items |-> InsertAt(items, i, x), count |-> IF n >= i THEN n + 1 ELSE n]
        /\ batch = [items |-> items, count |-> n]
    BY <2>1, <2>2
  <2>4. items \in Seq(Item) /\ n \in Nat /\ i \in 1 .. Len(items) + 1
    BY <2>2
  <2> HIDE DEF items, n
  <2>5. ReadBatch(reader, [items |-> InsertAt(items, i, x),
                           count |-> IF n >= i THEN n + 1 ELSE n])
           = ReadBatch(reader, [items |-> items, count |-> n])
    BY <2>1, <2>2, <2>4, SpoiltStays
  <2> QED BY <2>3, <2>5
<1> DEFINE Whole ==
             LET all == GoodOf(batch.items) IN
             Len(all) = Len(batch.items) /\ Len(all) <= PostingLimit /\ batch.count = Len(all)
                => ReadBatch(reader, batch) = Some(all)
<1>2. ASSUME BatchInv PROVE Whole
  <2>1. reader \in BatchReaders /\ batch.items \in Seq(Item)
    BY <1>2 DEF BatchInv
  <2> QED BY <2>1, ReadWhole
<1> HIDE DEF Whole
<1>3. BadItemsCostOnlyThemselves <=>
         /\ [][SpoiltItem => ReadBatch(reader, batch') = ReadBatch(reader, batch)]_wireVars
         /\ []Whole
  BY DEF BadItemsCostOnlyThemselves, Whole
<1> QED BY <1>1, <1>2, <1>3, BatchTyped, PTL
=============================================================================
