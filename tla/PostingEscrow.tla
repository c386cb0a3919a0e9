--------------------------- MODULE PostingEscrow ----------------------------
(* Postings whose URL metadata the node does not have yet (rwiescrow).  They *)
(* wait outside the index, in one bucket keyed by posting and in one ordered *)
(* by the time the hold was placed.                                          *)
EXTENDS PostingIdentities

CONSTANTS EscrowCapacity,  \* postings the escrow holds at most
          HoldFor,         \* a hold older than this has expired
          ExpiryBatch,     \* holds one expiry transaction drops at most
          MaxNow           \* bound of the model: the clock stops here

ASSUME EscrowAssumption ==
  EscrowCapacity \in Nat /\ HoldFor \in Nat /\ ExpiryBatch \in Nat \ {0} /\ MaxNow \in Nat

VARIABLES escrowed,   \* posting -> the time its hold was placed
          holds,      \* <<time the hold was placed, posting>>
          now         \* the wall clock, in units that separate two holds

Time == 0 .. MaxNow

EscrowTypeOK ==
  /\ DOMAIN escrowed \subseteq Posting
  /\ \A p \in DOMAIN escrowed : escrowed[p] \in Time
  /\ holds \subseteq Time \X Posting
  /\ now \in Time

EscrowInit == escrowed = [p \in {} |-> 0] /\ holds = {} /\ now = 0

Held == DOMAIN escrowed

HoldOf(p) == <<escrowed[p], p>>

(* Held already, a posting takes no new place, only a new hold.  A posting   *)
(* that finds the escrow full fails the whole transaction.                   *)
EscrowHasRoomFor(set) ==
  set \subseteq Held \/ Cardinality(Held \cup set) <= EscrowCapacity

Hold(set) ==
  /\ escrowed' = [p \in Held \cup set |-> IF p \in set THEN now ELSE escrowed[p]]
  /\ holds' = (holds \ {HoldOf(p) : p \in Held \cap set}) \cup {<<now, p>> : p \in set}

WaitingFor(urls) == {p \in Held : URLOf(p) \in urls}

(* Mutant: the hold outlives its posting. *)
DropPostingsOnly(dropped) ==
  /\ escrowed' = [p \in Held \ {h[2] : h \in dropped} |-> escrowed[p]]
  /\ UNCHANGED holds

(* drop, for every hold of a set: both buckets lose it. *)
Drop(dropped) ==
  /\ escrowed' = [p \in Held \ {h[2] : h \in dropped} |-> escrowed[p]]
  /\ holds' = holds \ dropped

(* What URLStored does to the escrow; the caller admits the postings. *)
Release(set) == Drop({HoldOf(p) : p \in set})

Expired == {h \in holds : h[1] + HoldFor < now}

(* One expiry transaction: the oldest expired holds, a batch at most.        *)
OldestExpired(batch) ==
  /\ batch \subseteq Expired
  /\ Cardinality(batch) <= ExpiryBatch
  /\ batch # Expired => Cardinality(batch) = ExpiryBatch
  /\ \A h \in batch, k \in Expired \ batch : h[1] <= k[1]

ExpireBatch(batch) == OldestExpired(batch) /\ Drop(batch)

=============================================================================
