----------------------------- MODULE PeerRoster -----------------------------
(* The peers this node knows, on disk, and which of them it considers        *)
(* reachable, in memory (peerroster).  The disk is written by one            *)
(* transaction at a time; the memory has a lock of its own, so a transaction *)
(* decides whom to evict by the reachable set it read when it ran.           *)
EXTENDS Integers, FiniteSets

CONSTANTS Peers,
          KnownCapacity,       \* peers kept on disk
          ReachableCapacity,   \* peers held reachable
          StaleAfter,          \* announce rounds a confirmation stays credible
          MaxAge               \* bound of the model: ages saturate here

ASSUME RosterAssumption ==
  /\ IsFiniteSet(Peers) /\ KnownCapacity \in Nat \ {0} /\ ReachableCapacity \in Nat \ {0}
  /\ StaleAfter \in Nat \ {0} /\ MaxAge \in Nat /\ MaxAge >= StaleAfter

VARIABLES roster,      \* known peer -> ages, in announce rounds, of its last contact and
                       \* of its last confirmation
          reachable,   \* the reachable set
          writer       \* who has the roster transaction, and the reachable set it read

rosterVars == <<roster, reachable, writer>>

Never == MaxAge + 1     \* the age of a confirmation there was none of

Entry == [contacted : 0 .. MaxAge, confirmed : 0 .. Never]

Known == DOMAIN roster

NoWriter == [held |-> FALSE, reachable |-> {}]

RosterTypeOK ==
  /\ Known \subseteq Peers /\ \A x \in Known : roster[x] \in Entry
  /\ reachable \subseteq Peers /\ Cardinality(reachable) <= ReachableCapacity
  /\ writer \in [held : BOOLEAN, reachable : {S \in SUBSET Peers :
                                                Cardinality(S) <= ReachableCapacity}]

RosterInit == roster = [x \in {} |-> 0] /\ reachable = {} /\ writer = NoWriter

MinOf(a, b) == IF a < b THEN a ELSE b
MaxOf(a, b) == IF a > b THEN a ELSE b

-----------------------------------------------------------------------------
(* Reads. *)

IsRecentlyReachable(x) == x \in Known /\ roster[x].confirmed < StaleAfter

(* The peer reachable most recently is probed first, then the one contacted  *)
(* least recently.                                                           *)
Precedes(x, y) ==
  \/ roster[x].confirmed < roster[y].confirmed
  \/ roster[x].confirmed = roster[y].confirmed /\ roster[x].contacted > roster[y].contacted

(* UnreachablePeerHashes: the first peers in that order, up to the limit;    *)
(* which of two that tie comes first is left open.                           *)
Unreachable(limit) ==
  LET candidates == Known \ reachable
  IN  {S \in SUBSET candidates :
         /\ Cardinality(S) = MinOf(limit, Cardinality(candidates))
         /\ \A x \in S, y \in candidates \ S : ~Precedes(y, x)}

-----------------------------------------------------------------------------
(* The memory. *)

(* admitReachable: no room, no place, unless the peer has one already. *)
Admit(x) ==
  reachable' = IF x \in reachable \/ Cardinality(reachable) < ReachableCapacity
                 THEN reachable \cup {x} ELSE reachable

(* evictReachable *)
Forget(x) == reachable' = reachable \ {x}

-----------------------------------------------------------------------------
(* The transactions. *)

(* The transaction has the disk to itself and reads the reachable set.       *)
BeginUpdate == ~writer.held /\ writer' = [held |-> TRUE, reachable |-> reachable]

Overflow(entries) == MaxOf(Cardinality(DOMAIN entries) - KnownCapacity, 0)

(* Mutant: the peers contacted most recently go. *)
FreshestBeyondCapacity(entries, kept) ==
  LET candidates == DOMAIN entries \ kept
  IN  {S \in SUBSET candidates :
         /\ Cardinality(S) = MinOf(Overflow(entries), Cardinality(candidates))
         /\ \A x \in S, y \in candidates \ S : entries[x].contacted <= entries[y].contacted}

(* Of the peers not in the reachable set read, those contacted least         *)
(* recently, as many as exceed the capacity.                                 *)
StalestBeyondCapacity(entries, kept) ==
  LET candidates == DOMAIN entries \ kept
  IN  {S \in SUBSET candidates :
         /\ Cardinality(S) = MinOf(Overflow(entries), Cardinality(candidates))
         /\ \A x \in S, y \in candidates \ S : entries[x].contacted >= entries[y].contacted}

(* evictOverflow, and the commit. *)
CommitWithin(entries) ==
  /\ \E victims \in StalestBeyondCapacity(entries, writer.reachable) :
       roster' = [x \in DOMAIN entries \ victims |-> entries[x]]
  /\ writer' = NoWriter

(* recordReachable *)
CommitReachable(x) ==
  CommitWithin([y \in Known \cup {x} |->
                  IF y = x THEN [contacted |-> 0, confirmed |-> 0] ELSE roster[y]])

(* discoverEach: a peer already known keeps its ages. *)
CommitDiscovered(seeds) ==
  CommitWithin([y \in Known \cup seeds |->
                  IF y \in Known THEN roster[y] ELSE [contacted |-> 0, confirmed |-> Never]])

(* Mutant: a failed contact leaves the confirmation standing. *)
RecordContactOnly(x) ==
  /\ ~writer.held
  /\ roster' = [y \in Known |-> IF y = x THEN [roster[y] EXCEPT !.contacted = 0] ELSE roster[y]]

(* recordUnreachable, which reads nothing of the memory: one step. *)
RecordUnreachable(x) ==
  /\ ~writer.held
  /\ roster' = [y \in Known |-> IF y = x THEN [contacted |-> 0, confirmed |-> Never]
                                         ELSE roster[y]]

Older(age) == IF age = Never THEN Never ELSE MinOf(age + 1, MaxAge)

RosterAges ==
  roster' = [x \in Known |-> [contacted |-> MinOf(roster[x].contacted + 1, MaxAge),
                              confirmed |-> Older(roster[x].confirmed)]]

=============================================================================
