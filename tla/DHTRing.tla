------------------------------ MODULE DHTRing -------------------------------
(* Where postings and peers sit on the DHT ring, and how far apart they are. *)
(* A hash is its position: the ten symbols the code reads of it.  The ring   *)
(* is 63 bits wide in the code and RingSize positions long here.             *)
EXTENDS PostingIdentities

CONSTANTS RingSize,    \* positions on the ring
          Partitions   \* equal parts the ring is cut into, a power of two in the code

ASSUME RingAssumption ==
  /\ RingSize \in Nat \ {0} /\ Partitions \in 1 .. RingSize /\ RingSize % Partitions = 0
  /\ Words \subseteq 0 .. RingSize - 1 /\ URLs \subseteq 0 .. RingSize - 1

Position == 0 .. RingSize - 1

(* Mutant: the wrap around the end of the ring is one short. *)
DistanceMissingTheWrap(from, to) ==
  IF to >= from THEN to - from ELSE (RingSize - 1 - from) + to

(* Forward around the ring, which wraps at its last position. *)
DistanceTo(from, to) ==
  IF to >= from THEN to - from ELSE (RingSize - 1 - from) + to + 1

PartitionSize == RingSize \div Partitions

(* The low bits of a posting's position are its word's, the high ones its    *)
(* URL's, so that the postings of one word spread over the partitions.       *)
PositionOfPosting(p) ==
  (WordOf(p) % PartitionSize) + (URLOf(p) \div PartitionSize) * PartitionSize

CloserToPosition(peer, than, position) ==
  DistanceTo(position, peer) < DistanceTo(position, than)

(* SeedsClosestToDHTRingPosition: no peer when none is wanted. *)
ClosestTo(peers, position, want) ==
  {peer \in peers :
     Cardinality({other \in peers : CloserToPosition(other, peer, position)}) < want}

=============================================================================
