--------------------------- MODULE ReplicaWindow ----------------------------
(* Which peers the DHT makes responsible for a posting, and the offer that   *)
(* follows from it (postingoffer): whom to offer the posting to, how many of *)
(* them must accept, and which recorded holders it no longer justifies.      *)
EXTENDS DHTRing, Integers

CONSTANTS Self,         \* this node's own position
          Peers,        \* positions of the peers of the network
          Redundancy    \* replicas a posting is to have

ASSUME WindowAssumption ==
  /\ IsFiniteSet(Peers) /\ Self \in Position /\ Peers \subseteq Position \ {Self}
  /\ Redundancy \in Nat \ {0}

CloserThanSelf(peers, position) == {x \in peers : CloserToPosition(x, Self, position)}

(* While fewer peers than the redundancy are closer than this node, it holds *)
(* one of the replicas itself.                                               *)
RequiredReplicas(position, accepting) ==
  IF Cardinality(CloserThanSelf(accepting, position)) < Redundancy
    THEN Redundancy - 1 ELSE Redundancy

WindowPeers(position, accepting) ==
  ClosestTo(accepting, position, RequiredReplicas(position, accepting))

(* A window short of peers contains everyone; otherwise it ends at its       *)
(* farthest peer.                                                            *)
WindowContains(position, accepting, peer) ==
  LET required == RequiredReplicas(position, accepting)
      closest  == WindowPeers(position, accepting)
  IN  \/ Cardinality(closest) < (IF required > 1 THEN required ELSE 1)
      \/ \E far \in closest : DistanceTo(position, peer) <= DistanceTo(position, far)

(* A recorded holder that cannot be reached is credited while its last       *)
(* contact is recent, and expires after that.                                *)
ExpiredHolders(recorded, reachable, recent) == recorded \ (reachable \cup recent)

HoldersInside(position, recorded, reachable, recent, accepting) ==
  {x \in recorded : IF x \in reachable THEN WindowContains(position, accepting, x)
                                       ELSE x \in recent}

HoldersOutside(position, recorded, reachable, accepting) ==
  {x \in recorded \cap reachable : ~WindowContains(position, accepting, x)}

(* Mutant: an expired or displaced holder still counts as a replica. *)
OfferCountingStale(position, recorded, reachable, recent, accepting, eligible) ==
  LET missing == RequiredReplicas(position, accepting) - Cardinality(recorded)
      expired == ExpiredHolders(recorded, reachable, recent)
  IN  IF missing <= 0
        THEN [peers |-> accepting \cap recorded, needed |-> 0, stale |-> expired]
        ELSE [peers |-> ClosestTo(eligible \ recorded, position, missing),
              needed |-> missing, stale |-> expired]

(* offerFor: a posting at redundancy is offered to its holders again, any    *)
(* other to as many further peers as it needs replicas.                      *)
OfferFor(position, recorded, reachable, recent, accepting, eligible) ==
  LET inside   == HoldersInside(position, recorded, reachable, recent, accepting)
      outside  == HoldersOutside(position, recorded, reachable, accepting)
      expired  == ExpiredHolders(recorded, reachable, recent)
      missing  == RequiredReplicas(position, accepting) - Cardinality(inside)
  IN  IF missing <= 0
        THEN [peers |-> accepting \cap inside, needed |-> 0, stale |-> expired \cup outside]
        ELSE [peers |-> ClosestTo(eligible \ (inside \cup outside), position, missing),
              needed |-> missing, stale |-> expired]

(* Mutant: holders farther than this node count too. *)
MayHandOffToAnyHolders(position, holders, reachable) ==
  Cardinality(holders \cap reachable) >= Redundancy

(* holdersCloserThanThisNode, and the hand-off it allows. *)
MayHandOff(position, holders, reachable) ==
  Cardinality(CloserThanSelf(holders \cap reachable, position)) >= Redundancy

=============================================================================
