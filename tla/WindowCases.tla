---------------------------- MODULE WindowCases -----------------------------
(* Every case the replica window and the offers are computed for: a posting, *)
(* the peers the roster knows, and the peers recorded as holding it.  The    *)
(* operators of ReplicaWindow are checked against what they should mean.     *)
EXTENDS ReplicaWindow

VARIABLES posting,   \* the posting due an offer
          contact,   \* peer -> what the roster and the cooldown know of it
          recorded   \* the replica ledger's holders of the posting

vars == <<posting, contact, recorded>>

(* A peer can be reached and accept a remote index (and then be held back    *)
(* after a refusal), be reached and not accept one, have been reached        *)
(* recently, or be gone.                                                     *)
Contacts == {"eligible", "heldBack", "closed", "recent", "gone"}

Init ==
  /\ posting \in Posting
  /\ contact = [x \in Peers |-> "gone"]
  /\ recorded = {}

ContactChanges ==
  /\ \E x \in Peers, c \in Contacts : contact' = [contact EXCEPT ![x] = c]
  /\ UNCHANGED <<posting, recorded>>

RecordChanges ==
  /\ \E x \in Peers : recorded' = IF x \in recorded THEN recorded \ {x} ELSE recorded \cup {x}
  /\ UNCHANGED <<posting, contact>>

Next == ContactChanges \/ RecordChanges

Spec == Init /\ [][Next]_vars

position  == PositionOfPosting(posting)
PeersIn(contacts) == {x \in Peers : contact[x] \in contacts}
Reachable == PeersIn({"eligible", "heldBack", "closed"})
Recent    == PeersIn({"recent", "eligible", "heldBack", "closed"})
Accepting == PeersIn({"eligible", "heldBack"})
Eligible  == PeersIn({"eligible"})

Offer == OfferFor(position, recorded, Reachable, Recent, Accepting, Eligible)
Inside == HoldersInside(position, recorded, Reachable, Recent, Accepting)

(* The nodes that should hold the posting: the first ones met going forward  *)
(* around the ring from it, this node among them.                            *)
Steps(x) == (x - position) % RingSize

Responsible ==
  LET nodes == Accepting \cup {Self}
  IN  {x \in nodes : Cardinality({y \in nodes : Steps(y) < Steps(x)}) < Redundancy}

(* What this node is not responsible for can leave it: once reachable peers  *)
(* inside the window make up the redundancy, the hand-off is allowed.        *)
RedundancyAllowsHandOff ==
  /\ Self \notin Responsible
  /\ Cardinality(Inside \cap Reachable) >= Redundancy
  => MayHandOff(position, recorded, Reachable)

(* The window is the DHT's responsibility: the replicas required of peers    *)
(* and this node's own make up the redundancy, and the accepting peers       *)
(* inside are the responsible ones wherever peers owe a replica; and the     *)
(* hand-off follows it.                                                      *)
WindowIsResponsibility ==
  /\ RequiredReplicas(position, Accepting) + Cardinality(Responsible \cap {Self}) = Redundancy
  /\ RequiredReplicas(position, Accepting) > 0 =>
       {x \in Accepting : WindowContains(position, Accepting, x)} = Responsible \ {Self}
  /\ RedundancyAllowsHandOff

(* A round whose peers all accept leaves the posting at its redundancy: the  *)
(* ledger without the stale holders and with the new ones has a credible     *)
(* holder for every replica required, unless peers to ask have run out.      *)
RoundRestoresRedundancy ==
  LET after == (recorded \ Offer.stale) \cup Offer.peers
  IN  /\ Inside \subseteq after
      /\ after \cap ExpiredHolders(recorded, Reachable, Recent) \subseteq Offer.peers
      /\ \/ Cardinality(Inside \cup Offer.peers) >= RequiredReplicas(position, Accepting)
         \/ Eligible \subseteq after

=============================================================================
