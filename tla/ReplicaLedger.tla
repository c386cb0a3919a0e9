--------------------------- MODULE ReplicaLedger ----------------------------
(* Which peers accepted a copy of each stored posting (postingreplicas).     *)
EXTENDS OfferSchedule, ReplicaWindow

VARIABLE holders   \* posting -> peers recorded as holding it, never none

LedgerTypeOK ==
  /\ DOMAIN holders \subseteq Posting
  /\ \A p \in DOMAIN holders : holders[p] \in (SUBSET Peers) \ {{}}

LedgerInit == holders = [p \in {} |-> {}]

HoldersOf(p) == IF p \in DOMAIN holders THEN holders[p] ELSE {}

(* Mutant: the stale holders go after the acceptances are recorded. *)
HoldersDroppingLast(p, stale, accepting) ==
  (HoldersOf(p) \cup (IF p \in Scheduled THEN accepting ELSE {})) \ stale

(* DropStaleHolders, then RecordAccepted: a posting not scheduled any more   *)
(* gets no new holder.                                                       *)
HoldersAfter(p, stale, accepting) ==
  (HoldersOf(p) \ stale) \cup (IF p \in Scheduled THEN accepting ELSE {})

(* The ledger with new holders for some postings and without those that go. *)
Record(after, gone) ==
  LET kept == (DOMAIN holders \ DOMAIN after) \cup {p \in DOMAIN after : after[p] # {}}
  IN  holders' = [p \in kept \ gone |-> IF p \in DOMAIN after THEN after[p] ELSE holders[p]]

(* PostingPurged *)
LedgerPurged(set) == holders' = [p \in DOMAIN holders \ set |-> holders[p]]

=============================================================================
