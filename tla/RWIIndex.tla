------------------------------ MODULE RWIIndex ------------------------------
(* What the node's storage core promises, without its buckets, its loops and *)
(* its transactions: which URLs it knows, which postings its index carries   *)
(* and which wait for their URL.  NodeStore implements it.                   *)
EXTENDS PostingIdentities

CONSTANT Capacity   \* postings that may wait

VARIABLES known, index, held

indexStateVars == <<known, index, held>>

PostingsOf(urls) == {p \in Posting : URLOf(p) \in urls}

Init == known = {} /\ index = {} /\ held = {}

(* Postings arrive all together or not at all. *)
Arrive(entries) ==
  LET awaiting == entries \ PostingsOf(known)
  IN  /\ awaiting \subseteq held \/ Cardinality(held \cup awaiting) <= Capacity
      /\ index' = index \cup (entries \ awaiting)
      /\ held' = held \cup awaiting
      /\ UNCHANGED known

(* With its metadata, everything that waited for a URL joins the index. *)
Learn(urls) ==
  /\ known' = known \cup urls
  /\ index' = index \cup (held \cap PostingsOf(urls))
  /\ held' = held \ PostingsOf(urls)

(* A URL is forgotten with every posting of it. *)
Forget(urls) ==
  /\ known' = known \ urls
  /\ index' = index \ PostingsOf(urls)
  /\ UNCHANGED held

Lapse(entries) == held' = held \ entries /\ UNCHANGED <<known, index>>

(* Postings other peers hold need not stay. *)
Shed(entries) == index' = index \ entries /\ UNCHANGED <<known, held>>

Next ==
  \/ \E entries \in SUBSET Posting : Arrive(entries) \/ Lapse(entries) \/ Shed(entries)
  \/ \E urls \in SUBSET URLs : Learn(urls) \/ Forget(urls)

Spec == Init /\ [][Next]_indexStateVars

=============================================================================
