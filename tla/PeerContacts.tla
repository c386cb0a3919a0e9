---------------------------- MODULE PeerContacts ----------------------------
(* Who changes the roster: the announcement loop, which greets the reachable *)
(* peers and probes as many others as the reachable set has room for, several*)
(* contacts at a time (peerannouncement), and the hello handlers, which      *)
(* confirm a caller that answered a ping (peeradmission).                    *)
EXTENDS PeerRoster, Sequences

CONSTANTS Contacts,      \* contacts the loop makes at a time
          Handlers,      \* bound of the model: hellos served at a time
          Callers,       \* bound of the model: peers that say hello
          SeedsTold,     \* bound of the model: sets of peers a greet response may name
          MaxFailures    \* bound of the model: failed transactions and restarts

ASSUME ContactsAssumption ==
  /\ Contacts # {} /\ Contacts \cap Handlers = {} /\ Callers \subseteq Peers
  /\ SeedsTold \subseteq SUBSET Peers /\ SeedsTold # {} /\ MaxFailures \in Nat

VARIABLES stage,       \* of the loop
          due,         \* the ticker has fired
          targets,     \* peers the round still has to contact
          work,        \* contact or handler -> what it still has to do
          outcome,     \* history: peer -> what its latest contact said
          contested,   \* history: peers the contrary was being recorded of at that time
          failures

contactVars == <<stage, due, targets>>
historyVars == <<outcome, contested>>
vars == <<rosterVars, contactVars, work, historyVars, failures>>

Workers == Contacts \cup Handlers

Step == [do : {"greet", "forget", "deny", "confirm", "admit"}, peer : Peers]
          \cup [do : {"read"}] \cup [do : {"discover"}, seeds : SUBSET Peers]

(* The calls of the roster, step by step. *)
ConfirmUnreachable(x) == <<[do |-> "forget", peer |-> x], [do |-> "deny", peer |-> x]>>
ConfirmReachable(x) ==
  <<[do |-> "read"], [do |-> "confirm", peer |-> x], [do |-> "admit", peer |-> x]>>
Discover(seeds) == <<[do |-> "read"], [do |-> "discover", seeds |-> seeds]>>

Stages == {"boot", "idle", "probing", "contacting"}

(* Every worker is at a step of one of its calls, the reachable set within   *)
(* its capacity, and one transaction open at most.                           *)
TypeOK ==
  /\ RosterTypeOK
  /\ stage \in Stages /\ due \in BOOLEAN /\ targets \subseteq Peers
  /\ \A w \in Workers : \A i \in DOMAIN work[w] : work[w][i] \in Step
  /\ outcome \in [Peers -> {"none", "confirmed", "denied"}] /\ contested \subseteq Peers
  /\ failures \in 0 .. MaxFailures

Init ==
  /\ RosterInit
  /\ stage = "boot" /\ due = TRUE /\ targets = {}
  /\ work = [w \in Workers |-> <<>>]
  /\ outcome = [x \in Peers |-> "none"] /\ contested = {}
  /\ failures = 0

(* Some worker still has one of these steps about the peer to do. *)
Pending(x, steps) ==
  \E w \in Workers : \E i \in DOMAIN work[w] : work[w][i].do \in steps /\ work[w][i].peer = x

Confirming(x) == Pending(x, {"confirm", "admit"})
Denying(x)    == Pending(x, {"forget", "deny"})

(* History: what a contact says of the peers it denies and confirms. *)
Says(denied, confirmed) ==
  /\ outcome' = [x \in Peers |-> IF x \in confirmed THEN "confirmed"
                                 ELSE IF x \in denied THEN "denied" ELSE outcome[x]]
  /\ contested' = (contested \ (denied \cup confirmed))
                    \cup {x \in denied : Confirming(x)} \cup {x \in confirmed : Denying(x)}

(* History: a call that was lost says nothing of its peer any more. *)
Unsaid(peers) ==
  /\ outcome' = [x \in Peers |-> IF x \in peers THEN "none" ELSE outcome[x]]
  /\ contested' = contested \ peers

Fail == failures < MaxFailures /\ failures' = failures + 1

-----------------------------------------------------------------------------
(* The announcement loop. *)

Idle(w) == work[w] = <<>>

(* The seed lists are read once, before the first round. *)
Bootstrap(c) ==
  /\ stage = "boot"
  /\ \E seeds \in SeedsTold : work' = [work EXCEPT ![c] = Discover(seeds)]
  /\ stage' = "idle"
  /\ UNCHANGED <<rosterVars, due, targets, historyVars, failures>>

BeginRound ==
  /\ stage = "idle" /\ due /\ \A c \in Contacts : Idle(c)
  /\ targets' = reachable /\ stage' = "probing" /\ due' = FALSE
  /\ UNCHANGED <<rosterVars, work, historyVars, failures>>

(* Mutant: a set one short of its capacity counts as full. *)
ChooseProbesOneShort ==
  /\ stage = "probing"
  /\ \E probes \in Unreachable(MaxOf(ReachableCapacity - Cardinality(targets) - 1, 0)) :
       targets' = targets \cup probes
  /\ stage' = "contacting"
  /\ UNCHANGED <<rosterVars, due, work, historyVars, failures>>

(* The deficit is that of the reachable peers read before. *)
ChooseProbes ==
  /\ stage = "probing"
  /\ \E probes \in Unreachable(MaxOf(ReachableCapacity - Cardinality(targets), 0)) :
       targets' = targets \cup probes
  /\ stage' = "contacting"
  /\ UNCHANGED <<rosterVars, due, work, historyVars, failures>>

(* A peer whose address is gone from the roster is passed over. *)
StartContact(c) ==
  /\ stage = "contacting" /\ Idle(c)
  /\ \E x \in targets :
       /\ targets' = targets \ {x}
       /\ work' = IF x \in Known THEN [work EXCEPT ![c] = <<[do |-> "greet", peer |-> x]>>]
                                 ELSE work
  /\ UNCHANGED <<rosterVars, stage, due, historyVars, failures>>

EndRound ==
  /\ stage = "contacting" /\ targets = {} /\ \A c \in Contacts : Idle(c)
  /\ stage' = "idle"
  /\ UNCHANGED <<rosterVars, due, targets, work, historyVars, failures>>

(* Once between two rounds: rounds are an interval apart. *)
Tick ==
  /\ ~due /\ due' = TRUE
  /\ RosterAges
  /\ UNCHANGED <<reachable, writer, stage, targets, work, historyVars, failures>>

-----------------------------------------------------------------------------
(* A contact. *)

Doing(w, what) == ~Idle(w) /\ Head(work[w]).do = what
Done(w)        == work' = [work EXCEPT ![w] = Tail(@)]

GreetFails(c) ==
  /\ Doing(c, "greet")
  /\ LET x == Head(work[c]).peer
     IN  work' = [work EXCEPT ![c] = ConfirmUnreachable(x)] /\ Says({x}, {})
  /\ UNCHANGED <<rosterVars, contactVars, failures>>

(* The peer answers, or another one does at its address: the one expected is *)
(* given up, the one that answered confirmed.                                *)
GreetAnswered(c) ==
  /\ Doing(c, "greet")
  /\ \E y \in Peers, seeds \in SeedsTold :
       LET x     == Head(work[c]).peer
           wrong == IF y = x THEN <<>> ELSE ConfirmUnreachable(x)
       IN  /\ work' = [work EXCEPT ![c] = wrong \o ConfirmReachable(y) \o Discover(seeds)]
           /\ Says({x} \ {y}, {y})
  /\ UNCHANGED <<rosterVars, contactVars, failures>>

(* Another peer answers that does not confirm the network, or this node      *)
(* itself, which the roster takes no confirmation of.                        *)
GreetMisdirected(c) ==
  /\ Doing(c, "greet")
  /\ LET x == Head(work[c]).peer
     IN  /\ \E rest \in {ConfirmUnreachable(x)} \cup {Discover(seeds) : seeds \in SeedsTold} :
              work' = [work EXCEPT ![c] = ConfirmUnreachable(x) \o rest]
         /\ Says({x}, {})
  /\ UNCHANGED <<rosterVars, contactVars, failures>>

(* A caller answered the ping of its hello. *)
Hello(h) ==
  /\ Idle(h)
  /\ \E x \in Callers : work' = [work EXCEPT ![h] = ConfirmReachable(x)] /\ Says({}, {x})
  /\ UNCHANGED <<rosterVars, contactVars, failures>>

-----------------------------------------------------------------------------
(* The steps of the calls. *)

ForgetReachable(w) ==
  /\ Doing(w, "forget") /\ Forget(Head(work[w]).peer) /\ Done(w)
  /\ UNCHANGED <<roster, writer, contactVars, historyVars, failures>>

DenyOnDisk(w) ==
  /\ Doing(w, "deny") /\ RecordUnreachable(Head(work[w]).peer) /\ Done(w)
  /\ UNCHANGED <<reachable, writer, contactVars, historyVars, failures>>

OpenUpdate(w) ==
  /\ Doing(w, "read") /\ BeginUpdate /\ Done(w)
  /\ UNCHANGED <<roster, reachable, contactVars, historyVars, failures>>

(* The commit; of a peer evicted by it nothing is said any more. *)
Commit(w) ==
  /\ \/ Doing(w, "confirm") /\ CommitReachable(Head(work[w]).peer)
     \/ Doing(w, "discover") /\ CommitDiscovered(Head(work[w]).seeds)
  /\ Done(w)
  /\ Unsaid(Peers \ DOMAIN roster')
  /\ UNCHANGED <<reachable, contactVars, failures>>

AdmitReachable(w) ==
  /\ Doing(w, "admit") /\ Admit(Head(work[w]).peer) /\ Done(w)
  /\ UNCHANGED <<roster, writer, contactVars, historyVars, failures>>

(* The transaction fails: a confirmation is dropped with it, the rest of the *)
(* contact goes on.                                                          *)
UpdateFails(w) ==
  /\ Fail
  /\ \/ /\ Doing(w, "confirm") /\ writer' = NoWriter
        /\ work' = [work EXCEPT ![w] = Tail(Tail(@))]
        /\ Unsaid({Head(work[w]).peer})
     \/ /\ Doing(w, "discover") /\ writer' = NoWriter
        /\ Done(w) /\ UNCHANGED historyVars
     \/ /\ Doing(w, "deny") /\ Done(w)
        /\ Unsaid({Head(work[w]).peer}) /\ UNCHANGED writer
  /\ UNCHANGED <<roster, reachable, contactVars>>

(* The reachable set and the contacts live in memory. *)
Restart ==
  /\ Fail
  /\ reachable' = {} /\ writer' = NoWriter
  /\ stage' = "boot" /\ due' = TRUE /\ targets' = {}
  /\ work' = [w \in Workers |-> <<>>]
  /\ Unsaid({x \in Peers : Confirming(x) \/ Denying(x)})
  /\ UNCHANGED roster

Greet(c) == GreetFails(c) \/ GreetAnswered(c) \/ GreetMisdirected(c)

CallStep(w) ==
  ForgetReachable(w) \/ DenyOnDisk(w) \/ OpenUpdate(w) \/ Commit(w) \/ AdmitReachable(w)

Round == (\E c \in Contacts : Bootstrap(c)) \/ BeginRound \/ ChooseProbes \/ EndRound

Next ==
  \/ Round \/ Tick \/ Restart
  \/ \E c \in Contacts : StartContact(c) \/ Greet(c)
  \/ \E h \in Handlers : Hello(h)
  \/ \E w \in Workers : CallStep(w) \/ UpdateFails(w)

Spec == Init /\ [][Next]_vars

(* The ticker never stops, requests are answered or time out, and whoever    *)
(* waits for the transaction lock gets it in turn.                           *)
Fairness ==
  /\ WF_vars(Round) /\ WF_vars(Tick)
  /\ \A c \in Contacts : WF_vars(StartContact(c) \/ Greet(c))
  /\ \A w \in Workers : SF_vars(CallStep(w))

FairSpec == Spec /\ Fairness

-----------------------------------------------------------------------------
(* Properties. *)

Quiet(x) == ~Confirming(x) /\ ~Denying(x)

(* "A failed contact ends its credibility at once": once it is recorded, the *)
(* peer is neither reachable nor credible, as long as no confirmation of it  *)
(* was under way when it failed and none was heard since.                    *)
UncontestedDenialStands ==
  \A x \in Peers : (outcome[x] = "denied" /\ x \notin contested /\ Quiet(x)) =>
    x \notin reachable /\ ~IsRecentlyReachable(x)

(* "The known roster is bounded": the disk never holds more peers than the   *)
(* larger of the capacities, and for that only a peer outside the reachable  *)
(* set a transaction read is evicted, which no staler such peer outlives.    *)
StalestUnreachableGo ==
  /\ []( Cardinality(Known) <= MaxOf(KnownCapacity, ReachableCapacity) )
  /\ [][\A x \in Known \ DOMAIN roster' :
         /\ x \notin writer.reachable
         /\ \A y \in DOMAIN roster' \ writer.reachable :
              roster'[y].contacted <= roster[x].contacted]_vars

(* "Probing rotates through the known roster": a known peer that is not      *)
(* reachable is greeted, or goes, or becomes reachable, or the reachable set *)
(* fills up.                                                                 *)
EveryPeerIsProbed ==
  \A x \in Peers :
    (x \in Known \ reachable)
      ~> (\/ \E c \in Contacts : Doing(c, "greet") /\ Head(work[c]).peer = x
          \/ x \notin Known \/ x \in reachable
          \/ Cardinality(reachable) = ReachableCapacity)

(* The code keeps neither of the two below (README, what the code does not   *)
(* keep).                                                                    *)

(* "The set of network peers this node knows, and which of them it currently *)
(* considers reachable": every reachable peer is a known one.                *)
ReachableAreKnown == \A x \in reachable : Quiet(x) => x \in Known

(* "A failed contact ends its credibility at once", whatever else was being  *)
(* recorded of the peer.                                                     *)
FailedContactEndsCredibility ==
  \A x \in Peers : outcome[x] = "denied" /\ Quiet(x) => x \notin reachable

=============================================================================
