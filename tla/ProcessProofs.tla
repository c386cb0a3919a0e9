---------------------------- MODULE ProcessProofs ----------------------------
(***************************************************************************)
(* Proofs about the processes.  Of EnvironmentLease, for any addresses and *)
(* any number of disturbances: its type invariant, that a standing lease   *)
(* names the agent's tunnel, that the node hears the agent end, and that   *)
(* the agent, the socket and the entrypoint together implement             *)
(* HostnameLease.  Of ServiceLife, for any environments, data directories  *)
(* and peer hashes, and any number of starts: the node serves its data     *)
(* under one peer hash, and nothing outlives what it uses.                 *)
(***************************************************************************)
EXTENDS EnvironmentLease, ServiceLife, FiniteSetTheorems, SequenceTheorems, TLAPS

-------------------------------------------------------------------------------
(* The lease of a hostname. *)


\* A live end is the other end of the entrypoint's connection, and only one of
\* queue, accepted and served has it.
OneLiveEnd ==
    /\ served = "live" => /\ link = "open" /\ accepted # "live"
                          /\ Leased = assigned /\ assigned # None
    /\ accepted = "live" => link = "open" /\ node = "acquiring" /\ frame = None
    /\ \A i \in DOMAIN queue : queue[i] = "live" =>
          /\ link = "open" /\ node = "acquiring" /\ frame = None
          /\ served # "live" /\ accepted # "live"
          /\ \A j \in DOMAIN queue : queue[j] = "live" => i = j
    /\ link = "open" /\ Leased # None => served = "live"

\* What each stage of the agent leaves open.
AgentStages ==
    /\ agent = "down" => ~listening /\ queue = <<>> /\ accepted = "none"
    /\ agent \in {"down", "opening"} => served = "none" /\ grant = None
    /\ agent = "down" => assigned = None /\ faults = {}
    /\ grant # None => grant = assigned /\ served = "none"
    /\ served # "none" => ~listening /\ accepted = "none"

\* What each stage of the entrypoint holds.
NodeStages ==
    /\ node = "down" => link = "none"
    /\ node \in {"down", "acquiring"} =>
          child = "none" /\ env = None /\ revocation = "none"
    /\ node \in {"supervising", "terminating"} =>
          child # "none" /\ env # None /\ frame = None /\ link # "none"
    /\ link = "none" => frame = None
    /\ revocation # "none" => link = "shut"
    /\ node = "terminating" => revocation = "taken"
    /\ revocation = "taken" /\ child # "done" => node = "terminating"

\* The inductive invariant.
LeaseInv == TypeOK /\ OneLiveEnd /\ AgentStages /\ NodeStages

\* An empty queue has no live end, whatever the invariant says of one.
LEMMA EmptyQueue ==
  <<>> \in Seq({"live", "gone"}) /\ \A i \in DOMAIN <<>> : FALSE
OBVIOUS

\* The budget of disturbances is never overdrawn.
LEMMA DisruptionsBounded ==
  ASSUME disruptions \in 0..MaxDisruptions, Disrupts \/ Undisturbed
  PROVE  disruptions' \in 0..MaxDisruptions
BY DisruptionsAssumption DEF Disrupts, Undisturbed

\* The initial states satisfy the invariant.
LEMMA InitInv ==
  Init => LeaseInv
<1> SUFFICES ASSUME Init PROVE LeaseInv
  OBVIOUS
<1> USE EmptyQueue, AddressesAssumption, DisruptionsAssumption
<1>1. TypeOK
  <2>1. disruptions \in 0..MaxDisruptions
    BY DEF Init
  <2>2. <<listening, requested, signalled>> \in BOOLEAN \X BOOLEAN \X BOOLEAN
    BY DEF Init
  <2>3. <<faults, queue>> \in (SUBSET Units) \X Seq({"live", "gone"})
    BY DEF Init
  <2> QED  BY <2>1, <2>2, <2>3 DEF Init, TypeOK, Ends
<1>2. OneLiveEnd
  BY DEF Init, OneLiveEnd, Leased
<1>3. AgentStages
  BY DEF Init, AgentStages
<1>4. NodeStages
  BY DEF Init, NodeStages
<1> QED  BY <1>1, <1>2, <1>3, <1>4 DEF LeaseInv

\* Returning from RunAgent keeps the invariant: an accepted connection stays.
LEMMA UnitsCloseKeepsInv ==
  ASSUME LeaseInv, UnitsClose, agent \in {"opening", "holding"}, Disrupts \/ Undisturbed
  PROVE  LeaseInv'
<1> USE EmptyQueue, AddressesAssumption
<1>1. TypeOK'
  <2>1. disruptions' \in 0..MaxDisruptions
    BY DisruptionsBounded DEF LeaseInv, TypeOK
  <2>2. /\ queue' = <<>> /\ queue' \in Seq({"live", "gone"})
        /\ link' \in {"none", "open", "shut"} /\ listening' = FALSE
    BY DEF LeaseInv, TypeOK, UnitsClose, stopListening
  <2>3. /\ agent' = "failed" /\ public' = None
        /\ UNCHANGED <<faults, assigned, grant, accepted, served, frame>>
        /\ UNCHANGED <<node, child, env, revocation, requested, signalled>>
    BY DEF UnitsClose, nodeVars
  <2>4. TypeOK
    BY DEF LeaseInv
  <2> QED  BY ONLY <2>1, <2>2, <2>3, <2>4 DEF TypeOK
<1> USE DEF LeaseInv, TypeOK, Ends, Units, UnitsClose, stopListening, nodeVars, agentVars
<1>2. OneLiveEnd'
  BY DEF OneLiveEnd, Leased, AgentStages, NodeStages, ToSet
<1>3. AgentStages'
  BY DEF AgentStages
<1>4. NodeStages'
  <2>1. link' = link \/ (link = "open" /\ link' = "shut")
    BY DEF OneLiveEnd, ToSet
  <2> HIDE DEF stopListening
  <2> QED  BY <2>1 DEF NodeStages
<1> QED  BY <1>1, <1>2, <1>3, <1>4

\* The exit of the agent keeps it: no live end is left, and the link is shut.
LEMMA AgentExitsKeepsInv ==
  ASSUME LeaseInv, AgentExits, Disrupts \/ Undisturbed
  PROVE  LeaseInv'
<1> USE EmptyQueue, AddressesAssumption
<1>1. TypeOK'
  <2>1. disruptions' \in 0..MaxDisruptions
    BY DisruptionsBounded DEF LeaseInv, TypeOK
  <2>2. queue' \in Seq({"live", "gone"}) /\ link' \in {"none", "open", "shut"}
    BY DEF LeaseInv, TypeOK, AgentExits
  <2> QED  BY <2>1, <2>2 DEF LeaseInv, TypeOK, Ends, Units, AgentExits, nodeVars, agentVars
<1> USE DEF LeaseInv, TypeOK, Ends, Units, AgentExits, nodeVars, agentVars
<1>2. OneLiveEnd'
  BY DEF OneLiveEnd, Leased, AgentStages, NodeStages, ToSet
<1>3. AgentStages'
  BY DEF AgentStages
<1>4. NodeStages'
  BY DEF OneLiveEnd, NodeStages, Leased
<1> QED  BY <1>1, <1>2, <1>3, <1>4

\* The exit of the entrypoint keeps it: the live end, wherever it is, is gone.
LEMMA NodeExitsKeepsInv ==
  ASSUME LeaseInv, NodeExits, Disrupts \/ Undisturbed
  PROVE  LeaseInv'
<1> USE EmptyQueue, AddressesAssumption
<1>1. TypeOK'
  <2>1. disruptions' \in 0..MaxDisruptions
    BY DisruptionsBounded DEF LeaseInv, TypeOK
  <2>2. queue' \in Seq({"live", "gone"}) /\ link' \in {"none", "open", "shut"}
    BY DEF LeaseInv, TypeOK, NodeExits, Disconnect, Left
  <2> QED  BY <2>1, <2>2 DEF LeaseInv, TypeOK, Ends, Units, NodeExits, Disconnect, Left, nodeVars, agentVars
<1> USE DEF LeaseInv, TypeOK, Ends, Units, NodeExits, Disconnect, Left, nodeVars, agentVars
<1>2. OneLiveEnd'
  BY DEF OneLiveEnd, Leased, AgentStages, NodeStages, ToSet
<1>3. AgentStages'
  BY DEF AgentStages
<1>4. NodeStages'
  BY DEF OneLiveEnd, NodeStages, Leased
<1> QED  BY <1>1, <1>2, <1>3, <1>4

\* Every step of the agent keeps it: what the agent closes, it closes for good.
LEMMA AgentKeepsInv ==
  LeaseInv /\ AgentNext => LeaseInv'
<1> SUFFICES ASSUME LeaseInv, AgentNext PROVE LeaseInv'
  OBVIOUS
<1> USE EmptyQueue, AddressesAssumption, DisruptionsAssumption
<1>1. CASE AgentStarts
  BY <1>1 DEF LeaseInv, TypeOK, OneLiveEnd, Leased, AgentStages, NodeStages, Ends, Units, AgentStarts, agentVars, socketVars, linkVars, nodeVars, Undisturbed, Disrupts
<1>2. CASE TunnelOpened
  BY <1>2 DEF LeaseInv, TypeOK, OneLiveEnd, Leased, AgentStages, NodeStages, Ends, Units, TunnelOpened, agentVars, socketVars, linkVars, nodeVars, Undisturbed, Disrupts
<1>3. CASE TunnelEnds
  BY <1>3 DEF LeaseInv, TypeOK, OneLiveEnd, Leased, AgentStages, NodeStages, Ends, Units, TunnelEnds, Reading, agentVars, socketVars, linkVars, nodeVars, Undisturbed, Disrupts
<1>4. CASE IngressFails
  BY <1>4 DEF LeaseInv, TypeOK, OneLiveEnd, Leased, AgentStages, NodeStages, Ends, Units, IngressFails, agentVars, socketVars, linkVars, nodeVars, Undisturbed, Disrupts
<1>5. ASSUME NEW address \in Addresses, HostnameAssigned(address) PROVE LeaseInv'
  BY <1>5 DEF LeaseInv, TypeOK, OneLiveEnd, Leased, AgentStages, NodeStages, Ends, Units, HostnameAssigned, Reading, isPublicHostname, agentVars, socketVars, linkVars, nodeVars, Undisturbed, Disrupts
<1>6. ASSUME NEW address \in Addresses, EventRejected(address) PROVE LeaseInv'
  BY <1>6 DEF LeaseInv, TypeOK, OneLiveEnd, Leased, AgentStages, NodeStages, Ends, Units, EventRejected, Reading, agentVars, socketVars, linkVars, nodeVars, Undisturbed, Disrupts
<1>7. CASE OpenFails
  BY <1>7, UnitsCloseKeepsInv DEF OpenFails
<1>8. CASE OpenTimesOut
  BY <1>8, UnitsCloseKeepsInv DEF OpenTimesOut
<1>9. CASE UnitFails
  BY <1>9, UnitsCloseKeepsInv DEF UnitFails
<1>10. CASE HoldTheExit
  BY <1>10, AgentExitsKeepsInv DEF HoldTheExit
<1>11. CASE AgentStops
  BY <1>11, AgentExitsKeepsInv DEF AgentStops
<1> QED  BY <1>1, <1>2, <1>3, <1>4, <1>5, <1>6, <1>7, <1>8, <1>9, <1>10, <1>11 DEF AgentNext

\* Every step of the lease socket keeps it: the live end moves on, or is shut.
LEMMA SocketKeepsInv ==
  LeaseInv /\ SocketNext => LeaseInv'
<1> SUFFICES ASSUME LeaseInv, SocketNext PROVE LeaseInv'
  OBVIOUS
<1> USE EmptyQueue, AddressesAssumption, DisruptionsAssumption
<1>1. CASE Accept
  BY <1>1 DEF LeaseInv, TypeOK, OneLiveEnd, Leased, AgentStages, NodeStages, Ends, Units, Accept, agentVars, socketVars, linkVars, nodeVars, Undisturbed, Disrupts
<1>2. CASE CloseEarlyConsumer
  BY <1>2 DEF LeaseInv, TypeOK, OneLiveEnd, Leased, AgentStages, NodeStages, Ends, Units, CloseEarlyConsumer, agentVars, socketVars, linkVars, nodeVars, Undisturbed, Disrupts
<1>3. CASE Serve
  BY <1>3 DEF LeaseInv, TypeOK, OneLiveEnd, Leased, AgentStages, NodeStages, Ends, Units, Serve, stopListening, ToSet, agentVars, socketVars, linkVars, nodeVars, Undisturbed, Disrupts
<1>4. CASE ServeGone
  BY <1>4 DEF LeaseInv, TypeOK, OneLiveEnd, Leased, AgentStages, NodeStages, Ends, Units, ServeGone, stopListening, ToSet, agentVars, socketVars, linkVars, nodeVars, Undisturbed, Disrupts
<1>5. CASE ConsumerEnds
  BY <1>5 DEF LeaseInv, TypeOK, OneLiveEnd, Leased, AgentStages, NodeStages, Ends, Units, ConsumerEnds, agentVars, socketVars, linkVars, nodeVars, Undisturbed, Disrupts
<1> QED  BY <1>1, <1>2, <1>3, <1>4, <1>5 DEF SocketNext

\* Every step of the entrypoint keeps it: its end opens only while it has none.
LEMMA NodeKeepsInv ==
  LeaseInv /\ NodeNext => LeaseInv'
<1> SUFFICES ASSUME LeaseInv, NodeNext PROVE LeaseInv'
  OBVIOUS
<1> USE EmptyQueue, AddressesAssumption, DisruptionsAssumption
<1>1. CASE NodeStarts
  BY <1>1 DEF LeaseInv, TypeOK, OneLiveEnd, Leased, AgentStages, NodeStages, Ends, Units, NodeStarts, agentVars, socketVars, linkVars, nodeVars, Undisturbed, Disrupts
<1>2. CASE Dial
  BY <1>2 DEF LeaseInv, TypeOK, OneLiveEnd, Leased, AgentStages, NodeStages, Ends, Units, Dial, agentVars, socketVars, linkVars, nodeVars, Undisturbed, Disrupts
<1>3. CASE AcquireFails
  BY <1>3 DEF LeaseInv, TypeOK, OneLiveEnd, Leased, AgentStages, NodeStages, Ends, Units, AcquireFails, Disconnect, Left, agentVars, socketVars, linkVars, nodeVars, Undisturbed, Disrupts
<1>4. CASE AcquireTimesOut
  BY <1>4 DEF LeaseInv, TypeOK, OneLiveEnd, Leased, AgentStages, NodeStages, Ends, Units, AcquireTimesOut, Disconnect, Left, agentVars, socketVars, linkVars, nodeVars, Undisturbed, Disrupts
<1>5. CASE StartUnderGrant
  BY <1>5 DEF LeaseInv, TypeOK, OneLiveEnd, Leased, AgentStages, NodeStages, Ends, Units, StartUnderGrant, agentVars, socketVars, linkVars, nodeVars, Undisturbed, Disrupts
<1>6. CASE watch
  BY <1>6 DEF LeaseInv, TypeOK, OneLiveEnd, Leased, AgentStages, NodeStages, Ends, Units, watch, agentVars, socketVars, linkVars, nodeVars, Undisturbed, Disrupts
<1>7. CASE Terminate
  BY <1>7 DEF LeaseInv, TypeOK, OneLiveEnd, Leased, AgentStages, NodeStages, Ends, Units, Terminate, agentVars, socketVars, linkVars, nodeVars, Undisturbed, Disrupts
<1>8. CASE GraceEnds
  BY <1>8 DEF LeaseInv, TypeOK, OneLiveEnd, Leased, AgentStages, NodeStages, Ends, Units, GraceEnds, agentVars, socketVars, linkVars, nodeVars, Undisturbed, Disrupts
<1>9. CASE Terminated
  BY <1>9 DEF LeaseInv, TypeOK, OneLiveEnd, Leased, AgentStages, NodeStages, Ends, Units, Terminated, agentVars, socketVars, linkVars, nodeVars, Undisturbed, Disrupts
<1>10. CASE ChildStops
  BY <1>10 DEF LeaseInv, TypeOK, OneLiveEnd, Leased, AgentStages, NodeStages, Ends, Units, ChildStops, agentVars, socketVars, linkVars, nodeVars, Undisturbed, Disrupts
<1>11. CASE ChildCrashes
  BY <1>11 DEF LeaseInv, TypeOK, OneLiveEnd, Leased, AgentStages, NodeStages, Ends, Units, ChildCrashes, agentVars, socketVars, linkVars, nodeVars, Undisturbed, Disrupts
<1>12. CASE SignalArrives
  BY <1>12 DEF LeaseInv, TypeOK, OneLiveEnd, Leased, AgentStages, NodeStages, Ends, Units, SignalArrives, agentVars, socketVars, linkVars, nodeVars, Undisturbed, Disrupts
<1>13. CASE forward
  BY <1>13 DEF LeaseInv, TypeOK, OneLiveEnd, Leased, AgentStages, NodeStages, Ends, Units, forward, agentVars, socketVars, linkVars, nodeVars, Undisturbed, Disrupts
<1>14. CASE Completed
  BY <1>14, NodeExitsKeepsInv DEF Completed
<1>15. CASE NodeStops
  BY <1>15, NodeExitsKeepsInv DEF NodeStops
<1> QED  BY <1>1, <1>2, <1>3, <1>4, <1>5, <1>6, <1>7, <1>8, <1>9, <1>10, <1>11, <1>12, <1>13, <1>14, <1>15 DEF NodeNext

\* A step that changes nothing keeps the invariant.
LEMMA StutterKeepsLease ==
  ASSUME LeaseInv, UNCHANGED vars
  PROVE  LeaseInv'
<1> USE DEF LeaseInv, vars, agentVars, socketVars, linkVars, nodeVars
<1>1. TypeOK'
  BY DEF TypeOK
<1>2. OneLiveEnd'
  BY DEF OneLiveEnd, Leased
<1>3. AgentStages'
  BY DEF AgentStages
<1>4. NodeStages'
  BY DEF NodeStages
<1> QED  BY <1>1, <1>2, <1>3, <1>4

\* The inductive invariant holds in every reachable state.
LEMMA InvHolds ==
  Spec => []LeaseInv
<1>1. LeaseInv /\ [Next]_vars => LeaseInv'
  BY AgentKeepsInv, SocketKeepsInv, NodeKeepsInv, StutterKeepsLease DEF Next
<1> QED  BY InitInv, <1>1, PTL DEF Spec

\* Every variable of the agent, the socket and the entrypoint keeps its type: no
\* address that is not a public hostname becomes a grant.
THEOREM LeaseTypeCorrect ==
  Spec => []TypeOK
<1>1. LeaseInv => TypeOK
  BY DEF LeaseInv
<1> QED  BY InvHolds, <1>1, PTL

\* A node under a standing lease runs with the hostname the living agent's
\* tunnel was assigned, whatever crashed, timed out or arrived late.
THEOREM StandingLeaseNamesTheTunnel ==
  Spec => []LeaseNamesTheTunnel
<1>1. LeaseInv => LeaseNamesTheTunnel
  <2> SUFFICES ASSUME LeaseInv, child # "none", link = "open"
               PROVE  /\ env = assigned /\ env # None
                      /\ agent \in {"holding", "failed"} /\ served = "live"
    BY DEF LeaseNamesTheTunnel
  <2>1. env # None
    BY DEF LeaseInv, TypeOK, NodeStages
  <2>2. served = "live" /\ env = assigned
    BY <2>1 DEF LeaseInv, OneLiveEnd, Leased
  <2> QED  BY <2>1, <2>2 DEF LeaseInv, TypeOK, AgentStages
<1> QED  BY InvHolds, <1>1, PTL

\* As long as the node process runs, its entrypoint holds the connection and
\* hears the agent end.
THEOREM NodeAlwaysHearsTheAgent ==
  Spec => []NodeHearsTheAgent
<1>1. LeaseInv => NodeHearsTheAgent
  BY DEF LeaseInv, TypeOK, NodeStages, NodeHearsTheAgent
<1> QED  BY InvHolds, <1>1, PTL

\* The initial state offers nothing and leases nothing.
LEMMA InitIsPromised ==
  Init => Promise!Init
BY DEF Init, Promise!Init, Offered, Leased, Standing

\* The agent offers a hostname when its tunnel opens, withdraws it when it fails
\* and revokes the lease when it exits.
LEMMA AgentIsPromised ==
  LeaseInv /\ AgentNext => [Promise!Next]_(Promise!vars)
<1> SUFFICES ASSUME LeaseInv, AgentNext PROVE [Promise!Next]_(Promise!vars)
  OBVIOUS
<1> USE DEF LeaseInv, TypeOK, AgentStages, OneLiveEnd, NodeStages, Offered, Leased, Standing,
            agentVars, socketVars, linkVars, nodeVars
<1>1. CASE TunnelOpened
  <2>1. assigned \in Hostnames /\ ~Standing /\ Offered = None
    BY <1>1 DEF TunnelOpened
  <2>2. Standing' = Standing /\ Leased' = Leased /\ Offered' \in {assigned, None}
    BY <1>1 DEF TunnelOpened
  <2> QED  BY <2>1, <2>2 DEF Promise!Next, Promise!Offer, Promise!vars
<1>2. CASE AgentStarts
  BY <1>2 DEF AgentStarts, Promise!vars
<1>3. CASE OpenFails \/ OpenTimesOut \/ UnitFails
  <2>1. Standing' = Standing /\ Leased' = Leased /\ Offered' \in {Offered, None}
    BY <1>3 DEF OpenFails, OpenTimesOut, UnitFails, UnitsClose, stopListening
  <2> QED  BY <2>1 DEF Promise!Next, Promise!Withdraw, Promise!vars
<1>4. CASE HoldTheExit \/ AgentStops
  <2>1. ~Standing' /\ Leased' = Leased /\ Offered' = None
    BY <1>4 DEF HoldTheExit, AgentStops, AgentExits
  <2>2. Standing => Offered = None
    OBVIOUS
  <2> QED  BY <2>1, <2>2 DEF Promise!Next, Promise!Withdraw, Promise!Revoke, Promise!vars
<1>5. CASE \/ TunnelEnds \/ IngressFails
           \/ \E address \in Addresses : HostnameAssigned(address) \/ EventRejected(address)
  BY <1>5 DEF TunnelEnds, IngressFails, HostnameAssigned, EventRejected, Promise!vars
<1> QED  BY <1>1, <1>2, <1>3, <1>4, <1>5 DEF AgentNext

\* The socket hands the offer to one consumer, or loses it with the consumer.
LEMMA SocketIsPromised ==
  LeaseInv /\ SocketNext => [Promise!Next]_(Promise!vars)
<1> SUFFICES ASSUME LeaseInv, SocketNext PROVE [Promise!Next]_(Promise!vars)
  OBVIOUS
<1> USE DEF LeaseInv, TypeOK, AgentStages, OneLiveEnd, NodeStages, Offered, Leased, Standing,
            agentVars, socketVars, linkVars, nodeVars
<1>1. CASE Accept
  BY <1>1 DEF Accept, Promise!vars
<1>2. CASE CloseEarlyConsumer
  BY <1>2 DEF CloseEarlyConsumer, Promise!vars
<1>3. CASE Serve
  <2>1. Offered = grant /\ Offered # None /\ Leased = None
    BY <1>3 DEF Serve
  <2>2. Offered' = None /\ Leased' = grant /\ Standing'
    BY <1>3 DEF Serve
  <2> QED  BY <2>1, <2>2 DEF Promise!Next, Promise!Take
<1>4. CASE ServeGone
  <2>1. Offered # None /\ Offered' = None /\ Leased' = Leased /\ Standing' = Standing
    BY <1>4 DEF ServeGone
  <2> QED  BY <2>1 DEF Promise!Next, Promise!Withdraw
<1>5. CASE ConsumerEnds
  BY <1>5 DEF ConsumerEnds, Promise!vars
<1> QED  BY <1>1, <1>2, <1>3, <1>4, <1>5 DEF SocketNext

\* The entrypoint ends a lease by leaving, and by nothing else.
LEMMA NodeIsPromised ==
  LeaseInv /\ NodeNext => [Promise!Next]_(Promise!vars)
<1> SUFFICES ASSUME LeaseInv, NodeNext PROVE [Promise!Next]_(Promise!vars)
  OBVIOUS
<1> USE DEF LeaseInv, TypeOK, AgentStages, OneLiveEnd, NodeStages, Offered, Leased, Standing,
            agentVars, socketVars, linkVars, nodeVars
<1>1. CASE StartUnderGrant
  BY <1>1 DEF StartUnderGrant, Promise!vars
<1>2. CASE Dial
  BY <1>2 DEF Dial, Promise!vars
<1>3. CASE Completed \/ NodeStops \/ AcquireTimesOut \/ AcquireFails
  <2>1. Offered' = Offered /\ Leased' = None /\ ~Standing'
    BY <1>3 DEF Completed, NodeStops, AcquireTimesOut, AcquireFails, NodeExits, Disconnect, Left
  <2>2. Standing => Leased # None
    OBVIOUS
  <2> QED  BY <2>1, <2>2 DEF Promise!Next, Promise!End, Promise!vars
<1>4. CASE \/ NodeStarts \/ watch \/ Terminate \/ GraceEnds \/ Terminated
           \/ ChildStops \/ ChildCrashes \/ SignalArrives \/ forward
  BY <1>4 DEF NodeStarts, watch, Terminate, GraceEnds, Terminated, ChildStops,
              ChildCrashes, SignalArrives, forward, Promise!vars
<1> QED  BY <1>1, <1>2, <1>3, <1>4 DEF NodeNext

\* The agent, the socket and the entrypoint implement HostnameLease: every offer
\* is taken by at most one node process, which holds no other lease.
THEOREM LeaseIsImplemented ==
  Spec => ImplementsLease
<1>1. LeaseInv /\ [Next]_vars => [Promise!Next]_(Promise!vars)
  <2>1. UNCHANGED vars => UNCHANGED Promise!vars
    BY DEF vars, agentVars, socketVars, linkVars, nodeVars, Promise!vars,
           Offered, Leased, Standing
  <2> QED  BY <2>1, AgentIsPromised, SocketIsPromised, NodeIsPromised DEF Next
<1> QED  BY InitIsPromised, InvHolds, <1>1, PTL DEF Spec, ImplementsLease, Promise!Spec

-------------------------------------------------------------------------------
(* The life of a service process. *)


Modelled == Programs \ {"localhostrunagent"}

\* What the steps of the start that succeeded were for.
Passed == {Steps[i] : i \in 1 .. done}

\* All that some program opens.
StepName ==
    {"engine", "vault", "hash", "partitions", "collections", "offers", "formats", "connection",
     "ordersStream", "frontierStream", "crawledPagesStream", "takenVisits", "visitLimits",
     "acceptedOrders", "visitedPages", "ordersConsumer", "visitsConsumer", "requestsStream",
     "offersStream", "requestsConsumer", "offersConsumer", "indexSchema", "markdown", "pages",
     "corpus", "requests", "outcomes", "captures", "browser"}

ServerJobs == {Servers[i] : i \in DOMAIN Servers}

LifeTypes ==
    /\ program \in Modelled
    /\ stage \in {"down", "starting", "serving", "stopping", "closing"}
    /\ done \in 0 .. Len(Steps)
    /\ opened \in Seq(StepName)
    /\ told \in BOOLEAN /\ late \in BOOLEAN /\ shut \in Nat
    /\ stored \in [DataDirs -> PeerHashes \union {Blank}]
    /\ ranAs \in [DataDirs -> SUBSET PeerHashes]

\* A process that is down has nothing.
DownIsBare ==
    stage = "down" =>
        done = 0 /\ opened = <<>> /\ ~told /\ running = {} /\ requests = {}

\* Once a node settled its hash it runs under the one that is stored, and what
\* is stored is what every node before it ran under.
HashStands ==
    /\ \A dir \in DataDirs : ranAs[dir] \subseteq {stored[dir]}
    /\ (program = "yacynode" /\ done >= 3 /\ Taking("DataDir") \in DataDirs) =>
           stored[Taking("DataDir")] = selfHash /\ selfHash \in PeerHashes

\* What was opened stands until the process closes, the browser until it is told.
OpenedStand ==
    stage \in {"starting", "serving", "stopping"} =>
        (told /\ program = "renderproxy") \/ Passed \intersect Held \subseteq Open

\* Servers and workers run from the end of the start to the end of the shutdown,
\* and requests are in hand no longer, but those the limit cut off.
JobsInTheirTime ==
    /\ running \subseteq ServerJobs \union Workers
    /\ requests \subseteq Answering
    /\ requests \intersect Workers \subseteq running
    /\ stage \in {"serving", "stopping"} => done = Len(Steps)
    /\ stage \notin {"serving", "stopping"} => running = {}
    /\ stage = "starting" => requests = {}
    /\ stage = "closing" => late \/ requests = {}

\* The inductive invariant.
LifeInv == LifeTypes /\ DownIsBare /\ HashStands /\ OpenedStand /\ JobsInTheirTime

----------------------------------------------------------------------------
\* Sequences put together are sequences.
LEMMA Joined ==
    ASSUME NEW s \in Seq(StepName), NEW t \in Seq(StepName)
    PROVE  s \o t \in Seq(StepName)
OBVIOUS

\* The second part follows the first.
LEMMA JoinedAt ==
    ASSUME NEW s \in Seq(StepName), NEW t \in Seq(StepName), NEW i \in 1 .. Len(t)
    PROVE  (s \o t)[Len(s) + i] = t[i] /\ Len(s \o t) = Len(s) + Len(t)
OBVIOUS

\* What the node opens for page offers are steps with names (openPageOfferIntake).
LEMMA OfferStepsAreNames ==
    ASSUME NEW e
    PROVE  OfferSteps(e) \in Seq(StepName)
<1>1. <<>> \in Seq(StepName) OBVIOUS
<1>2. <<"offers", "formats">> \in Seq(StepName) BY DEF StepName
<1>3. CASE TakesOffers(e) BY <1>3, <1>2 DEF OfferSteps
<1>4. CASE ~TakesOffers(e) BY <1>4, <1>1 DEF OfferSteps
<1> QED BY <1>3, <1>4

\* The steps of every start have names (the assemblies).
LEMMA StepsAreNames ==
    ASSUME program \in Modelled
    PROVE  Steps \in Seq(StepName)
<1>1. CASE program = "yacynode"
  <2>1. <<"engine", "vault", "hash", "partitions", "collections">> \in Seq(StepName)
    BY DEF StepName
  <2>2. Steps = <<"engine", "vault", "hash", "partitions", "collections">> \o OfferSteps(environment)
    BY <1>1 DEF Steps, Assembly, NodeAssembly
  <2> QED BY <2>1, <2>2, OfferStepsAreNames, Joined
<1>2. CASE program = "yacycrawler"
  <2> DEFINE state == <<"ordersStream", "frontierStream", "crawledPagesStream", "takenVisits",
                        "visitLimits", "acceptedOrders">>
             grace == IF Taken("yacycrawler", environment)["RecrawlGrace"].n > 0
                      THEN <<"visitedPages">> ELSE <<>>
  <2>1. state \in Seq(StepName) BY DEF StepName
  <2>2. <<"visitedPages">> \in Seq(StepName) /\ <<>> \in Seq(StepName) BY DEF StepName
  <2>3. grace \in Seq(StepName)
    <3> HIDE DEF state
    <3>1. CASE Taken("yacycrawler", environment)["RecrawlGrace"].n > 0 BY <3>1, <2>2
    <3>2. CASE ~(Taken("yacycrawler", environment)["RecrawlGrace"].n > 0) BY <3>2, <2>2
    <3> QED BY <3>1, <3>2
  <2>4. <<"connection">> \in Seq(StepName) /\ CrawlConsumers \in Seq(StepName) BY DEF CrawlConsumers, StepName
  <2>5. Steps = <<"connection">> \o (state \o grace) \o CrawlConsumers
    BY <1>2 DEF Steps, Assembly, CrawlerAssembly, CrawlState
  <2> HIDE DEF state, grace
  <2>6. state \o grace \in Seq(StepName) BY <2>1, <2>3, Joined
  <2>7. <<"connection">> \o (state \o grace) \in Seq(StepName) BY <2>4, <2>6, Joined
  <2> QED BY <2>4, <2>5, <2>7, Joined
<1>3. CASE program = "pagescrape"
  <2>1. PageScrapeAssembly.steps \in Seq(StepName) BY DEF PageScrapeAssembly, StepName
  <2> QED BY <1>3, <2>1 DEF Steps, Assembly
<1>4. CASE program = "corpustext"
  <2>1. CorpusTextAssembly.steps \in Seq(StepName) BY DEF CorpusTextAssembly, StepName
  <2> QED BY <1>4, <2>1 DEF Steps, Assembly
<1>5. CASE program = "corpusmarkdown"
  <2>1. CorpusMarkdownAssembly.steps \in Seq(StepName) BY DEF CorpusMarkdownAssembly, StepName
  <2> QED BY <1>5, <2>1 DEF Steps, Assembly
<1>6. CASE program = "webresearchmcp"
  <2>1. WebResearchAssembly.steps \in Seq(StepName) BY DEF WebResearchAssembly, StepName
  <2> QED BY <1>6, <2>1 DEF Steps, Assembly
<1>7. CASE program = "visitcrawl"
  <2>1. VisitCrawlAssembly.steps \in Seq(StepName) BY DEF VisitCrawlAssembly, StepName
  <2> QED BY <1>7, <2>1 DEF Steps, Assembly
<1>8. CASE program = "webarchivescrape"
  <2>1. ArchiveScrapeAssembly.steps \in Seq(StepName) BY DEF ArchiveScrapeAssembly, StepName
  <2> QED BY <1>8, <2>1 DEF Steps, Assembly
<1>9. CASE program = "renderproxy"
  <2>1. RenderProxyAssembly.steps \in Seq(StepName) BY DEF RenderProxyAssembly, StepName
  <2> QED BY <1>9, <2>1 DEF Steps, Assembly
<1> QED
  BY <1>1, <1>2, <1>3, <1>4, <1>5, <1>6, <1>7, <1>8, <1>9 DEF Modelled, Programs

\* The node settles its hash in the third step (assembleNode).
LEMMA HashIsThird ==
    ASSUME program = "yacynode"
    PROVE  Len(Steps) >= 5 /\ Steps[3] = "hash" /\ Steps[1] = "engine" /\ Steps[2] = "vault"
<1>1. Steps = <<"engine", "vault", "hash", "partitions", "collections">> \o OfferSteps(environment)
  BY DEF Steps, Assembly, NodeAssembly
<1> DEFINE five == <<"engine", "vault", "hash", "partitions", "collections">>
<1>2. /\ five \in Seq(StepName) /\ Len(five) = 5
      /\ five[1] = "engine" /\ five[2] = "vault" /\ five[3] = "hash"
  BY DEF StepName
<1> HIDE DEF five
<1> QED BY <1>1, <1>2, OfferStepsAreNames DEF five

\* What a server or worker uses is among what the start opens, and only the
\* render proxy opens a browser, for its proxy (the assemblies).
LEMMA UsesAreOpened ==
    ASSUME program \in Modelled, NEW job \in ServerJobs \union Workers \union Answering
    PROVE  /\ Uses(job) \subseteq Held \intersect {Steps[i] : i \in 1 .. Len(Steps)}
           /\ program = "renderproxy" /\ job # "proxy" => Uses(job) = {}
<1>1. /\ Steps \in Seq(StepName) /\ DOMAIN Steps = 1 .. Len(Steps) /\ Len(Steps) \in Nat
  BY StepsAreNames
<1>2. CASE program = "yacynode"
  <2>1. {"engine", "vault"} \subseteq Held \intersect {Steps[i] : i \in 1 .. Len(Steps)}
    BY <1>1, <1>2, HashIsThird DEF Held
  <2>2. ServerJobs \union Answering \subseteq {"peer", "ops"}
    <3>1. Servers = <<"peer", "ops">> BY <1>2 DEF Servers, Assembly, NodeAssembly
    <3>2. "recall" \notin Workers
      BY <1>2 DEF Workers, Assembly, NodeAssembly, NodeLoops
    <3> QED BY <3>1, <3>2 DEF ServerJobs, Answering
  <2>3. ASSUME job = "offerIntake"
        PROVE  "offers" \in Held \intersect {Steps[i] : i \in 1 .. Len(Steps)}
    <3>1. "offerIntake" \in Workers BY <2>2, <2>3
    <3>2. TakesOffers(environment)
      BY <1>2, <3>1 DEF Workers, Assembly, NodeAssembly, NodeLoops
    <3> DEFINE five == <<"engine", "vault", "hash", "partitions", "collections">>
               two == <<"offers", "formats">>
    <3>3. Steps = five \o two
      BY <1>2, <3>2 DEF Steps, Assembly, NodeAssembly, OfferSteps
    <3>4. five \in Seq(StepName) /\ Len(five) = 5 BY DEF StepName
    <3>5. two \in Seq(StepName) /\ Len(two) = 2 /\ two[1] = "offers" BY DEF StepName
    <3> HIDE DEF five, two
    <3>6. 1 \in 1 .. Len(two) BY <3>5
    <3>7. (five \o two)[Len(five) + 1] = two[1] /\ Len(five \o two) = Len(five) + Len(two)
      BY <3>4, <3>5, <3>6, JoinedAt
    <3>8. Steps[6] = "offers" /\ Len(Steps) = 7 BY <3>3, <3>4, <3>5, <3>7
    <3> QED BY <3>8 DEF Held
  <2>4. Uses(job) = {"engine", "vault"} \union (IF job = "offerIntake" THEN {"offers"} ELSE {})
    BY <1>2 DEF Uses
  <2> QED BY <1>2, <2>1, <2>3, <2>4
<1>3. CASE program = "corpusmarkdown"
  <2>1. Steps = <<"offers", "markdown", "offersConsumer", "pages", "formats">>
    BY <1>3 DEF Steps, Assembly, CorpusMarkdownAssembly
  <2>2. "markdown" \in Held \intersect {Steps[i] : i \in 1 .. Len(Steps)} BY <2>1 DEF Held
  <2> QED BY <1>1, <1>3, <2>2 DEF Uses
<1>4. CASE program \notin {"yacynode", "corpusmarkdown"}
  <2>1. Workers \intersect {"recall"} = {}
    BY <1>4 DEF Workers, Assembly, Modelled, Programs, CrawlerAssembly, PageScrapeAssembly,
       CorpusTextAssembly, WebResearchAssembly, VisitCrawlAssembly, ArchiveScrapeAssembly,
       RenderProxyAssembly
  <2>2. job # "recall"
    <3>1. Servers \in {<<>>, <<"ops">>, <<"tools", "ops">>, <<"intake", "ops">>, <<"proxy", "ops">>}
      BY <1>4 DEF Servers, Assembly, Modelled, Programs, CrawlerAssembly,
         PageScrapeAssembly, CorpusTextAssembly, WebResearchAssembly, VisitCrawlAssembly,
         ArchiveScrapeAssembly, RenderProxyAssembly
    <3>2. "recall" \notin ServerJobs BY <3>1 DEF ServerJobs
    <3> QED BY <2>1, <3>2 DEF Answering, ServerJobs
  <2>3. CASE program = "renderproxy"
    <3>1. Servers = <<"proxy", "ops">> /\ Workers = {}
      BY <2>3 DEF Servers, Workers, Assembly, RenderProxyAssembly
    <3>2. job \in {"proxy", "ops"} BY <3>1 DEF ServerJobs, Answering
    <3> QED BY <1>1, <1>4, <2>2, <3>2 DEF Uses
  <2> QED BY <1>1, <1>4, <2>2, <2>3 DEF Uses
<1> QED BY <1>2, <1>3, <1>4

\* No worker is a server (the assemblies).
LEMMA JobsApart ==
    ASSUME program \in Modelled
    PROVE  /\ ServerJobs \intersect Workers = {} /\ DOMAIN Servers = 1 .. Len(Servers)
           /\ Len(Servers) \in Nat
<1>1. CASE program = "yacynode"
  <2>1. Servers = <<"peer", "ops">> BY <1>1 DEF Servers, Assembly, NodeAssembly
  <2>2. Workers \subseteq {"announcer", "sweep", "expiry", "distribution", "offerIntake"}
    BY <1>1 DEF Workers, Assembly, NodeAssembly, NodeLoops
  <2> QED BY <2>1, <2>2 DEF ServerJobs
<1>2. CASE program # "yacynode"
  <2>1. Servers \in {<<>>, <<"ops">>, <<"tools", "ops">>, <<"intake", "ops">>, <<"proxy", "ops">>}
    BY <1>2 DEF Servers, Assembly, Modelled, Programs, CrawlerAssembly,
       PageScrapeAssembly, CorpusTextAssembly, CorpusMarkdownAssembly, WebResearchAssembly,
       VisitCrawlAssembly, ArchiveScrapeAssembly, RenderProxyAssembly
  <2>2. Workers \subseteq {"orders", "visits", "scrapes", "receipts", "offerIntake", "recall",
                           "publishing"}
    BY <1>2 DEF Workers, Assembly, Modelled, Programs, CrawlerAssembly,
       PageScrapeAssembly, CorpusTextAssembly, CorpusMarkdownAssembly, WebResearchAssembly,
       VisitCrawlAssembly, ArchiveScrapeAssembly, RenderProxyAssembly
  <2> QED BY <2>1, <2>2 DEF ServerJobs
<1> QED BY <1>1, <1>2

\* A process keeps its assembly as long as it keeps its environment.
LEMMA AssemblyKept ==
    ASSUME program' = program, environment' = environment
    PROVE  /\ Steps' = Steps /\ Servers' = Servers /\ Workers' = Workers
           /\ ServerJobs' = ServerJobs /\ Answering' = Answering
           /\ Taking("DataDir")' = Taking("DataDir")
<1>1. Assembly' = Assembly BY DEF Assembly
<1>2. Steps' = Steps /\ Servers' = Servers /\ Workers' = Workers
  BY <1>1 DEF Steps, Servers, Workers
<1> QED BY <1>2 DEF ServerJobs, Answering, Taking

\* Nothing outlives what it uses while the invariant holds (servergroup.Run and
\* the deferred calls).
LEMMA NothingOutlives ==
    ASSUME LifeInv
    PROVE  NothingOutlivesWhatItUses
<1> SUFFICES ASSUME NEW job \in running \union requests
             PROVE  \/ Uses(job) \subseteq Open
                    \/ late /\ job \in requests
                    \/ told /\ job = "proxy"
  BY DEF NothingOutlivesWhatItUses
<1>1. job \in ServerJobs \union Workers \union Answering BY DEF LifeInv, JobsInTheirTime
<1>2. CASE stage \in {"serving", "stopping"}
  <2>1. Passed = {Steps[i] : i \in 1 .. Len(Steps)} BY <1>2 DEF LifeInv, JobsInTheirTime, Passed
  <2>2. Uses(job) \subseteq Passed \intersect Held
    BY <1>1, <2>1, UsesAreOpened DEF LifeInv, LifeTypes
  <2>3. CASE Passed \intersect Held \subseteq Open BY <2>2, <2>3
  <2>4. CASE told /\ program = "renderproxy"
    BY <1>1, <2>4, UsesAreOpened DEF LifeInv, LifeTypes
  <2> QED BY <1>2, <2>3, <2>4 DEF LifeInv, OpenedStand
<1>3. CASE stage = "closing" BY <1>3 DEF LifeInv, JobsInTheirTime
<1>4. CASE stage \in {"down", "starting"} BY <1>4 DEF LifeInv, DownIsBare, JobsInTheirTime
<1> QED BY <1>2, <1>3, <1>4 DEF LifeInv, LifeTypes

\* A data directory is served under one hash at most (Settle).
LEMMA OneHash ==
    ASSUME LifeInv
    PROVE  HashForLife
<1> SUFFICES ASSUME NEW dir \in DataDirs
             PROVE  Cardinality(ranAs[dir]) <= 1
  BY DEF HashForLife
<1>1. CASE ranAs[dir] = {} BY <1>1, FS_EmptySet
<1>2. CASE ranAs[dir] = {stored[dir]}
  <2>1. Cardinality({stored[dir]}) = 1 BY FS_Singleton
  <2> QED BY <1>2, <2>1
<1> QED BY <1>1, <1>2 DEF LifeInv, HashStands

----------------------------------------------------------------------------
\* A process that was never started has nothing.
LEMMA LifeBegins == LifeInit => LifeInv
<1> SUFFICES ASSUME LifeInit PROVE LifeInv OBVIOUS
<1>1. program \in Modelled BY ProgramsAssumption DEF LifeInit, Modelled
<1>2. Steps \in Seq(StepName) BY <1>1, StepsAreNames
<1>3. LifeTypes
  <2>1. done \in 0 .. Len(Steps) BY <1>2 DEF LifeInit
  <2>2. opened \in Seq(StepName) BY DEF LifeInit
  <2>3. stored \in [DataDirs -> PeerHashes \union {Blank}] BY DEF LifeInit
  <2>4. ranAs \in [DataDirs -> SUBSET PeerHashes] BY DEF LifeInit
  <2> QED BY <1>1, <2>1, <2>2, <2>3, <2>4 DEF LifeInit, LifeTypes
<1>4. HashStands BY DEF LifeInit, HashStands
<1>5. OpenedStand /\ JobsInTheirTime /\ DownIsBare
  BY DEF LifeInit, OpenedStand, JobsInTheirTime, DownIsBare
<1> QED BY <1>3, <1>4, <1>5 DEF LifeInv

\* However a process ends, it leaves the hash with its data and nothing else.
LEMMA EndKeepsInv ==
    ASSUME LifeInv, Ended, UNCHANGED <<program, environment, stored, ranAs, starts>>
    PROVE  LifeInv'
<1>1. Steps \in Seq(StepName) BY StepsAreNames DEF LifeInv, LifeTypes
<1>2. LifeTypes'
  <2>1. done' \in 0 .. Len(Steps') BY <1>1, AssemblyKept DEF Ended
  <2>2. opened' \in Seq(StepName) BY DEF Ended
  <2> QED BY <2>1, <2>2 DEF LifeInv, LifeTypes, Ended
<1>3. HashStands' BY DEF LifeInv, HashStands, Ended
<1>4. DownIsBare' /\ OpenedStand' /\ JobsInTheirTime'
  BY DEF Ended, DownIsBare, OpenedStand, JobsInTheirTime
<1> QED BY <1>2, <1>3, <1>4 DEF LifeInv

\* A start begins with nothing.
LEMMA StartKeepsInv ==
    ASSUME LifeInv, NEW e \in Environments[program], Start(e)
    PROVE  LifeInv'
<1>1. /\ done = 0 /\ opened = <<>> /\ ~told /\ running = {} /\ requests = {}
      /\ UNCHANGED <<program, done, opened, told, running, requests, shut, late, selfHash, stored,
                     ranAs>>
      /\ stage' \in {"starting", "down"}
  BY DEF LifeInv, DownIsBare, Start
<1>2. program' \in Modelled BY <1>1 DEF LifeInv, LifeTypes
<1>3. Steps' \in Seq(StepName) /\ Len(Steps') \in Nat
  <2>1. ASSUME program \in Modelled PROVE Steps \in Seq(StepName) BY <2>1, StepsAreNames
  <2>2. (program \in Modelled => Steps \in Seq(StepName))' BY StepsAreNames, PTL
  <2> QED BY <1>2, <2>2
<1>4. LifeTypes' BY <1>1, <1>2, <1>3 DEF LifeInv, LifeTypes
<1>5. HashStands' BY <1>1 DEF LifeInv, HashStands
<1>6. DownIsBare' /\ OpenedStand' /\ JobsInTheirTime'
  BY <1>1 DEF DownIsBare, OpenedStand, JobsInTheirTime, Passed
<1> QED BY <1>4, <1>5, <1>6 DEF LifeInv

\* Most steps leave all alone that has a type but the stage.
LEMMA TypesKept ==
    ASSUME LifeInv, UNCHANGED <<program, environment, done, opened, told, stored, ranAs>>,
           stage' \in {"down", "starting", "serving", "stopping", "closing"}, late' \in BOOLEAN, shut' \in Nat
    PROVE  LifeTypes'
BY AssemblyKept DEF LifeInv, LifeTypes

\* A step that leaves the data and the hash alone leaves what they mean alone.
LEMMA HashKept ==
    ASSUME LifeInv, UNCHANGED <<program, environment, done, selfHash, stored, ranAs>>
    PROVE  HashStands'
BY AssemblyKept DEF LifeInv, HashStands

\* Steps are passed by opening only.
LEMMA PassedKept ==
    ASSUME UNCHANGED <<program, environment, done>>
    PROVE  Passed' = Passed
BY AssemblyKept DEF Passed

\* A step that opens something adds it to what stands.
LEMMA OpensKeepsInv ==
    ASSUME LifeInv, Opens
    PROVE  LifeInv'
<1> USE DEF LifeInv
<1>1. /\ UNCHANGED <<program, environment, stage, told, running, requests, shut, late, selfHash,
                     stored, ranAs, starts>>
      /\ stage = "starting" /\ done < Len(Steps) /\ done' = done + 1
      /\ Steps[done + 1] # "hash"
  BY DEF Opens, Opening
<1>2. Steps \in Seq(StepName) /\ Len(Steps) \in Nat /\ done \in Nat /\ done + 1 \in 1 .. Len(Steps)
  BY <1>1, StepsAreNames DEF LifeTypes
<1>3. /\ opened' \in Seq(StepName) /\ Open \subseteq Open'
      /\ Steps[done + 1] \in Held => Steps[done + 1] \in Open'
  <2>1. Steps[done + 1] \in StepName /\ opened \in Seq(StepName) BY <1>2 DEF LifeTypes
  <2>2. CASE Steps[done + 1] \in Held
    <3>1. opened' = Append(opened, Steps[done + 1]) BY <2>2 DEF Opens
    <3>2. /\ Len(opened') = Len(opened) + 1 /\ opened'[Len(opened) + 1] = Steps[done + 1]
          /\ \A i \in 1 .. Len(opened) : opened'[i] = opened[i]
          /\ opened' \in Seq(StepName)
      BY <2>1, <3>1
    <3>3. DOMAIN opened' = 1 .. Len(opened) + 1 /\ DOMAIN opened = 1 .. Len(opened) /\ Len(opened) \in Nat
      BY <2>1, <3>2
    <3> QED BY <3>2, <3>3 DEF Open
  <2>3. CASE Steps[done + 1] \notin Held BY <2>1, <2>3 DEF Opens, Open
  <2> QED BY <2>2, <2>3
<1>4. LifeTypes' BY <1>1, <1>2, <1>3, AssemblyKept DEF LifeTypes
<1>5. HashStands'
  <2>1. program = "yacynode" => done # 2 BY <1>1, HashIsThird
  <2> QED BY <1>1, <1>2, <2>1, AssemblyKept DEF HashStands
<1>6. OpenedStand'
  <2>1. Passed' = Passed \union {Steps[done + 1]} BY <1>1, <1>2, AssemblyKept DEF Passed
  <2> QED BY <1>1, <1>3, <2>1 DEF OpenedStand
<1>7. DownIsBare' /\ JobsInTheirTime'
  BY <1>1, AssemblyKept DEF DownIsBare, JobsInTheirTime
<1> QED BY <1>4, <1>5, <1>6, <1>7

\* A hash that is adopted was stored under no node before, and one that is
\* stored is the one the node runs under (Settle).
LEMMA SettlesKeepsInv ==
    ASSUME LifeInv, NEW hash \in PeerHashes, Settles(hash)
    PROVE  LifeInv'
<1> USE DEF LifeInv
<1>1. /\ UNCHANGED <<program, environment, stage, opened, told, running, requests, shut, late,
                     ranAs, starts>>
      /\ stage = "starting" /\ done < Len(Steps) /\ done' = done + 1 /\ selfHash' = hash
      /\ Steps[done + 1] = "hash"
  BY DEF Settles, Opening
<1>2. Steps \in Seq(StepName) /\ Len(Steps) \in Nat /\ done \in Nat /\ done + 1 \in 1 .. Len(Steps)
  BY <1>1, StepsAreNames DEF LifeTypes
<1>3. \/ stored[Taking("DataDir")] = hash /\ UNCHANGED stored
      \/ /\ stored[Taking("DataDir")] = Blank
         /\ stored' = [stored EXCEPT ![Taking("DataDir")] = hash]
  BY DEF Settles, Settle
<1>4. LifeTypes' BY <1>1, <1>2, <1>3, AssemblyKept DEF LifeTypes
<1>5. HashStands'
  <2>1. \A dir \in DataDirs : ranAs[dir] \subseteq {stored'[dir]}
    <3> SUFFICES ASSUME NEW dir \in DataDirs PROVE ranAs[dir] \subseteq {stored'[dir]} OBVIOUS
    <3>1. CASE stored'[dir] = stored[dir] BY <3>1 DEF HashStands
    <3>2. CASE stored'[dir] # stored[dir]
      <4>1. stored[dir] = Blank BY <1>3, <3>2 DEF LifeTypes
      <4>2. ranAs[dir] \subseteq {Blank} /\ ranAs[dir] \subseteq PeerHashes
        BY <4>1 DEF HashStands, LifeTypes
      <4> QED BY <4>2, HashesAssumption
    <3> QED BY <3>1, <3>2
  <2>2. Taking("DataDir") \in DataDirs => stored'[Taking("DataDir")] = hash BY <1>3 DEF LifeTypes
  <2> QED BY <1>1, <2>1, <2>2, AssemblyKept DEF HashStands
<1>6. OpenedStand'
  <2>1. Passed' = Passed \union {"hash"} BY <1>1, <1>2, AssemblyKept DEF Passed
  <2>2. "hash" \notin Held BY DEF Held
  <2> QED BY <1>1, <2>1, <2>2 DEF OpenedStand, Open
<1>7. DownIsBare' /\ JobsInTheirTime'
  BY <1>1, AssemblyKept DEF DownIsBare, JobsInTheirTime
<1> QED BY <1>4, <1>5, <1>6, <1>7

\* A node that begins to serve its data does so under the hash stored with them.
LEMMA BeginsKeepsInv ==
    ASSUME LifeInv, Begins
    PROVE  LifeInv'
<1> USE DEF LifeInv
<1>1. /\ UNCHANGED <<program, environment, done, opened, told, requests, shut, late, selfHash,
                     stored, starts>>
      /\ stage = "starting" /\ done = Len(Steps) /\ stage' \in {"serving", "stopping"}
      /\ running' = ServerJobs \union Workers
  BY DEF Begins, ServerJobs
<1>2. ranAs' \in [DataDirs -> SUBSET PeerHashes] /\ \A dir \in DataDirs : ranAs'[dir] \subseteq {stored[dir]}
  <2>1. CASE program # "yacynode" BY <2>1 DEF Begins, LifeTypes, HashStands
  <2>2. CASE program = "yacynode"
    <3>1. done >= 3 BY <1>1, <2>2, HashIsThird, StepsAreNames DEF LifeTypes
    <3>2. ranAs' = [ranAs EXCEPT ![Taking("DataDir")] = @ \union {selfHash}]
      BY <2>2 DEF Begins
    <3>3. CASE Taking("DataDir") \notin DataDirs BY <3>2, <3>3 DEF LifeTypes, HashStands
    <3>4. CASE Taking("DataDir") \in DataDirs
      <4>1. stored[Taking("DataDir")] = selfHash /\ selfHash \in PeerHashes
        BY <2>2, <3>1, <3>4 DEF HashStands
      <4> QED BY <3>2, <3>4, <4>1 DEF LifeTypes, HashStands
    <3> QED BY <3>3, <3>4
  <2> QED BY <2>1, <2>2
<1>3. LifeTypes' BY <1>1, <1>2, AssemblyKept DEF LifeTypes
<1>4. HashStands' BY <1>1, <1>2, AssemblyKept DEF HashStands
<1>5. OpenedStand' BY <1>1, PassedKept DEF OpenedStand, Open
<1>6. DownIsBare' /\ JobsInTheirTime'
  BY <1>1, AssemblyKept DEF DownIsBare, JobsInTheirTime
<1> QED BY <1>3, <1>4, <1>5, <1>6

\* A signal takes the browser from the render proxy and tells the others.
LEMMA SignalledKeepsInv ==
    ASSUME LifeInv, Signalled
    PROVE  LifeInv'
<1> USE DEF LifeInv
<1>1. /\ UNCHANGED <<program, environment, done, running, requests, shut, late, selfHash, stored,
                     ranAs, starts>>
      /\ told' = TRUE /\ opened' = IF program = "renderproxy" THEN <<>> ELSE opened
      /\ stage \in {"starting", "serving"}
      /\ stage' = IF stage = "serving" THEN "stopping" ELSE stage
  BY DEF Signalled
<1>2. LifeTypes'
  <2>1. opened' \in Seq(StepName) BY <1>1 DEF LifeTypes
  <2> QED BY <1>1, <2>1, AssemblyKept DEF LifeTypes
<1>3. HashStands' BY <1>1, HashKept
<1>4. OpenedStand' BY <1>1, PassedKept DEF OpenedStand, Open
<1>5. DownIsBare' /\ JobsInTheirTime'
  BY <1>1, AssemblyKept DEF DownIsBare, JobsInTheirTime
<1> QED BY <1>2, <1>3, <1>4, <1>5

\* Requests come to who runs, and go.
LEMMA RequestsKeepInv ==
    ASSUME LifeInv, NEW job \in Jobs, RequestArrives(job) \/ RequestEnds(job)
    PROVE  LifeInv'
<1> USE DEF LifeInv
<1>1. /\ UNCHANGED <<program, environment, stage, done, opened, told, running, shut, late, selfHash,
                     stored, ranAs, starts>>
      /\ \/ /\ requests' = requests \union {job} /\ job \in running \intersect Answering
            /\ stage \in {"serving", "stopping"}
         \/ requests' = requests \ {job} /\ job \in requests
  BY DEF RequestArrives, RequestEnds
<1>2. LifeTypes' BY <1>1, TypesKept DEF LifeTypes
<1>3. HashStands' BY <1>1, HashKept
<1>4. OpenedStand' BY <1>1, PassedKept DEF OpenedStand, Open
<1>5. DownIsBare' /\ JobsInTheirTime'
  BY <1>1, AssemblyKept DEF DownIsBare, JobsInTheirTime
<1> QED BY <1>2, <1>3, <1>4, <1>5

\* A worker or server is done with its requests when it returns, but a server
\* whose requests the limit cuts off.
LEMMA ReturnsKeepInv ==
    ASSUME LifeInv,
           (\E job \in Jobs : Returns(job) \/ WorkerStops(job)) \/ ServerStops
    PROVE  LifeInv'
<1> USE DEF LifeInv
<1>1. /\ UNCHANGED <<program, environment, done, opened, told, requests, late, selfHash, stored,
                     ranAs, starts>>
      /\ stage \in {"serving", "stopping"} /\ stage' = "stopping"
  BY DEF Returns, WorkerStops, ServerStops
<1>2. PICK job : /\ running' = running \ {job}
                 /\ job \in Workers => job \notin requests
  <2>1. \A j \in Workers \intersect requests : j = "recall"
    BY JobsApart DEF JobsInTheirTime, LifeTypes, Answering, ServerJobs
  <2>2. CASE \E j \in Jobs : Returns(j) \/ WorkerStops(j)
    BY <2>1, <2>2 DEF Returns, WorkerStops
  <2>3. CASE ServerStops
    <3>1. shut < Len(Servers) /\ running' = running \ {Servers[shut + 1]} BY <2>3 DEF ServerStops
    <3>2. Servers[shut + 1] \in ServerJobs
      <4>1. shut \in Nat /\ Len(Servers) \in Nat /\ DOMAIN Servers = 1 .. Len(Servers)
        BY JobsApart DEF LifeTypes
      <4> QED BY <3>1, <4>1 DEF ServerJobs
    <3>3. Servers[shut + 1] \notin Workers BY <3>2, JobsApart DEF LifeTypes
    <3> QED BY <3>1, <3>3
  <2> QED BY <2>2, <2>3
<1>3. LifeTypes'
  <2>1. shut' \in Nat BY DEF Returns, WorkerStops, ServerStops, LifeTypes
  <2> QED BY <1>1, <2>1, TypesKept DEF LifeTypes
<1>4. HashStands' BY <1>1, HashKept
<1>5. OpenedStand' BY <1>1, PassedKept DEF OpenedStand, Open
<1>6. DownIsBare' /\ JobsInTheirTime'
  BY <1>1, <1>2, AssemblyKept DEF DownIsBare, JobsInTheirTime
<1> QED BY <1>3, <1>4, <1>5, <1>6

\* The limit of the shutdown passes.
LEMMA LimitKeepsInv ==
    ASSUME LifeInv, LimitPasses
    PROVE  LifeInv'
<1> USE DEF LifeInv
<1>1. /\ UNCHANGED <<program, environment, stage, done, opened, told, running, requests, shut,
                     selfHash, stored, ranAs, starts>>
      /\ stage = "stopping" /\ late' = TRUE
  BY DEF LimitPasses
<1>2. LifeTypes' BY <1>1, TypesKept DEF LifeTypes
<1>3. HashStands' BY <1>1, HashKept
<1>4. OpenedStand' BY <1>1, PassedKept DEF OpenedStand, Open
<1>5. DownIsBare' /\ JobsInTheirTime'
  BY <1>1, AssemblyKept DEF DownIsBare, JobsInTheirTime
<1> QED BY <1>2, <1>3, <1>4, <1>5

\* A process closes with no worker running, and with no request in hand unless
\* the limit is over.
LEMMA ClosingKeepsInv ==
    ASSUME LifeInv, StepFails \/ GroupReturns \/ Closes
    PROVE  LifeInv'
<1> USE DEF LifeInv
<1>1. /\ UNCHANGED <<program, environment, done, told, running, requests, shut, late, selfHash,
                     stored, ranAs, starts>>
      /\ stage' = "closing"
  BY DEF StepFails, GroupReturns, Closes
<1>2. LifeTypes'
  <2>1. opened' \in Seq(StepName)
    <3>1. CASE opened' = opened BY <3>1 DEF LifeTypes
    <3>2. CASE Closes
      <4>1. opened \in Seq(StepName) /\ Len(opened) \in Nat /\ Len(opened) - 1 <= Len(opened)
        BY DEF LifeTypes
      <4>2. SubSeq(opened, 1, Len(opened) - 1) \in Seq(StepName)
        BY <4>1, SubSeqProperties
      <4> QED BY <3>2, <4>2 DEF Closes
    <3> QED BY <3>1, <3>2 DEF StepFails, GroupReturns
  <2> QED BY <1>1, <2>1, AssemblyKept DEF LifeTypes
<1>3. HashStands' BY <1>1, HashKept
<1>4. DownIsBare' /\ OpenedStand' BY <1>1 DEF DownIsBare, OpenedStand
<1>5. running = {} /\ (late \/ requests = {})
  <2>1. CASE StepFails BY <2>1 DEF StepFails, Opening, JobsInTheirTime
  <2>2. CASE Closes BY <2>2 DEF Closes, JobsInTheirTime
  <2>3. CASE GroupReturns
    <3>1. running = {} /\ (late \/ requests \subseteq Workers)
      BY <2>3 DEF GroupReturns, Stopped, Drained
    <3> QED BY <3>1 DEF JobsInTheirTime
  <2> QED BY <2>1, <2>2, <2>3
<1>6. JobsInTheirTime' BY <1>1, <1>5, AssemblyKept DEF JobsInTheirTime
<1> QED BY <1>2, <1>3, <1>4, <1>6

\* A step that changes nothing keeps everything.
LEMMA StutterKeepsLife ==
    ASSUME LifeInv, UNCHANGED lifeVars
    PROVE  LifeInv'
<1>1. UNCHANGED <<program, environment, stage, done, opened, told, running, requests, shut, late,
                  selfHash, stored, ranAs, starts>>
  BY DEF lifeVars
<1>2. LifeTypes' BY <1>1, TypesKept DEF LifeInv, LifeTypes
<1>3. HashStands' BY <1>1, HashKept
<1>4. OpenedStand' BY <1>1, PassedKept DEF LifeInv, OpenedStand, Open
<1>5. DownIsBare' /\ JobsInTheirTime'
  BY <1>1, AssemblyKept DEF LifeInv, DownIsBare, JobsInTheirTime
<1> QED BY <1>2, <1>3, <1>4, <1>5 DEF LifeInv

\* Every step of a process keeps the invariant.
LEMMA LifeStep ==
    ASSUME LifeInv, [LifeNext]_lifeVars
    PROVE  LifeInv'
<1>1. CASE \E e \in Environments[program] : Start(e) BY <1>1, StartKeepsInv
<1>2. CASE Opens BY <1>2, OpensKeepsInv
<1>3. CASE \E hash \in PeerHashes : Settles(hash) BY <1>3, SettlesKeepsInv
<1>4. CASE StepFails \/ GroupReturns \/ Closes BY <1>4, ClosingKeepsInv
<1>5. CASE Begins BY <1>5, BeginsKeepsInv
<1>6. CASE Signalled BY <1>6, SignalledKeepsInv
<1>7. CASE \E job \in Jobs : RequestArrives(job) \/ RequestEnds(job) BY <1>7, RequestsKeepInv
<1>8. CASE (\E job \in Jobs : Returns(job) \/ WorkerStops(job)) \/ ServerStops
  BY <1>8, ReturnsKeepInv
<1>9. CASE LimitPasses BY <1>9, LimitKeepsInv
<1>10. CASE Exits \/ Crashes BY <1>10, EndKeepsInv DEF Exits, Crashes
<1>11. CASE UNCHANGED lifeVars BY <1>11, StutterKeepsLife
<1> QED BY <1>1, <1>2, <1>3, <1>4, <1>5, <1>6, <1>7, <1>8, <1>9, <1>10, <1>11 DEF LifeNext

\* What each process has open and who runs in it follow its stage, in every
\* behaviour (servergroup.Run and the assemblies).
THEOREM LifeInvariant == LifeSpec => []LifeInv
BY LifeBegins, LifeStep, PTL DEF LifeSpec

\* However often the node is started, under whatever stated hashes and with
\* crashes anywhere, it serves the data of a directory under one peer hash
\* (nodepeerhash.Settle).
THEOREM OneHashForLife == LifeSpec => []HashForLife
BY LifeInvariant, OneHash, PTL

\* Whatever fails, returns, hangs or crashes in whatever order, no server,
\* worker or request finds what it uses closed, but those the limit of the
\* shutdown cuts off and the pages in a browser that is told to stop
\* (servergroup.Run and the deferred calls of every assembly).
THEOREM NothingIsOutlived == LifeSpec => []NothingOutlivesWhatItUses
BY LifeInvariant, NothingOutlives, PTL
===============================================================================
