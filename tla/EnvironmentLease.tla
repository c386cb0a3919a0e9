--------------------------- MODULE EnvironmentLease ---------------------------
(***************************************************************************)
(* The agent that holds one localhost.run tunnel, the socket over which it *)
(* leases the tunnel's hostname, and the node's entrypoint, which runs the *)
(* node under the leased environment and stops it when the lease is        *)
(* revoked.  Both are containers that their supervisor restarts.  A        *)
(* connection has two ends: the agent's (queued, accepted, served) and the *)
(* entrypoint's (link); the entrypoint has at most one, and a connection   *)
(* whose entrypoint left is "gone".                                        *)
(***************************************************************************)
EXTENDS Integers, Sequences, SequencesExt

CONSTANTS Addresses,       \* what the provider may report as an address
          Hostnames,       \* those of them that are public hostnames
          None,
          MaxDisruptions   \* bound on failures, timeouts and signals

ASSUME AddressesAssumption == Hostnames \subseteq Addresses /\ None \notin Addresses
ASSUME DisruptionsAssumption == MaxDisruptions \in Nat

VARIABLES
    agent,        \* "down", "opening" the tunnel, "holding" it, "failed"
    faults,       \* the units whose failure channel holds an error
    assigned,     \* the hostname the event reader took, or None
    public,       \* the address the provider forwards from, or None
    listening,    \* the lease socket has its listener
    grant,        \* the channel of the one grant: a hostname or None
    queue,        \* connections not accepted yet, in order
    accepted,     \* the connection the accept loop has in its hands
    served,       \* the connection that was given the grant
    link,         \* the entrypoint's end: "none", "open", "shut" by the agent
    frame,        \* the grant frame not read yet, or None
    node,         \* "down", "acquiring", "supervising", "terminating"
    child,        \* the node process: "none", "running", "asked" to stop, "done"
    env,          \* the hostname in the node process' environment, or None
    revocation,   \* the end of the lease: "none" seen, "sent", "taken"
    requested,    \* a termination signal was forwarded already
    signalled,    \* the signal channel holds a signal
    disruptions

agentVars  == <<agent, faults, assigned, public>>
socketVars == <<listening, grant, queue, accepted, served>>
linkVars   == <<link, frame>>
nodeVars   == <<node, child, env, revocation, requested, signalled>>
vars == <<agentVars, socketVars, linkVars, nodeVars, disruptions>>

Ends == {"none", "live", "gone"}
Units == {"tunnel", "ingress", "lease"}

Init ==
    /\ agent = "down" /\ faults = {} /\ assigned = None /\ public = None
    /\ listening = FALSE /\ grant = None /\ queue = <<>>
    /\ accepted = "none" /\ served = "none"
    /\ link = "none" /\ frame = None
    /\ node = "down" /\ child = "none" /\ env = None
    /\ revocation = "none" /\ requested = FALSE /\ signalled = FALSE
    /\ disruptions = 0

Disrupts == disruptions < MaxDisruptions /\ disruptions' = disruptions + 1
Undisturbed == UNCHANGED disruptions

-----------------------------------------------------------------------------
\* The agent.

AgentStarts ==
    /\ agent = "down"
    /\ agent' = "opening" /\ listening' = TRUE
    /\ UNCHANGED <<faults, assigned, public, grant, queue, accepted, served>>
    /\ UNCHANGED <<linkVars, nodeVars>> /\ Undisturbed

\* The reader of the tunnel's events runs until it reports a failure.
Reading == agent \in {"opening", "holding"} /\ "tunnel" \notin faults

isPublicHostname(address) == address \in Hostnames

HostnameAssigned(address) ==
    /\ Reading /\ assigned = None /\ isPublicHostname(address)
    /\ assigned' = address /\ public' = address
    /\ UNCHANGED <<agent, faults, socketVars, linkVars, nodeVars>> /\ Undisturbed

\* Mutated form: a second forward event replaces the hostname the tunnel was assigned.
EventFollowed(address) ==
    /\ Reading /\ Disrupts
    /\ isPublicHostname(address) /\ assigned \notin {None, address}
    /\ assigned' = address /\ public' = address
    /\ UNCHANGED <<agent, faults, socketVars, linkVars, nodeVars>>

\* An address that is no public hostname, or one that replaces the assigned one.
EventRejected(address) ==
    /\ Reading /\ Disrupts
    /\ ~isPublicHostname(address) \/ assigned \notin {None, address}
    /\ faults' = faults \union {"tunnel"} /\ public' = address
    /\ UNCHANGED <<agent, assigned, socketVars, linkVars, nodeVars>>

TunnelEnds ==
    /\ Reading /\ Disrupts
    /\ faults' = faults \union {"tunnel"} /\ public' = None
    /\ UNCHANGED <<agent, assigned, socketVars, linkVars, nodeVars>>

IngressFails ==
    /\ agent \in {"opening", "holding"} /\ "ingress" \notin faults /\ Disrupts
    /\ faults' = faults \union {"ingress"}
    /\ UNCHANGED <<agent, assigned, public, socketVars, linkVars, nodeVars>>

TunnelOpened ==
    /\ agent = "opening" /\ assigned # None
    /\ agent' = "holding" /\ grant' = assigned
    /\ UNCHANGED <<faults, assigned, public, listening, queue, accepted, served>>
    /\ UNCHANGED <<linkVars, nodeVars>> /\ Undisturbed

\* The listener closes: the connections still queued are reset.
stopListening ==
    /\ listening' = FALSE /\ queue' = <<>>
    /\ link' = IF "live" \in ToSet(queue) THEN "shut" ELSE link

\* RunAgent returns: its deferred calls close the tunnel, the ingress and the
\* listener.  A connection that was accepted stays open until the process exits.
UnitsClose ==
    /\ agent' = "failed" /\ public' = None
    /\ stopListening
    /\ UNCHANGED <<faults, assigned, grant, accepted, served, frame, nodeVars>>

OpenFails ==
    /\ agent = "opening" /\ assigned = None /\ "tunnel" \in faults
    /\ UnitsClose /\ Undisturbed

OpenTimesOut == agent = "opening" /\ Disrupts /\ UnitsClose

UnitFails == agent = "holding" /\ faults # {} /\ UnitsClose /\ Undisturbed

\* Process exit: the kernel closes every connection of the agent.
AgentExits ==
    /\ agent' = "down" /\ faults' = {} /\ assigned' = None /\ public' = None
    /\ listening' = FALSE /\ grant' = None /\ queue' = <<>>
    /\ accepted' = "none" /\ served' = "none"
    /\ link' = IF link = "open" THEN "shut" ELSE link
    /\ UNCHANGED <<frame, nodeVars>>

HoldTheExit == agent = "failed" /\ AgentExits /\ Undisturbed

AgentStops == agent # "down" /\ Disrupts /\ AgentExits

-----------------------------------------------------------------------------
\* The lease socket.

Accept ==
    /\ listening /\ accepted = "none" /\ served = "none" /\ queue # <<>>
    /\ accepted' = Head(queue) /\ queue' = Tail(queue)
    /\ UNCHANGED <<listening, grant, served>>
    /\ UNCHANGED <<agentVars, linkVars, nodeVars>> /\ Undisturbed

CloseEarlyConsumer ==
    /\ accepted # "none" /\ grant = None
    /\ accepted' = "none"
    /\ link' = IF accepted = "live" THEN "shut" ELSE link
    /\ UNCHANGED <<listening, grant, queue, served>>
    /\ UNCHANGED <<agentVars, frame, nodeVars>> /\ Undisturbed

\* Mutated form: the loop looks at the grant and leaves it for the next consumer.
ServeAgain ==
    /\ accepted = "live" /\ grant # None
    /\ accepted' = "none" /\ served' = "live" /\ frame' = grant
    /\ UNCHANGED <<grant, listening, queue, link>>
    /\ UNCHANGED <<agentVars, nodeVars>> /\ Undisturbed

Serve ==
    /\ accepted = "live" /\ grant # None
    /\ accepted' = "none" /\ served' = "live"
    /\ grant' = None /\ frame' = grant
    /\ stopListening
    /\ UNCHANGED <<agentVars, nodeVars>> /\ Undisturbed

\* The consumer left before its frame was written: the write fails.
ServeGone ==
    /\ accepted = "gone" /\ grant # None
    /\ accepted' = "none" /\ grant' = None
    /\ faults' = faults \union {"lease"}
    /\ stopListening
    /\ UNCHANGED <<agent, assigned, public, served, frame, nodeVars>> /\ Undisturbed

\* Mutated form: the end of the consumer is logged and not reported.
ConsumerEndsUnnoticed ==
    /\ served = "gone" /\ served' = "none"
    /\ UNCHANGED <<agentVars, listening, grant, queue, accepted>>
    /\ UNCHANGED <<linkVars, nodeVars>> /\ Undisturbed

ConsumerEnds ==
    /\ served = "gone"
    /\ served' = "none" /\ faults' = faults \union {"lease"}
    /\ UNCHANGED <<agent, assigned, public, listening, grant, queue, accepted>>
    /\ UNCHANGED <<linkVars, nodeVars>> /\ Undisturbed

-----------------------------------------------------------------------------
\* The entrypoint.

NodeStarts ==
    /\ node = "down"
    /\ node' = "acquiring"
    /\ UNCHANGED <<child, env, revocation, requested, signalled>>
    /\ UNCHANGED <<agentVars, socketVars, linkVars>> /\ Undisturbed

Dial ==
    /\ node = "acquiring" /\ link = "none" /\ listening
    /\ link' = "open" /\ queue' = Append(queue, "live")
    /\ UNCHANGED <<listening, grant, accepted, served>>
    /\ UNCHANGED <<agentVars, frame, nodeVars>> /\ Undisturbed

Left(end) == IF end = "live" THEN "gone" ELSE end

\* The entrypoint closes its end of the connection, if it has one.
Disconnect ==
    /\ link' = "none" /\ frame' = None
    /\ queue' = [i \in DOMAIN queue |-> Left(queue[i])]
    /\ accepted' = Left(accepted) /\ served' = Left(served)
    /\ UNCHANGED <<listening, grant, agentVars>>

AcquireFails ==
    /\ node = "acquiring" /\ link = "shut" /\ frame = None
    /\ Disconnect /\ UNCHANGED nodeVars /\ Undisturbed

AcquireTimesOut ==
    /\ node = "acquiring" /\ link = "open" /\ Disrupts
    /\ Disconnect /\ UNCHANGED nodeVars

\* The frame is read before the end of the stream, so a lease that was already
\* revoked still starts the node.
StartUnderGrant ==
    /\ node = "acquiring" /\ frame # None
    /\ node' = "supervising" /\ child' = "running"
    /\ env' = frame /\ frame' = None
    /\ UNCHANGED <<revocation, requested, signalled, link>>
    /\ UNCHANGED <<agentVars, socketVars>> /\ Undisturbed

watch ==
    /\ node = "supervising" /\ link = "shut" /\ revocation = "none"
    /\ revocation' = "sent"
    /\ UNCHANGED <<node, child, env, requested, signalled>>
    /\ UNCHANGED <<agentVars, socketVars, linkVars>> /\ Undisturbed

Terminate ==
    /\ node = "supervising" /\ revocation = "sent"
    /\ node' = "terminating" /\ revocation' = "taken"
    /\ child' = IF child = "running" THEN "asked" ELSE child
    /\ UNCHANGED <<env, requested, signalled>>
    /\ UNCHANGED <<agentVars, socketVars, linkVars>> /\ Undisturbed

GraceEnds ==
    /\ node = "terminating" /\ child # "done"
    /\ child' = "done"
    /\ UNCHANGED <<node, env, revocation, requested, signalled>>
    /\ UNCHANGED <<agentVars, socketVars, linkVars>> /\ Undisturbed

Terminated ==
    /\ node = "terminating" /\ child = "done"
    /\ node' = "supervising"
    /\ UNCHANGED <<child, env, revocation, requested, signalled>>
    /\ UNCHANGED <<agentVars, socketVars, linkVars>> /\ Undisturbed

ChildStops ==
    /\ child = "asked"
    /\ child' = "done"
    /\ UNCHANGED <<node, env, revocation, requested, signalled>>
    /\ UNCHANGED <<agentVars, socketVars, linkVars>> /\ Undisturbed

ChildCrashes ==
    /\ child = "running" /\ Disrupts
    /\ child' = "done"
    /\ UNCHANGED <<node, env, revocation, requested, signalled>>
    /\ UNCHANGED <<agentVars, socketVars, linkVars>>

\* The channel holds one signal: another one is dropped while it waits.
SignalArrives ==
    /\ node \in {"supervising", "terminating"} /\ Disrupts
    /\ signalled' = TRUE
    /\ UNCHANGED <<node, child, env, revocation, requested>>
    /\ UNCHANGED <<agentVars, socketVars, linkVars>>

forward ==
    /\ node = "supervising" /\ signalled
    /\ signalled' = FALSE /\ requested' = TRUE
    /\ child' = IF requested \/ child = "done" THEN "done" ELSE "asked"
    /\ UNCHANGED <<node, env, revocation>>
    /\ UNCHANGED <<agentVars, socketVars, linkVars>> /\ Undisturbed

\* The entrypoint process is gone, and with it the node process.
NodeExits ==
    /\ node' = "down" /\ child' = "none" /\ env' = None
    /\ revocation' = "none" /\ requested' = FALSE /\ signalled' = FALSE
    /\ Disconnect

Completed == node = "supervising" /\ child = "done" /\ NodeExits /\ Undisturbed

NodeStops == node # "down" /\ Disrupts /\ NodeExits

-----------------------------------------------------------------------------
AgentNext ==
    \/ AgentStarts \/ TunnelOpened \/ TunnelEnds \/ IngressFails
    \/ \E address \in Addresses :
          HostnameAssigned(address) \/ EventRejected(address)
    \/ OpenFails \/ OpenTimesOut \/ UnitFails \/ HoldTheExit \/ AgentStops

SocketNext == Accept \/ CloseEarlyConsumer \/ Serve \/ ServeGone \/ ConsumerEnds

NodeNext ==
    \/ NodeStarts \/ Dial \/ AcquireFails \/ AcquireTimesOut
    \/ StartUnderGrant \/ watch \/ Terminate \/ GraceEnds \/ Terminated
    \/ ChildStops \/ ChildCrashes \/ SignalArrives \/ forward
    \/ Completed \/ NodeStops

Next == AgentNext \/ SocketNext \/ NodeNext

Spec == Init /\ [][Next]_vars

\* Goroutines run, containers are restarted, timers fire, and the provider
\* answers a tunnel that stays up.  A node process may ignore a signal.
Fairness ==
    /\ WF_vars(AgentStarts) /\ WF_vars(TunnelOpened) /\ WF_vars(OpenFails)
    /\ WF_vars(UnitFails) /\ WF_vars(HoldTheExit)
    /\ WF_vars(\E address \in Addresses : HostnameAssigned(address))
    /\ WF_vars(SocketNext)
    /\ WF_vars(NodeStarts) /\ WF_vars(Dial) /\ WF_vars(AcquireFails)
    /\ WF_vars(StartUnderGrant) /\ WF_vars(watch) /\ WF_vars(Terminate)
    /\ WF_vars(GraceEnds) /\ WF_vars(Terminated) /\ WF_vars(forward)
    /\ WF_vars(Completed)

FairSpec == Spec /\ Fairness
-----------------------------------------------------------------------------
TypeOK ==
    /\ agent \in {"down", "opening", "holding", "failed"}
    /\ faults \subseteq Units
    /\ assigned \in Hostnames \union {None}
    /\ public \in Addresses \union {None}
    /\ listening \in BOOLEAN
    /\ grant \in Hostnames \union {None}
    /\ queue \in Seq({"live", "gone"})
    /\ accepted \in Ends /\ served \in Ends
    /\ link \in {"none", "open", "shut"}
    /\ frame \in Hostnames \union {None}
    /\ node \in {"down", "acquiring", "supervising", "terminating"}
    /\ child \in {"none", "running", "asked", "done"}
    /\ env \in Hostnames \union {None}
    /\ revocation \in {"none", "sent", "taken"}
    /\ requested \in BOOLEAN /\ signalled \in BOOLEAN
    /\ disruptions \in 0..MaxDisruptions

\* A node process whose lease is not revoked runs under the hostname that the
\* living agent's tunnel was assigned, and the agent watches its connection: no
\* order of crashes, timeouts and late frames pairs a node with another tunnel.
LeaseNamesTheTunnel ==
    child # "none" /\ link = "open" =>
        /\ env = assigned /\ env # None
        /\ agent \in {"holding", "failed"}
        /\ served = "live"

\* The node process never outlives its entrypoint's hold on the connection: as
\* long as it runs, the agent's exit reaches it as a revocation.
NodeHearsTheAgent ==
    child \in {"running", "asked"} =>
        /\ link # "none"
        /\ revocation # "none" => link = "shut"
        /\ node = "terminating" <=> revocation = "taken"

\* What the pair promises: one offer per tunnel, taken by one node process.
Offered == IF listening \/ accepted # "none" THEN grant ELSE None
Leased  == IF env # None THEN env ELSE frame
Standing == served = "live"
Promise == INSTANCE HostnameLease WITH
    offer <- Offered, lease <- Leased, valid <- Standing

ImplementsLease == Promise!Spec

\* Once the disturbances stop, the pair comes to rest with the node running
\* under the hostname that reaches it.
Reached ==
    /\ agent = "holding" /\ faults = {} /\ link = "open"
    /\ child \in {"running", "asked"} /\ env = public
ComesToRest == <>[]Reached
=============================================================================
