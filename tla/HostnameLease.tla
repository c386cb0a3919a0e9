---------------------------- MODULE HostnameLease ----------------------------
(***************************************************************************)
(* What the lease promises the node, whatever crashes in between: the      *)
(* hostname of a tunnel is offered once, at most one node process takes    *)
(* it, a process that took one never takes another, and a process whose    *)
(* lease was revoked can only end.                                         *)
(***************************************************************************)
CONSTANTS Hostnames, None

VARIABLES
    offer,   \* the hostname on offer, or None
    lease,   \* the hostname the node process holds, or None
    valid    \* the lease stands: its producer has not revoked it

vars == <<offer, lease, valid>>

Init == offer = None /\ lease = None /\ valid = FALSE

Offer(h) == offer = None /\ ~valid /\ offer' = h /\ UNCHANGED <<lease, valid>>

Withdraw == offer # None /\ offer' = None /\ UNCHANGED <<lease, valid>>

Take ==
    /\ offer # None /\ lease = None
    /\ lease' = offer /\ valid' = TRUE /\ offer' = None

Revoke == valid /\ valid' = FALSE /\ UNCHANGED <<offer, lease>>

End == lease # None /\ lease' = None /\ valid' = FALSE /\ UNCHANGED offer

Next == \/ \E h \in Hostnames : Offer(h)
        \/ Withdraw \/ Take \/ Revoke \/ End

Spec == Init /\ [][Next]_vars
=============================================================================
