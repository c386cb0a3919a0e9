--------------------------- MODULE PageAllowance ---------------------------
(***************************************************************************)
(* What the crawler builds on: pages of a host handed out one at a time,   *)
(* never more than Limit, each to one page visit or to nobody (a page      *)
(* taken by a write whose answer was lost).                                *)
(***************************************************************************)
EXTENDS Naturals

CONSTANTS Writers, Limit

VARIABLES
    taken,    \* pages of the host taken so far
    granted,  \* page visits that were told they took one
    refused   \* page visits that were told the host has none left

vars == <<taken, granted, refused>>

Init == taken = 0 /\ granted = {} /\ refused = {}

TakePage == taken < Limit /\ taken' = taken + 1

Grant(w) ==
    /\ w \notin granted \cup refused
    /\ TakePage
    /\ granted' = granted \cup {w}
    /\ UNCHANGED refused

Refuse(w) ==
    /\ w \notin granted \cup refused
    /\ taken = Limit
    /\ refused' = refused \cup {w}
    /\ UNCHANGED <<taken, granted>>

Leak == TakePage /\ UNCHANGED <<granted, refused>>

Next ==
    \/ \E w \in Writers : Grant(w) \/ Refuse(w)
    \/ Leak

Spec == Init /\ [][Next]_vars
=============================================================================
