----------------------------- MODULE SharedLimits -----------------------------
(***************************************************************************)
(* Limits that several ask of at once, gone through one after the other:   *)
(* the pages a host allows, which crawlers count in one record             *)
(* (RecordRevision), and the places of the render proxy (RenderGate).      *)
(***************************************************************************)
EXTENDS RecordRevision, RenderGate

VARIABLE part    \* which limit is gone through

SharedInit == part \in {"pages", "places"} /\ Init /\ GateInit

SharedNext ==
    \/ part = "pages" /\ Next /\ UNCHANGED <<gateVars, part>>
    \/ part = "places" /\ GateNext /\ UNCHANGED <<vars, part>>

SharedSpec == SharedInit /\ [][SharedNext]_<<vars, gateVars, part>> /\ GateFairness
=============================================================================
