----------------------------- MODULE ProcessCases -----------------------------
(***************************************************************************)
(* The lives of the processes: the node's entrypoint and the agent whose   *)
(* lease it runs under (EnvironmentLease), and every program from its      *)
(* settings to its exit (ServiceLife), gone through one after the other.   *)
(***************************************************************************)
EXTENDS EnvironmentLease, ServiceLife

VARIABLE part    \* whose life is gone through

ProcessesInit ==
    /\ part \in {"lease", "life"}
    /\ Init
    /\ LifeInit /\ (part = "lease" => program = "renderproxy")

ProcessesNext ==
    \/ part = "lease" /\ Next /\ UNCHANGED <<lifeVars, part>>
    \/ part = "life" /\ LifeNext /\ UNCHANGED <<vars, part>>

ProcessesSpec ==
    /\ ProcessesInit /\ [][ProcessesNext]_<<vars, lifeVars, part>>
    /\ part = "lease" => Fairness
    /\ part = "life" => LifeFairness

(***************************************************************************)
(* Where agent and node are gone through, they come to rest                *)
(* (EnvironmentLease: ComesToRest).                                        *)
(***************************************************************************)
LeaseComesToRest == part = "lease" => ComesToRest
=============================================================================
