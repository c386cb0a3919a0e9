--------------------------- MODULE OperatorCases ---------------------------
(***************************************************************************)
(* Parts of the system that know nothing of each other, gone through one   *)
(* family after the other: the replica window and its offers               *)
(* (WindowCases), the search of the posting index (SearchCases), the       *)
(* transactions of the vault (VaultEngine), what peers say to each other   *)
(* (WireForms), and the settings of the programs (ServiceConfiguration).   *)
(***************************************************************************)
EXTENDS WindowCases, SearchCases, VaultEngine, WireForms, ServiceConfiguration

VARIABLE family    \* the part whose cases are gone through

caseVars == <<vars, searchVars, vaultVars, wireVars, configurationVars, family>>

\* While the cases of one family are gone through the others rest at one.
CasesInit ==
    /\ family \in {"window", "search", "vault", "wire", "configuration"}
    /\ Init /\ (family # "window" => posting = CHOOSE p \in Posting : TRUE)
    /\ SearchInit
    /\ family # "search" =>
          (criteria = CHOOSE c \in Requests : TRUE) /\ (cap = CHOOSE n \in Caps : TRUE)
    /\ VaultInit /\ (family # "vault" => engine = "pebble")
    /\ IF family = "wire" THEN WireInit ELSE WireRests
    /\ IF family = "configuration" THEN ConfigurationInit ELSE ConfigurationRests

WindowChanges ==
    /\ family = "window" /\ Next
    /\ UNCHANGED <<searchVars, vaultVars, wireVars, configurationVars, family>>

SearchChanges ==
    /\ family = "search" /\ IndexChanges
    /\ UNCHANGED <<vars, vaultVars, wireVars, configurationVars, family>>

VaultChanges ==
    /\ family = "vault" /\ VaultNext
    /\ UNCHANGED <<vars, searchVars, wireVars, configurationVars, family>>

WireChanges ==
    /\ family = "wire" /\ WireNext
    /\ UNCHANGED <<vars, searchVars, vaultVars, configurationVars, family>>

ConfigurationChanges ==
    /\ family = "configuration" /\ ConfigurationNext
    /\ UNCHANGED <<vars, searchVars, vaultVars, wireVars, family>>

CasesNext ==
    \/ WindowChanges \/ SearchChanges \/ VaultChanges \/ WireChanges
    \/ ConfigurationChanges

CasesSpec == CasesInit /\ [][CasesNext]_caseVars
=============================================================================
