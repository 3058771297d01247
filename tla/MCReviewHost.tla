---------------------------- MODULE MCReviewHost ----------------------------
(***************************************************************************)
(* Instance for TLC of the review host: starting a native review with its  *)
(* consent, the candidate views behind it, capturing reviewer results, the *)
(* maintenance operations, and the decoding of what the provider answers.  *)
(* They share no state, so they are checked side by side: Init picks the   *)
(* one that runs, and the others keep one initial state.                   *)
(***************************************************************************)
EXTENDS ReviewConsent, ReviewMaintenance, ReviewContract

CONSTANT Parts  \* the components this run takes

VARIABLE part  \* the component that runs

\* Sessions and views are only compared; so are the hosts and the identities, which have the same values, so
\* that one permutation serves every part.
Symmetry == Permutations(Session) \cup Permutations(Token)

HostInit == /\ part \in Parts
            /\ ViewsInit /\ ConsentInit /\ CaptureInit /\ MaintenanceInit /\ ContractInit
            /\ part # "views" => live = CHOOSE c \in Candidate : TRUE
            /\ part # "consent" => content = CHOOSE c \in Candidate : TRUE
            /\ part # "capture" => closing = CHOOSE c \in Closing : TRUE
            /\ part # "maintenance" => lineage.state = "open"

Keep(component, values) == IF part = component THEN TRUE ELSE UNCHANGED values

HostNext ==
  /\ UNCHANGED part
  /\ Keep("views", viewsVars)
  /\ Keep("consent", consentAllVars)
  /\ Keep("capture", captureVars)
  /\ Keep("maintenance", maintenanceVars)
  /\ Keep("contract", contractVars)
  /\ \/ part = "views" /\ ViewsNext
     \/ part = "consent" /\ ConsentNext
     \/ part = "capture" /\ CaptureNext
     \/ part = "maintenance" /\ MaintenanceNext
     \/ part = "contract" /\ ContractNext

\* The other components keep their initial state, so the variables of the one that runs tell states apart.
PartView ==
  CASE part = "views" -> <<part, viewsVars>>
    [] part = "consent" -> <<part, consentAllVars>>
    [] part = "capture" -> <<part, captureVars>>
    [] part = "maintenance" -> <<part, maintenanceVars>>
    [] OTHER -> <<part, contractVars>>

HostSpec == HostInit /\ [][HostNext]_<<part, viewsVars, consentAllVars, captureVars, maintenanceVars, contractVars>>
=============================================================================
