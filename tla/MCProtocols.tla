---------------------------- MODULE MCProtocols ----------------------------
(***************************************************************************)
(* Instance for TLC of the small protocols: a child's messages to its      *)
(* parent, the Windows transport and its helper process, a child's         *)
(* requests for a standing permission, the presence files that other       *)
(* windows read, and the requests that take a review through its phases.   *)
(* They share no state, so they are checked side by side: Init picks the   *)
(* one that runs, and the others keep one initial state.                   *)
(***************************************************************************)
EXTENDS ChildIpc, WindowsTransport, PresencePublisher, PermissionIpc, ReviewPolicy

VARIABLE part  \* the protocol that runs

MCCounts == [c \in Content |-> c]

ProtocolsInit ==
  /\ part \in {"child", "windows", "presence", "permission", "review"}
  /\ ChildInit /\ WindowsInit /\ PresenceInit /\ IpcInit /\ Init
  /\ part # "permission" => ~permitted
  \* The review that stays put has no budget to end (the premise of ReviewEnds).
  /\ part # "review" => lenses = 0 /\ budget = OrdinaryBudget(0, 0, 1, 0) /\ tree = CHOOSE t \in Tree : TRUE

ProtocolsNext ==
  /\ UNCHANGED part
  /\ \/ part = "child" /\ ChildNext /\ UNCHANGED <<windowsVars, presenceVars, ipcVars, vars>>
     \/ part = "windows" /\ WindowsNext /\ UNCHANGED <<childIpcVars, presenceVars, ipcVars, vars>>
     \/ part = "presence" /\ PresenceNext /\ UNCHANGED <<childIpcVars, windowsVars, ipcVars, vars>>
     \/ part = "permission" /\ IpcNext
        /\ UNCHANGED <<childIpcVars, windowsVars, presenceVars, vars>>
     \/ part = "review" /\ Next
        /\ UNCHANGED <<childIpcVars, windowsVars, presenceVars, ipcVars>>

Runs(p, action) == part = p /\ action

ProtocolsSpec ==
  /\ ProtocolsInit
  /\ [][ProtocolsNext]_<<part, childIpcVars, windowsVars, presenceVars, ipcVars, vars>>
  /\ \A q \in Query : WF_childIpcVars(Runs("child", ExpireQuery(q)))
  /\ \A r \in {"stop", "unlisten", "shutdown"} : WF_windowsVars(Runs("windows", Answered(r)))
  /\ WF_windowsVars(Runs("windows", StopReturned))
  /\ WF_windowsVars(Runs("windows", HostClose))
  /\ WF_windowsVars(Runs("windows", HostCloseReleases))
  /\ WF_windowsVars(Runs("windows", CloseSettled))
  /\ WF_windowsVars(Runs("windows", GraceOver))
  /\ WF_windowsVars(Runs("windows", CleanupFails))
  /\ WF_presenceVars(Runs("presence", Flush))
  /\ WF_presenceVars(Runs("presence", PublishHeader))
  /\ WF_vars(Runs("review", Next))
=============================================================================
