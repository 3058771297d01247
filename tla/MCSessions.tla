----------------------------- MODULE MCSessions -----------------------------
(***************************************************************************)
(* Instance for TLC of what sessions send each other: the transport of     *)
(* parent messages, the exchange of frames on a Windows pipe, and the      *)
(* delivery of subagent answers to the parent conversation.  They share no *)
(* state, so they are checked side by side: Init picks the one that runs,  *)
(* and the others keep one initial state.  The window starts its session   *)
(* twice, so an activation may still be closing when the next one begins.  *)
(***************************************************************************)
EXTENDS SessionTransport, CompletionDelivery, FrameExchange, TLC

VARIABLE part  \* the component that runs

MCSessionOf == <<"s1", "s2">>
MCFrameOf == (<<"a", "b">> :> "accepted") @@ (<<"b">> :> "refused") @@ (<<"a">> :> "foreign")

SessionsInit ==
  /\ part \in {"transport", "completion", "frame"}
  /\ TransportInit /\ Init /\ ExchangeInit

Keep(component, values) == IF part = component THEN TRUE ELSE UNCHANGED values

SessionsNext ==
  /\ UNCHANGED part
  /\ Keep("transport", transportVars)
  /\ Keep("completion", vars)
  /\ Keep("frame", exchangeVars)
  /\ \/ part = "transport" /\ TransportNext
     \/ part = "completion" /\ Next
     \/ part = "frame" /\ ExchangeNext

\* The other components keep their initial state, so the variables of the one that runs tell states apart.
PartView ==
  CASE part = "transport" -> <<part, transportVars>>
    [] part = "completion" -> <<part, vars>>
    [] OTHER -> <<part, exchangeVars>>

Runs(p, action) == part = p /\ action

SessionsSpec ==
  /\ SessionsInit
  /\ [][SessionsNext]_<<part, transportVars, vars, exchangeVars>>
  /\ WF_vars(Runs("completion", AgentEnd))
  /\ \A t \in Task : WF_vars(Runs("completion", ToolReturns(t)))
=============================================================================
