--------------------------- MODULE PermissionIpc ---------------------------
(***************************************************************************)
(* The standing permission across a process boundary                       *)
(* (lib/review-session-standing-permission-ipc.ts): a child task asks over *)
(* its inherited pipe whether its parent's session allows reviews of the   *)
(* repository now.  The broker of the parent and the client of the child   *)
(* exchange frames through the two directions of the pipe; the client      *)
(* gives up after a time, or when its write reports back-pressure although *)
(* the frame is delivered.  The extension of the child may be reloaded,    *)
(* and its instances share the one client.                                 *)
(***************************************************************************)
EXTENDS Naturals, Sequences

CONSTANTS
  MaxRequests,  \* requests a broker lets through to authorize (16 in the code)
  MaxAsks,      \* requests the child makes
  MaxPermissionChanges,   \* grants and revocations in the parent
  Owners        \* instances of the child's extension

ASSUME PermissionAssumption == MaxRequests \in Nat /\ MaxAsks \in Nat /\ Owners \in Nat \ {0}

VARIABLES
  permitted,  \* the parent session has the permission for the repository
  permissionChanges,    \* grants and revocations so far
  broker,     \* [closed, accepted] of the parent's end
  client,     \* [closed, nextId, pending] of the child's end
  toParent,   \* request ids in the pipe
  toChild,    \* responses in the pipe
  owner,      \* the instance that may close the client, 0 for none
  instances,  \* instances of the extension so far
  since,      \* ghost: the permission was held since the pending request
  granted     \* ghost: [value, justified] of the last settled request

ipcVars == <<permitted, permissionChanges, broker, client, toParent, toChild, owner, instances, since, granted>>
pipeVars == <<toParent, toChild>>
leaseVars == <<owner, instances>>

IpcInit ==
  /\ permitted \in BOOLEAN /\ permissionChanges = 0
  /\ broker = [closed |-> FALSE, accepted |-> 0]
  /\ client = [closed |-> FALSE, nextId |-> 0, pending |-> 0]
  /\ toParent = <<>> /\ toChild = <<>>
  /\ owner = 1 /\ instances = 1 /\ since = FALSE
  /\ granted = [value |-> FALSE, justified |-> FALSE]

\* The pending request is answered with value.
Settle(value) ==
  /\ client' = [client EXCEPT !.pending = 0]
  /\ granted' = [value |-> value, justified |-> since]

\* requestAuthorization(): one at a time; a write that reports back-pressure
\* fails the request at once, and its frame is delivered all the same.
RequestAuthorization ==
  /\ ~client.closed /\ client.pending = 0 /\ client.nextId < MaxAsks
  /\ LET id == client.nextId + 1 IN
     /\ toParent' = Append(toParent, id)
     /\ \E accepted \in BOOLEAN :
          client' = [client EXCEPT !.nextId = id, !.pending = IF accepted THEN id ELSE 0]
  /\ since' = permitted
  /\ UNCHANGED <<permitted, permissionChanges, broker, toChild, leaseVars, granted>>

\* The timer of the pending request: failPending().
RequestTimeout ==
  /\ client.pending # 0 /\ Settle(FALSE)
  /\ UNCHANGED <<permitted, permissionChanges, broker, pipeVars, leaseVars, since>>

\* The broker reads a request.  The authorize closure is evaluated now, for
\* every request again; past the limit the answer is a refusal.
BrokerReads ==
  /\ toParent # <<>> /\ toParent' = Tail(toParent)
  /\ IF broker.closed THEN UNCHANGED <<broker, toChild>>
     ELSE LET over == broker.accepted >= MaxRequests
          IN /\ broker' = IF over THEN broker ELSE [broker EXCEPT !.accepted = @ + 1]
             /\ toChild' = Append(toChild, [id |-> Head(toParent), granted |-> ~over /\ permitted])
  /\ UNCHANGED <<permitted, permissionChanges, client, leaseVars, since, granted>>

\* The client takes the response of its pending request and of no other.
ClientReads_AnyId ==
  /\ toChild # <<>> /\ toChild' = Tail(toChild)
  /\ IF client.closed \/ client.pending = 0 THEN UNCHANGED <<client, granted>>
     ELSE Settle(Head(toChild).granted)
  /\ UNCHANGED <<permitted, permissionChanges, broker, toParent, leaseVars, since>>

ClientReads ==
  /\ toChild # <<>> /\ toChild' = Tail(toChild)
  /\ IF client.closed \/ client.pending = 0 \/ Head(toChild).id # client.pending
     THEN UNCHANGED <<client, granted>>
     ELSE Settle(Head(toChild).granted)
  /\ UNCHANGED <<permitted, permissionChanges, broker, toParent, leaseVars, since>>

\* The task ends or the pipe fails: either end closes for good, and the
\* client fails what is pending.
BrokerCloses ==
  /\ ~broker.closed /\ broker' = [broker EXCEPT !.closed = TRUE]
  /\ UNCHANGED <<permitted, permissionChanges, client, pipeVars, leaseVars, since, granted>>

CloseClient ==
  /\ client' = [client EXCEPT !.closed = TRUE, !.pending = 0]
  /\ granted' = IF client.pending = 0 THEN granted ELSE [value |-> FALSE, justified |-> since]

PipeEnds ==
  /\ broker.closed /\ ~client.closed /\ CloseClient
  /\ UNCHANGED <<permitted, permissionChanges, broker, pipeVars, leaseVars, since>>

\* A reloaded extension takes the lease of the shared client over.
AcquireLease ==
  /\ ~client.closed /\ instances < Owners
  /\ instances' = instances + 1 /\ owner' = instances + 1
  /\ UNCHANGED <<permitted, permissionChanges, broker, client, pipeVars, since, granted>>

\* session_shutdown of instance i: only the owner of the lease closes.
ReleaseLease(i) ==
  /\ i <= instances /\ owner = i /\ ~client.closed
  /\ owner' = 0 /\ CloseClient
  /\ UNCHANGED <<permitted, permissionChanges, broker, pipeVars, instances, since>>

\* The user of the parent grants or revokes.
PermissionChanges ==
  /\ permissionChanges < MaxPermissionChanges /\ permissionChanges' = permissionChanges + 1
  /\ permitted' = ~permitted /\ since' = (since \/ permitted')
  /\ UNCHANGED <<broker, client, pipeVars, leaseVars, granted>>

IpcNext ==
  \/ RequestAuthorization \/ RequestTimeout \/ BrokerReads \/ ClientReads
  \/ BrokerCloses \/ PipeEnds \/ AcquireLease \/ PermissionChanges
  \/ \E i \in 1..Owners : ReleaseLease(i)

\* Node delivers what is in the pipe, and the timer of a request fires.
IpcFairness == WF_ipcVars(RequestTimeout) /\ WF_ipcVars(BrokerReads) /\ WF_ipcVars(ClientReads)

IpcSpec == IpcInit /\ [][IpcNext]_ipcVars /\ IpcFairness

-----------------------------------------------------------------------------
(* Properties.                                                             *)

\* A child replays a consent binding as granted only if its parent had the
\* permission at some moment after that very request was made: the answer of
\* a request that timed out, or that was failed by back-pressure, never
\* serves a later one after a revocation.
GrantIsOfThisRequest == granted.value => granted.justified

=============================================================================
