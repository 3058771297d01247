----------------------------- MODULE ChildIpc -----------------------------
(***************************************************************************)
(* The message channel between a running subagent and its parent: the      *)
(* child's ChildMessenger (agents-messaging.ts) and the runner's half of   *)
(* the same conversation (agents-runner.ts: receiveChildMessage, reply,    *)
(* expireQuery, acknowledge, sendReply, closeIpc).                         *)
(*                                                                         *)
(* A notification is answered by an acknowledgement, a query by the reply  *)
(* of the parent's model or by an error.  Each side runs its own timer for *)
(* a query, so either may give up first; each side sees the channel go     *)
(* down at a time of its own; and the callback that confirms a send may be *)
(* late, fail or never come.                                               *)
(*                                                                         *)
(* The channel keeps a set of frames per direction.  Node's channel is     *)
(* FIFO: as an identifier has at most one frame in each direction, the     *)
(* only thing a set adds is that frames of different identifiers overtake  *)
(* each other, and the properties hold even so.                            *)
(***************************************************************************)
EXTENDS Naturals, FiniteSets

CONSTANTS
  Note,                 \* correlations n1, n2, ... the child may use
  Query,                \* correlations q1, q2, ... the child may use
  MaxNotes,             \* CHILD_MESSAGE_MAX_INFLIGHT
  MaxQueries            \* CHILD_QUERY_MAX_INFLIGHT

ASSUME IpcAssumption ==
  /\ IsFiniteSet(Note) /\ IsFiniteSet(Query)
  /\ Note \cap Query = {}
  /\ MaxNotes \in Nat \ {0}
  /\ MaxQueries \in Nat \ {0}

Id == Note \cup Query

VARIABLES
  promise,              \* child: the promise notify() or query() returned
  messenger,            \* child: ChildMessenger.closed
  up,                   \* identifiers of the frames on their way to the parent
  down,                 \* acknowledgements and replies on their way to the child
  link,                 \* the IPC channel
  query,                \* parent: live.queries
  caller,               \* parent: the reply() that took the query, live.replies
  acked,                \* parent: live.acknowledgedIpcIds
  ipc,                  \* parent: live.ipcClosed
  admitted,             \* how often a hook accepted the message (observer)
  frames                \* how many reply frames a query was sent (observer)

childVars == <<promise, messenger>>
parentVars == <<query, caller, acked, ipc>>
childIpcVars == <<childVars, up, down, link, parentVars, admitted, frames>>

\* How a child promise ends: resolved, or rejected by the parent's error frame,
\* by the child's timer, or because the channel failed.
Settlement == {"resolved", "refused", "expired", "failed"}
QueryVerdict == {"accept", "error"}

ChildInit ==
  /\ promise = [i \in Id |-> "unused"]
  /\ messenger = "open"
  /\ up = {}
  /\ down = {}
  /\ link = "up"
  /\ query = [q \in Query |-> "absent"]
  /\ caller = [q \in Query |-> "none"]
  /\ acked = {}
  /\ ipc = "open"
  /\ admitted = [i \in Id |-> 0]
  /\ frames = [q \in Query |-> 0]

----------------------------------------------------------------------------
(***************************************************************************)
(* The child.                                                              *)
(***************************************************************************)

\* ChildMessenger.settle: the first settlement of a promise wins.
SettlePromise(i, outcome) ==
  promise' = [promise EXCEPT ![i] = IF @ = "pending" THEN outcome ELSE @]

PendingIn(S) == {i \in S : promise[i] = "pending"}

\* available(), the in-flight limit and a fresh correlation.
MayAsk(i) ==
  /\ messenger = "open" /\ link = "up"
  /\ promise[i] = "unused"
  /\ i \in Note => Cardinality(PendingIn(Note)) < MaxNotes
  /\ i \in Query => Cardinality(PendingIn(Query)) < MaxQueries

\* notify() and query(): the promise and its timer exist before the send.
Ask(i) ==
  /\ MayAsk(i)
  /\ promise' = [promise EXCEPT ![i] = "pending"]
  /\ up' = up \cup {i}
  /\ UNCHANGED <<messenger, down, link, parentVars, admitted, frames>>

\* The send throws: the promise is rejected and no frame leaves.
AskThrows(i) ==
  /\ MayAsk(i)
  /\ promise' = [promise EXCEPT ![i] = "failed"]
  /\ UNCHANGED <<messenger, up, down, link, parentVars, admitted, frames>>

\* The send callback reports an error.
SendFails(i) ==
  /\ link = "down"
  /\ promise[i] = "pending"
  /\ SettlePromise(i, "failed")
  /\ UNCHANGED <<messenger, up, down, link, parentVars, admitted, frames>>

\* The child's own timer.
PromiseExpires(i) ==
  /\ promise[i] = "pending"
  /\ SettlePromise(i, "expired")
  /\ UNCHANGED <<messenger, up, down, link, parentVars, admitted, frames>>

\* The fault of taking any frame of the parent for an acceptance.
ChildReceive_Fault(f) ==
  /\ f \in down
  /\ down' = down \ {f}
  /\ SettlePromise(f.id, "resolved")
  /\ UNCHANGED <<messenger, up, link, parentVars, admitted, frames>>

\* ChildMessenger.receive
ChildReceive(f) ==
  /\ f \in down
  /\ down' = down \ {f}
  /\ SettlePromise(f.id, IF f.verdict = "accept" THEN "resolved" ELSE "refused")
  /\ UNCHANGED <<messenger, up, link, parentVars, admitted, frames>>

\* close(), on the disconnect event or when available() notices first.
ChildClose ==
  /\ link = "down" /\ messenger = "open"
  /\ messenger' = "closed"
  /\ promise' = [i \in Id |-> IF promise[i] = "pending" THEN "failed" ELSE promise[i]]
  /\ UNCHANGED <<up, down, link, parentVars, admitted, frames>>

----------------------------------------------------------------------------
(***************************************************************************)
(* The parent.                                                             *)
(***************************************************************************)

\* child.send: a frame handed to a broken channel is lost.
SendDown(i, verdict) ==
  down' = IF link = "up" THEN down \cup {[id |-> i, verdict |-> verdict]} ELSE down

\* A reply frame for q, counted when it leaves.
SendReplyFrame(q, verdict) ==
  /\ SendDown(q, verdict)
  /\ frames' = [frames EXCEPT ![q] = IF link = "up" THEN @ + 1 ELSE @]

Arrive(i) == i \in up /\ up' = up \ {i}

\* ipcClosed: a late frame is dropped.
ReceiveClosed(i) ==
  /\ ipc = "closed"
  /\ Arrive(i)
  /\ UNCHANGED <<childVars, down, link, parentVars, admitted, frames>>

(***************************************************************************)
(* A notification: the hook accepts it, or refuses it (another session is  *)
(* open, or the host throws); one acknowledgement either way.              *)
(***************************************************************************)
ReceiveNote(n, verdict) ==
  /\ ipc = "open" /\ n \notin acked
  /\ Arrive(n)
  /\ acked' = acked \cup {n}
  /\ admitted' = [admitted EXCEPT ![n] = IF verdict = "accept" THEN @ + 1 ELSE @]
  /\ SendDown(n, verdict)
  /\ UNCHANGED <<childVars, link, query, caller, ipc, frames>>

Open == {q \in Query : query[q] # "absent"}

\* A query the hook accepts: its timer runs until it is replied to.
AdmitQuery(q) ==
  /\ ipc = "open" /\ query[q] = "absent"
  /\ Cardinality(Open) < MaxQueries
  /\ Arrive(q)
  /\ query' = [query EXCEPT ![q] = "open"]
  /\ admitted' = [admitted EXCEPT ![q] = @ + 1]
  /\ UNCHANGED <<childVars, down, link, caller, acked, ipc, frames>>

\* Too many open queries, or the hook refuses or throws: an error frame.
RefuseQuery(q) ==
  /\ ipc = "open" /\ query[q] = "absent"
  /\ Arrive(q)
  /\ SendReplyFrame(q, "error")
  /\ UNCHANGED <<childVars, link, parentVars, admitted>>

(***************************************************************************)
(* reply(): the first call for an open query takes it and sends.  A second *)
(* call, or one for a query that is gone, returns false and changes        *)
(* nothing.                                                                *)
(***************************************************************************)
Reply(q) ==
  /\ query[q] = "open"
  /\ query' = [query EXCEPT ![q] = "replying"]
  /\ caller' = [caller EXCEPT ![q] = "waiting"]
  /\ SendReplyFrame(q, "accept")
  /\ UNCHANGED <<childVars, up, link, acked, ipc, admitted>>

\* The send throws, or there is no channel: reply() returns false at once.
ReplyThrows(q) ==
  /\ query[q] = "open"
  /\ query' = [query EXCEPT ![q] = "absent"]
  /\ caller' = [caller EXCEPT ![q] = "refused"]
  /\ UNCHANGED <<childVars, up, down, link, acked, ipc, admitted, frames>>

\* The send callback: settleReply, then reply() drops the query and its timer.
ReplySent(q) ==
  /\ caller[q] = "waiting"
  /\ frames[q] > 0
  /\ caller' = [caller EXCEPT ![q] = "accepted"]
  /\ query' = [query EXCEPT ![q] = "absent"]
  /\ UNCHANGED <<childVars, up, down, link, acked, ipc, admitted, frames>>

ReplyFails(q) ==
  /\ caller[q] = "waiting"
  /\ link = "down"
  /\ caller' = [caller EXCEPT ![q] = "refused"]
  /\ query' = [query EXCEPT ![q] = "absent"]
  /\ UNCHANGED <<childVars, up, down, link, acked, ipc, admitted, frames>>

(***************************************************************************)
(* expireQuery, the parent's timer: an unanswered query is refused; a      *)
(* reply still being sent is given up without a second frame.              *)
(***************************************************************************)
ExpireQuery(q) ==
  /\ query[q] # "absent"
  /\ query' = [query EXCEPT ![q] = "absent"]
  /\ IF query[q] = "replying"
     THEN /\ caller' = [caller EXCEPT ![q] = "refused"]
          /\ UNCHANGED <<down, frames>>
     ELSE SendReplyFrame(q, "error") /\ UNCHANGED caller
  /\ UNCHANGED <<childVars, up, link, acked, ipc, admitted>>

(***************************************************************************)
(* closeIpc: on the channel's disconnect event, when the task is stopped   *)
(* or cancelled, on a child error and on exit.  The table is emptied, its  *)
(* timers cancelled, waiting replies refused and the channel disconnected. *)
(***************************************************************************)
CloseIpc ==
  /\ ipc = "open"
  /\ ipc' = "closed"
  /\ query' = [q \in Query |-> "absent"]
  /\ caller' = [q \in Query |-> IF caller[q] = "waiting" THEN "refused" ELSE caller[q]]
  /\ link' = "down"
  /\ UNCHANGED <<childVars, up, down, acked, admitted, frames>>

\* The child exits or the channel breaks under both ends.
LinkBreaks ==
  /\ link = "up"
  /\ link' = "down"
  /\ UNCHANGED <<childVars, up, down, parentVars, admitted, frames>>

----------------------------------------------------------------------------
ChildStep ==
  \/ \E i \in Id : Ask(i) \/ AskThrows(i) \/ SendFails(i) \/ PromiseExpires(i)
  \/ \E f \in down : ChildReceive(f)
  \/ ChildClose

ParentStep ==
  \/ \E i \in Id : ReceiveClosed(i)
  \/ \E n \in Note : \E v \in QueryVerdict : ReceiveNote(n, v)
  \/ \E q \in Query : AdmitQuery(q) \/ RefuseQuery(q) \/ ExpireQuery(q)
  \/ \E q \in Query : Reply(q) \/ ReplyThrows(q) \/ ReplySent(q) \/ ReplyFails(q)
  \/ CloseIpc

ChildNext == ChildStep \/ ParentStep \/ LinkBreaks

ChildSpec == ChildInit /\ [][ChildNext]_childIpcVars

----------------------------------------------------------------------------
ChildTypeOK ==
  /\ promise \in [Id -> {"unused", "pending"} \cup Settlement]
  /\ messenger \in {"open", "closed"}
  /\ up \subseteq Id
  /\ down \subseteq [id : Id, verdict : QueryVerdict]
  /\ link \in {"up", "down"}
  /\ query \in [Query -> {"absent", "open", "replying"}]
  /\ caller \in [Query -> {"none", "waiting", "accepted", "refused"}]
  /\ acked \subseteq Note
  /\ ipc \in {"open", "closed"}
  /\ admitted \in [Id -> Nat]
  /\ frames \in [Query -> Nat]

(***************************************************************************)
(* Both ends agree.  A child promise resolves only if the parent's hook    *)
(* took that very message, once, and for a query only if a reply() call    *)
(* answered it; an error frame reaches the child only if no reply() call   *)
(* for that query ever reported that its answer was sent.                  *)
(***************************************************************************)
EndsAgree ==
  /\ \A i \in Id : promise[i] = "resolved" => admitted[i] = 1
  /\ \A q \in Query :
       /\ promise[q] = "resolved" => caller[q] # "none"
       /\ promise[q] = "refused" => caller[q] = "none"

(***************************************************************************)
(* A query gets at most one reply frame, whichever of the reply, the       *)
(* parent's timer, a refusal and the closing of the channel come first.    *)
(***************************************************************************)
OneReplyFrame == \A q \in Query : frames[q] <= 1

(***************************************************************************)
(* A closed channel holds nothing: no query keeps a timer and no reply()   *)
(* call is left waiting for a callback that will not come.                 *)
(***************************************************************************)
ClosedHoldsNothing ==
  ipc = "closed" => \A q \in Query : query[q] = "absent" /\ caller[q] # "waiting"

(***************************************************************************)
(* The parent holds at most MaxQueries open queries, also when the child   *)
(* has given up on some of them and asks again.                            *)
(***************************************************************************)
OpenBound == Cardinality(Open) <= MaxQueries

=============================================================================
