---------------------------- MODULE ProtocolProofs ----------------------------
(***************************************************************************)
(* Proofs about the protocols between processes, for any number of messages, *)
(* sessions and contents: the messages of a child and its parent (ChildIpc), *)
(* the standing permission (PermissionIpc), the published presence         *)
(* (PresencePublisher) and the socket transport (SessionTransport).  The   *)
(* inductive invariant of ChildIpc follows one identifier through its life: *)
(* fresh while unused or on its way up, then answered by at most one frame *)
(* whose verdict fits what the parent did.                                 *)
(***************************************************************************)
EXTENDS ChildIpc, PermissionIpc, PresencePublisher, SessionTransport, FiniteSetTheorems, TLAPS

-----------------------------------------------------------------------------
(* Messages of a child.                                                    *)

\* The parent has done nothing about i yet, and no frame for i exists.
Fresh(i) ==
  /\ admitted[i] = 0
  /\ i \notin acked
  /\ \A f \in down : f.id # i
  /\ i \in Query => query[i] = "absent" /\ caller[i] = "none" /\ frames[i] = 0

\* An identifier is fresh until its frame arrives.
Arrivals ==
  /\ \A i \in Id : promise[i] = "unused" => i \notin up /\ Fresh(i)
  /\ \A i \in up : Fresh(i) /\ promise[i] \notin {"unused", "resolved", "refused"}

\* What the parent's table says about a query.
Table ==
  \A q \in Query :
    /\ query[q] = "open" => admitted[q] = 1 /\ frames[q] = 0 /\ caller[q] = "none"
    /\ query[q] = "replying" => caller[q] = "waiting" /\ admitted[q] = 1
    /\ caller[q] = "waiting" => query[q] = "replying"
    /\ frames[q] <= 1

\* What a frame on its way down, or received, says about the parent.
Answers ==
  /\ \A f \in down :
       /\ f.verdict = "accept" => admitted[f.id] = 1
       /\ f.id \in Query /\ f.verdict = "accept" => caller[f.id] # "none"
       /\ f.id \in Query /\ f.verdict = "error" => caller[f.id] = "none" /\ query[f.id] = "absent"
  /\ \A i \in Id : promise[i] = "resolved" => admitted[i] = 1
  /\ \A q \in Query :
       /\ promise[q] = "resolved" => caller[q] # "none"
       /\ promise[q] = "refused" => caller[q] = "none" /\ query[q] = "absent"

IpcInv ==
  /\ ChildTypeOK
  /\ Arrivals
  /\ Table
  /\ Answers
  /\ ClosedHoldsNothing
  /\ OpenBound

(***************************************************************************)
(* Every step keeps the types.                                             *)
(***************************************************************************)
LEMMA TypeStep ==
  ASSUME IpcInv, [ChildNext]_childIpcVars
  PROVE  ChildTypeOK'
<1> USE IpcAssumption DEF IpcAssumption
<1>1. ASSUME NEW i \in Id, Ask(i)
      PROVE  ChildTypeOK'
  BY <1>1 DEF IpcInv, Ask, MayAsk, ChildTypeOK, Id, Settlement, QueryVerdict, childVars, parentVars
<1>2. ASSUME NEW i \in Id, AskThrows(i)
      PROVE  ChildTypeOK'
  BY <1>2 DEF IpcInv, AskThrows, MayAsk, ChildTypeOK, Id, Settlement, QueryVerdict, childVars, parentVars
<1>3. ASSUME NEW i \in Id, SendFails(i)
      PROVE  ChildTypeOK'
  BY <1>3 DEF IpcInv, SendFails, SettlePromise, ChildTypeOK, Id, Settlement, QueryVerdict, childVars, parentVars
<1>4. ASSUME NEW i \in Id, PromiseExpires(i)
      PROVE  ChildTypeOK'
  BY <1>4 DEF IpcInv, PromiseExpires, SettlePromise, ChildTypeOK, Id, Settlement, QueryVerdict, childVars, parentVars
<1>5. ASSUME NEW f \in down, ChildReceive(f)
      PROVE  ChildTypeOK'
  BY <1>5 DEF IpcInv, ChildReceive, SettlePromise, ChildTypeOK, Id, Settlement, QueryVerdict, childVars, parentVars
<1>6. CASE ChildClose
  BY <1>6 DEF IpcInv, ChildClose, ChildTypeOK, Id, Settlement, QueryVerdict, childVars, parentVars
<1>7. ASSUME NEW i \in Id, ReceiveClosed(i)
      PROVE  ChildTypeOK'
  BY <1>7 DEF IpcInv, ReceiveClosed, Arrive, ChildTypeOK, Id, Settlement, QueryVerdict, childVars, parentVars
<1>8. ASSUME NEW n \in Note, NEW v \in QueryVerdict, ReceiveNote(n, v)
      PROVE  ChildTypeOK'
  BY <1>8 DEF IpcInv, ReceiveNote, Arrive, SendDown, ChildTypeOK, Id, Settlement, QueryVerdict, childVars, parentVars
<1>9. ASSUME NEW q \in Query, AdmitQuery(q)
      PROVE  ChildTypeOK'
  BY <1>9 DEF IpcInv, AdmitQuery, Arrive, ChildTypeOK, Id, Settlement, QueryVerdict, childVars, parentVars
<1>10. ASSUME NEW q \in Query, RefuseQuery(q)
      PROVE  ChildTypeOK'
  BY <1>10 DEF IpcInv, RefuseQuery, Arrive, SendReplyFrame, SendDown, ChildTypeOK, Id, Settlement, QueryVerdict, childVars, parentVars
<1>11. ASSUME NEW q \in Query, ExpireQuery(q)
      PROVE  ChildTypeOK'
  BY <1>11 DEF IpcInv, ExpireQuery, SendReplyFrame, SendDown, ChildTypeOK, Id, Settlement, QueryVerdict, childVars, parentVars
<1>12. ASSUME NEW q \in Query, Reply(q)
      PROVE  ChildTypeOK'
  BY <1>12 DEF IpcInv, Reply, SendReplyFrame, SendDown, ChildTypeOK, Id, Settlement, QueryVerdict, childVars, parentVars
<1>13. ASSUME NEW q \in Query, ReplyThrows(q)
      PROVE  ChildTypeOK'
  BY <1>13 DEF IpcInv, ReplyThrows, ChildTypeOK, Id, Settlement, QueryVerdict, childVars, parentVars
<1>14. ASSUME NEW q \in Query, ReplySent(q)
      PROVE  ChildTypeOK'
  BY <1>14 DEF IpcInv, ReplySent, ChildTypeOK, Id, Settlement, QueryVerdict, childVars, parentVars
<1>15. ASSUME NEW q \in Query, ReplyFails(q)
      PROVE  ChildTypeOK'
  BY <1>15 DEF IpcInv, ReplyFails, ChildTypeOK, Id, Settlement, QueryVerdict, childVars, parentVars
<1>16. CASE CloseIpc
  BY <1>16 DEF IpcInv, CloseIpc, ChildTypeOK, Id, Settlement, QueryVerdict, childVars, parentVars
<1>17. CASE LinkBreaks
  BY <1>17 DEF IpcInv, LinkBreaks, ChildTypeOK, Id, Settlement, QueryVerdict, childVars, parentVars
<1>18. CASE UNCHANGED childIpcVars
  BY <1>18 DEF IpcInv, childIpcVars, childVars, parentVars, ChildTypeOK, Id, Settlement, QueryVerdict, childVars, parentVars
<1> QED
  BY <1>1, <1>2, <1>3, <1>4, <1>5, <1>6, <1>7, <1>8, <1>9, <1>10, <1>11, <1>12, <1>13, <1>14, <1>15, <1>16, <1>17, <1>18 DEF ChildNext, ChildStep, ParentStep

(***************************************************************************)
(* Every step keeps unused and travelling identifiers fresh.               *)
(***************************************************************************)
LEMMA ArrivalsStep ==
  ASSUME IpcInv, [ChildNext]_childIpcVars
  PROVE  Arrivals'
<1> USE IpcAssumption DEF IpcAssumption
<1>1. ASSUME NEW i \in Id, Ask(i)
      PROVE  Arrivals'
  BY <1>1 DEF IpcInv, Ask, MayAsk, Arrivals, Fresh, ChildTypeOK, Id, childVars, parentVars, Table
<1>2. ASSUME NEW i \in Id, AskThrows(i)
      PROVE  Arrivals'
  BY <1>2 DEF IpcInv, AskThrows, MayAsk, Arrivals, Fresh, ChildTypeOK, Id, childVars, parentVars, Table
<1>3. ASSUME NEW i \in Id, SendFails(i)
      PROVE  Arrivals'
  BY <1>3 DEF IpcInv, SendFails, SettlePromise, Arrivals, Fresh, ChildTypeOK, Id, childVars, parentVars, Table
<1>4. ASSUME NEW i \in Id, PromiseExpires(i)
      PROVE  Arrivals'
  BY <1>4 DEF IpcInv, PromiseExpires, SettlePromise, Arrivals, Fresh, ChildTypeOK, Id, childVars, parentVars, Table
<1>5. ASSUME NEW f \in down, ChildReceive(f)
      PROVE  Arrivals'
  BY <1>5 DEF IpcInv, ChildReceive, SettlePromise, Arrivals, Fresh, ChildTypeOK, Id, childVars, parentVars, Table
<1>6. CASE ChildClose
  BY <1>6 DEF IpcInv, ChildClose, Arrivals, Fresh, ChildTypeOK, Id, childVars, parentVars, Table
<1>7. ASSUME NEW i \in Id, ReceiveClosed(i)
      PROVE  Arrivals'
  BY <1>7 DEF IpcInv, ReceiveClosed, Arrive, Arrivals, Fresh, ChildTypeOK, Id, childVars, parentVars, Table
<1>8. ASSUME NEW n \in Note, NEW v \in QueryVerdict, ReceiveNote(n, v)
      PROVE  Arrivals'
  BY <1>8 DEF IpcInv, ReceiveNote, Arrive, SendDown, QueryVerdict, Arrivals, Fresh, ChildTypeOK, Id, childVars, parentVars, Table
<1>9. ASSUME NEW q \in Query, AdmitQuery(q)
      PROVE  Arrivals'
  BY <1>9 DEF IpcInv, AdmitQuery, Arrive, Arrivals, Fresh, ChildTypeOK, Id, childVars, parentVars, Table
<1>10. ASSUME NEW q \in Query, RefuseQuery(q)
      PROVE  Arrivals'
  BY <1>10 DEF IpcInv, RefuseQuery, Arrive, SendReplyFrame, SendDown, Arrivals, Fresh, ChildTypeOK, Id, childVars, parentVars, Table
<1>11. ASSUME NEW q \in Query, ExpireQuery(q)
      PROVE  Arrivals'
  BY <1>11 DEF IpcInv, ExpireQuery, SendReplyFrame, SendDown, Arrivals, Fresh, ChildTypeOK, Id, childVars, parentVars, Table
<1>12. ASSUME NEW q \in Query, Reply(q)
      PROVE  Arrivals'
  BY <1>12 DEF IpcInv, Reply, SendReplyFrame, SendDown, Arrivals, Fresh, ChildTypeOK, Id, childVars, parentVars, Table
<1>13. ASSUME NEW q \in Query, ReplyThrows(q)
      PROVE  Arrivals'
  BY <1>13 DEF IpcInv, ReplyThrows, Arrivals, Fresh, ChildTypeOK, Id, childVars, parentVars, Table
<1>14. ASSUME NEW q \in Query, ReplySent(q)
      PROVE  Arrivals'
  BY <1>14 DEF IpcInv, ReplySent, Arrivals, Fresh, ChildTypeOK, Id, childVars, parentVars, Table
<1>15. ASSUME NEW q \in Query, ReplyFails(q)
      PROVE  Arrivals'
  BY <1>15 DEF IpcInv, ReplyFails, Arrivals, Fresh, ChildTypeOK, Id, childVars, parentVars, Table
<1>16. CASE CloseIpc
  BY <1>16 DEF IpcInv, CloseIpc, Arrivals, Fresh, ChildTypeOK, Id, childVars, parentVars, Table
<1>17. CASE LinkBreaks
  BY <1>17 DEF IpcInv, LinkBreaks, Arrivals, Fresh, ChildTypeOK, Id, childVars, parentVars, Table
<1>18. CASE UNCHANGED childIpcVars
  BY <1>18 DEF IpcInv, childIpcVars, childVars, parentVars, Arrivals, Fresh, ChildTypeOK, Id, childVars, parentVars, Table
<1> QED
  BY <1>1, <1>2, <1>3, <1>4, <1>5, <1>6, <1>7, <1>8, <1>9, <1>10, <1>11, <1>12, <1>13, <1>14, <1>15, <1>16, <1>17, <1>18 DEF ChildNext, ChildStep, ParentStep

(***************************************************************************)
(* Every step keeps the parent's table consistent with its observers.      *)
(***************************************************************************)
LEMMA TableStep ==
  ASSUME IpcInv, [ChildNext]_childIpcVars
  PROVE  Table'
<1> USE IpcAssumption DEF IpcAssumption
<1>1. ASSUME NEW i \in Id, Ask(i)
      PROVE  Table'
  BY <1>1 DEF IpcInv, Ask, MayAsk, Table, Arrivals, Fresh, ChildTypeOK, Id, childVars, parentVars
<1>2. ASSUME NEW i \in Id, AskThrows(i)
      PROVE  Table'
  BY <1>2 DEF IpcInv, AskThrows, MayAsk, Table, Arrivals, Fresh, ChildTypeOK, Id, childVars, parentVars
<1>3. ASSUME NEW i \in Id, SendFails(i)
      PROVE  Table'
  BY <1>3 DEF IpcInv, SendFails, SettlePromise, Table, Arrivals, Fresh, ChildTypeOK, Id, childVars, parentVars
<1>4. ASSUME NEW i \in Id, PromiseExpires(i)
      PROVE  Table'
  BY <1>4 DEF IpcInv, PromiseExpires, SettlePromise, Table, Arrivals, Fresh, ChildTypeOK, Id, childVars, parentVars
<1>5. ASSUME NEW f \in down, ChildReceive(f)
      PROVE  Table'
  BY <1>5 DEF IpcInv, ChildReceive, SettlePromise, Table, Arrivals, Fresh, ChildTypeOK, Id, childVars, parentVars
<1>6. CASE ChildClose
  BY <1>6 DEF IpcInv, ChildClose, Table, Arrivals, Fresh, ChildTypeOK, Id, childVars, parentVars
<1>7. ASSUME NEW i \in Id, ReceiveClosed(i)
      PROVE  Table'
  BY <1>7 DEF IpcInv, ReceiveClosed, Arrive, Table, Arrivals, Fresh, ChildTypeOK, Id, childVars, parentVars
<1>8. ASSUME NEW n \in Note, NEW v \in QueryVerdict, ReceiveNote(n, v)
      PROVE  Table'
  BY <1>8 DEF IpcInv, ReceiveNote, Arrive, SendDown, QueryVerdict, Table, Arrivals, Fresh, ChildTypeOK, Id, childVars, parentVars
<1>9. ASSUME NEW q \in Query, AdmitQuery(q)
      PROVE  Table'
  BY <1>9 DEF IpcInv, AdmitQuery, Arrive, Table, Arrivals, Fresh, ChildTypeOK, Id, childVars, parentVars
<1>10. ASSUME NEW q \in Query, RefuseQuery(q)
      PROVE  Table'
  BY <1>10 DEF IpcInv, RefuseQuery, Arrive, SendReplyFrame, SendDown, Table, Arrivals, Fresh, ChildTypeOK, Id, childVars, parentVars
<1>11. ASSUME NEW q \in Query, ExpireQuery(q)
      PROVE  Table'
  BY <1>11 DEF IpcInv, ExpireQuery, SendReplyFrame, SendDown, Table, Arrivals, Fresh, ChildTypeOK, Id, childVars, parentVars
<1>12. ASSUME NEW q \in Query, Reply(q)
      PROVE  Table'
  BY <1>12 DEF IpcInv, Reply, SendReplyFrame, SendDown, Table, Arrivals, Fresh, ChildTypeOK, Id, childVars, parentVars
<1>13. ASSUME NEW q \in Query, ReplyThrows(q)
      PROVE  Table'
  BY <1>13 DEF IpcInv, ReplyThrows, Table, Arrivals, Fresh, ChildTypeOK, Id, childVars, parentVars
<1>14. ASSUME NEW q \in Query, ReplySent(q)
      PROVE  Table'
  BY <1>14 DEF IpcInv, ReplySent, Table, Arrivals, Fresh, ChildTypeOK, Id, childVars, parentVars
<1>15. ASSUME NEW q \in Query, ReplyFails(q)
      PROVE  Table'
  BY <1>15 DEF IpcInv, ReplyFails, Table, Arrivals, Fresh, ChildTypeOK, Id, childVars, parentVars
<1>16. CASE CloseIpc
  BY <1>16 DEF IpcInv, CloseIpc, Table, Arrivals, Fresh, ChildTypeOK, Id, childVars, parentVars
<1>17. CASE LinkBreaks
  BY <1>17 DEF IpcInv, LinkBreaks, Table, Arrivals, Fresh, ChildTypeOK, Id, childVars, parentVars
<1>18. CASE UNCHANGED childIpcVars
  BY <1>18 DEF IpcInv, childIpcVars, childVars, parentVars, Table, Arrivals, Fresh, ChildTypeOK, Id, childVars, parentVars
<1> QED
  BY <1>1, <1>2, <1>3, <1>4, <1>5, <1>6, <1>7, <1>8, <1>9, <1>10, <1>11, <1>12, <1>13, <1>14, <1>15, <1>16, <1>17, <1>18 DEF ChildNext, ChildStep, ParentStep

(***************************************************************************)
(* Every step keeps frames and promises in agreement with the parent.      *)
(***************************************************************************)
LEMMA AnswersStep ==
  ASSUME IpcInv, [ChildNext]_childIpcVars
  PROVE  Answers'
<1> USE IpcAssumption DEF IpcAssumption
<1>1. ASSUME NEW i \in Id, Ask(i)
      PROVE  Answers'
  BY <1>1 DEF IpcInv, Ask, MayAsk, Answers, Arrivals, Fresh, Table, ChildTypeOK, Id, Settlement, QueryVerdict, childVars, parentVars
<1>2. ASSUME NEW i \in Id, AskThrows(i)
      PROVE  Answers'
  BY <1>2 DEF IpcInv, AskThrows, MayAsk, Answers, Arrivals, Fresh, Table, ChildTypeOK, Id, Settlement, QueryVerdict, childVars, parentVars
<1>3. ASSUME NEW i \in Id, SendFails(i)
      PROVE  Answers'
  BY <1>3 DEF IpcInv, SendFails, SettlePromise, Answers, Arrivals, Fresh, Table, ChildTypeOK, Id, Settlement, QueryVerdict, childVars, parentVars
<1>4. ASSUME NEW i \in Id, PromiseExpires(i)
      PROVE  Answers'
  BY <1>4 DEF IpcInv, PromiseExpires, SettlePromise, Answers, Arrivals, Fresh, Table, ChildTypeOK, Id, Settlement, QueryVerdict, childVars, parentVars
<1>5. ASSUME NEW f \in down, ChildReceive(f)
      PROVE  Answers'
  BY <1>5 DEF IpcInv, ChildReceive, SettlePromise, Answers, Arrivals, Fresh, Table, ChildTypeOK, Id, Settlement, QueryVerdict, childVars, parentVars
<1>6. CASE ChildClose
  BY <1>6 DEF IpcInv, ChildClose, Answers, Arrivals, Fresh, Table, ChildTypeOK, Id, Settlement, QueryVerdict, childVars, parentVars
<1>7. ASSUME NEW i \in Id, ReceiveClosed(i)
      PROVE  Answers'
  BY <1>7 DEF IpcInv, ReceiveClosed, Arrive, Answers, Arrivals, Fresh, Table, ChildTypeOK, Id, Settlement, QueryVerdict, childVars, parentVars
<1>8. ASSUME NEW n \in Note, NEW v \in QueryVerdict, ReceiveNote(n, v)
      PROVE  Answers'
  BY <1>8 DEF IpcInv, ReceiveNote, Arrive, SendDown, Answers, Arrivals, Fresh, Table, ChildTypeOK, Id, Settlement, QueryVerdict, childVars, parentVars
<1>9. ASSUME NEW q \in Query, AdmitQuery(q)
      PROVE  Answers'
  BY <1>9 DEF IpcInv, AdmitQuery, Arrive, Answers, Arrivals, Fresh, Table, ChildTypeOK, Id, Settlement, QueryVerdict, childVars, parentVars
<1>10. ASSUME NEW q \in Query, RefuseQuery(q)
      PROVE  Answers'
  BY <1>10 DEF IpcInv, RefuseQuery, Arrive, SendReplyFrame, SendDown, Answers, Arrivals, Fresh, Table, ChildTypeOK, Id, Settlement, QueryVerdict, childVars, parentVars
<1>11. ASSUME NEW q \in Query, ExpireQuery(q)
      PROVE  Answers'
  BY <1>11 DEF IpcInv, ExpireQuery, SendReplyFrame, SendDown, Answers, Arrivals, Fresh, Table, ChildTypeOK, Id, Settlement, QueryVerdict, childVars, parentVars
<1>12. ASSUME NEW q \in Query, Reply(q)
      PROVE  Answers'
  BY <1>12 DEF IpcInv, Reply, SendReplyFrame, SendDown, Answers, Arrivals, Fresh, Table, ChildTypeOK, Id, Settlement, QueryVerdict, childVars, parentVars
<1>13. ASSUME NEW q \in Query, ReplyThrows(q)
      PROVE  Answers'
  BY <1>13 DEF IpcInv, ReplyThrows, Answers, Arrivals, Fresh, Table, ChildTypeOK, Id, Settlement, QueryVerdict, childVars, parentVars
<1>14. ASSUME NEW q \in Query, ReplySent(q)
      PROVE  Answers'
  BY <1>14 DEF IpcInv, ReplySent, Answers, Arrivals, Fresh, Table, ChildTypeOK, Id, Settlement, QueryVerdict, childVars, parentVars
<1>15. ASSUME NEW q \in Query, ReplyFails(q)
      PROVE  Answers'
  BY <1>15 DEF IpcInv, ReplyFails, Answers, Arrivals, Fresh, Table, ChildTypeOK, Id, Settlement, QueryVerdict, childVars, parentVars
<1>16. CASE CloseIpc
  BY <1>16 DEF IpcInv, CloseIpc, Answers, Arrivals, Fresh, Table, ChildTypeOK, Id, Settlement, QueryVerdict, childVars, parentVars
<1>17. CASE LinkBreaks
  BY <1>17 DEF IpcInv, LinkBreaks, Answers, Arrivals, Fresh, Table, ChildTypeOK, Id, Settlement, QueryVerdict, childVars, parentVars
<1>18. CASE UNCHANGED childIpcVars
  BY <1>18 DEF IpcInv, childIpcVars, childVars, parentVars, Answers, Arrivals, Fresh, Table, ChildTypeOK, Id, Settlement, QueryVerdict, childVars, parentVars
<1> QED
  BY <1>1, <1>2, <1>3, <1>4, <1>5, <1>6, <1>7, <1>8, <1>9, <1>10, <1>11, <1>12, <1>13, <1>14, <1>15, <1>16, <1>17, <1>18 DEF ChildNext, ChildStep, ParentStep

(***************************************************************************)
(* Every step leaves a closed channel empty.                               *)
(***************************************************************************)
LEMMA ClosedStep ==
  ASSUME IpcInv, [ChildNext]_childIpcVars
  PROVE  ClosedHoldsNothing'
<1> USE IpcAssumption DEF IpcAssumption
<1>1. ASSUME NEW i \in Id, Ask(i)
      PROVE  ClosedHoldsNothing'
  BY <1>1 DEF IpcInv, Ask, MayAsk, ClosedHoldsNothing, Table, ChildTypeOK, childVars, parentVars
<1>2. ASSUME NEW i \in Id, AskThrows(i)
      PROVE  ClosedHoldsNothing'
  BY <1>2 DEF IpcInv, AskThrows, MayAsk, ClosedHoldsNothing, Table, ChildTypeOK, childVars, parentVars
<1>3. ASSUME NEW i \in Id, SendFails(i)
      PROVE  ClosedHoldsNothing'
  BY <1>3 DEF IpcInv, SendFails, SettlePromise, ClosedHoldsNothing, Table, ChildTypeOK, childVars, parentVars
<1>4. ASSUME NEW i \in Id, PromiseExpires(i)
      PROVE  ClosedHoldsNothing'
  BY <1>4 DEF IpcInv, PromiseExpires, SettlePromise, ClosedHoldsNothing, Table, ChildTypeOK, childVars, parentVars
<1>5. ASSUME NEW f \in down, ChildReceive(f)
      PROVE  ClosedHoldsNothing'
  BY <1>5 DEF IpcInv, ChildReceive, SettlePromise, ClosedHoldsNothing, Table, ChildTypeOK, childVars, parentVars
<1>6. CASE ChildClose
  BY <1>6 DEF IpcInv, ChildClose, ClosedHoldsNothing, Table, ChildTypeOK, childVars, parentVars
<1>7. ASSUME NEW i \in Id, ReceiveClosed(i)
      PROVE  ClosedHoldsNothing'
  BY <1>7 DEF IpcInv, ReceiveClosed, Arrive, ClosedHoldsNothing, Table, ChildTypeOK, childVars, parentVars
<1>8. ASSUME NEW n \in Note, NEW v \in QueryVerdict, ReceiveNote(n, v)
      PROVE  ClosedHoldsNothing'
  BY <1>8 DEF IpcInv, ReceiveNote, Arrive, SendDown, QueryVerdict, ClosedHoldsNothing, Table, ChildTypeOK, childVars, parentVars
<1>9. ASSUME NEW q \in Query, AdmitQuery(q)
      PROVE  ClosedHoldsNothing'
  BY <1>9 DEF IpcInv, AdmitQuery, Arrive, ClosedHoldsNothing, Table, ChildTypeOK, childVars, parentVars
<1>10. ASSUME NEW q \in Query, RefuseQuery(q)
      PROVE  ClosedHoldsNothing'
  BY <1>10 DEF IpcInv, RefuseQuery, Arrive, SendReplyFrame, SendDown, ClosedHoldsNothing, Table, ChildTypeOK, childVars, parentVars
<1>11. ASSUME NEW q \in Query, ExpireQuery(q)
      PROVE  ClosedHoldsNothing'
  BY <1>11 DEF IpcInv, ExpireQuery, SendReplyFrame, SendDown, ClosedHoldsNothing, Table, ChildTypeOK, childVars, parentVars
<1>12. ASSUME NEW q \in Query, Reply(q)
      PROVE  ClosedHoldsNothing'
  BY <1>12 DEF IpcInv, Reply, SendReplyFrame, SendDown, ClosedHoldsNothing, Table, ChildTypeOK, childVars, parentVars
<1>13. ASSUME NEW q \in Query, ReplyThrows(q)
      PROVE  ClosedHoldsNothing'
  BY <1>13 DEF IpcInv, ReplyThrows, ClosedHoldsNothing, Table, ChildTypeOK, childVars, parentVars
<1>14. ASSUME NEW q \in Query, ReplySent(q)
      PROVE  ClosedHoldsNothing'
  BY <1>14 DEF IpcInv, ReplySent, ClosedHoldsNothing, Table, ChildTypeOK, childVars, parentVars
<1>15. ASSUME NEW q \in Query, ReplyFails(q)
      PROVE  ClosedHoldsNothing'
  BY <1>15 DEF IpcInv, ReplyFails, ClosedHoldsNothing, Table, ChildTypeOK, childVars, parentVars
<1>16. CASE CloseIpc
  BY <1>16 DEF IpcInv, CloseIpc, ClosedHoldsNothing, Table, ChildTypeOK, childVars, parentVars
<1>17. CASE LinkBreaks
  BY <1>17 DEF IpcInv, LinkBreaks, ClosedHoldsNothing, Table, ChildTypeOK, childVars, parentVars
<1>18. CASE UNCHANGED childIpcVars
  BY <1>18 DEF IpcInv, childIpcVars, childVars, parentVars, ClosedHoldsNothing, Table, ChildTypeOK, childVars, parentVars
<1> QED
  BY <1>1, <1>2, <1>3, <1>4, <1>5, <1>6, <1>7, <1>8, <1>9, <1>10, <1>11, <1>12, <1>13, <1>14, <1>15, <1>16, <1>17, <1>18 DEF ChildNext, ChildStep, ParentStep

(***************************************************************************)
(* The set of open queries is finite.                                      *)
(***************************************************************************)
LEMMA OpenFinite == IsFiniteSet(Open) /\ Cardinality(Open) \in Nat
BY IpcAssumption, FS_Subset, FS_CardinalityType DEF IpcAssumption, Open

(***************************************************************************)
(* Only AdmitQuery opens a query, and only below the limit.                *)
(***************************************************************************)
LEMMA OpenStep ==
  ASSUME IpcInv, [ChildNext]_childIpcVars
  PROVE  OpenBound'
<1>1. ASSUME NEW q \in Query, AdmitQuery(q)
      PROVE  OpenBound'
  <2>1. Open' = Open \cup {q} /\ q \notin Open
    BY <1>1 DEF AdmitQuery, Open, IpcInv, ChildTypeOK
  <2>2. Cardinality(Open \cup {q}) = Cardinality(Open) + 1
    BY <2>1, OpenFinite, FS_AddElement
  <2>3. Cardinality(Open) < MaxQueries
    BY <1>1 DEF AdmitQuery
  <2> QED
    BY <2>1, <2>2, <2>3, OpenFinite, IpcAssumption DEF OpenBound, IpcAssumption
<1>2. ASSUME Open' \subseteq Open
      PROVE  OpenBound'
  <2>1. Cardinality(Open') <= Cardinality(Open) /\ Cardinality(Open') \in Nat
    BY <1>2, OpenFinite, FS_Subset, FS_CardinalityType
  <2> QED
    BY <2>1, OpenFinite, IpcAssumption DEF IpcInv, OpenBound, IpcAssumption
<1>3. ASSUME NEW q \in Query, ExpireQuery(q) \/ Reply(q) \/ ReplyThrows(q) \/ ReplySent(q) \/ ReplyFails(q)
      PROVE  Open' \subseteq Open
  BY <1>3 DEF ExpireQuery, Reply, ReplyThrows, ReplySent, ReplyFails, Open, IpcInv, ChildTypeOK, Table
<1>4. CASE CloseIpc
  BY <1>2, <1>4 DEF CloseIpc, Open
<1>5. ASSUME UNCHANGED query
      PROVE  OpenBound'
  BY <1>2, <1>5 DEF Open
<1>6. CASE ChildStep \/ LinkBreaks \/ UNCHANGED childIpcVars
  BY <1>5, <1>6 DEF ChildStep, Ask, AskThrows, SendFails, PromiseExpires, ChildReceive, ChildClose,
                    LinkBreaks, childIpcVars, parentVars
<1>7. ASSUME NEW i \in Id, ReceiveClosed(i)
      PROVE  OpenBound'
  BY <1>5, <1>7 DEF ReceiveClosed, parentVars
<1>8. ASSUME NEW n \in Note, NEW v \in QueryVerdict, ReceiveNote(n, v)
      PROVE  OpenBound'
  BY <1>5, <1>8 DEF ReceiveNote
<1>9. ASSUME NEW q \in Query, RefuseQuery(q)
      PROVE  OpenBound'
  BY <1>5, <1>9 DEF RefuseQuery, parentVars
<1> QED
  BY <1>1, <1>2, <1>3, <1>4, <1>6, <1>7, <1>8, <1>9 DEF ChildNext, ParentStep

(***************************************************************************)
(* The initial state satisfies the invariant: nothing was asked, nothing   *)
(* is open.                                                                *)
(***************************************************************************)
LEMMA IpcInvInit == ChildInit => IpcInv
<1> SUFFICES ASSUME ChildInit PROVE IpcInv
  OBVIOUS
<1>1. ChildTypeOK
  BY DEF ChildInit, ChildTypeOK, Id
<1>2. Arrivals /\ Table /\ Answers /\ ClosedHoldsNothing
  BY DEF ChildInit, Arrivals, Fresh, Table, Answers, ClosedHoldsNothing, Id
<1>3. Open = {}
  BY DEF ChildInit, Open
<1>4. OpenBound
  BY <1>3, FS_EmptySet, IpcAssumption DEF OpenBound, IpcAssumption
<1> QED
  BY <1>1, <1>2, <1>4 DEF IpcInv

(***************************************************************************)
(* The invariant holds throughout, for every set of messages and every     *)
(* pair of in-flight limits.                                               *)
(***************************************************************************)
THEOREM IpcInvariance == ChildSpec => []IpcInv
<1>1. IpcInv /\ [ChildNext]_childIpcVars => IpcInv'
  BY TypeStep, ArrivalsStep, TableStep, AnswersStep, ClosedStep, OpenStep DEF IpcInv
<1> QED
  BY IpcInvInit, <1>1, PTL DEF ChildSpec

(***************************************************************************)
(* The state of both ends and of the channel is always well formed.        *)
(***************************************************************************)
THEOREM IpcTypeCorrect == ChildSpec => []ChildTypeOK
<1>1. IpcInv => ChildTypeOK
  BY DEF IpcInv
<1> QED
  BY IpcInvariance, <1>1, PTL

(***************************************************************************)
(* Child and parent never disagree about a message: the child's promise    *)
(* resolves only for what the parent took and answered.                    *)
(***************************************************************************)
THEOREM EndsAlwaysAgree == ChildSpec => []EndsAgree
<1>1. IpcInv => EndsAgree
  BY DEF IpcInv, Answers, EndsAgree
<1> QED
  BY IpcInvariance, <1>1, PTL

(***************************************************************************)
(* Reply, timeout, refusal and close never put two reply frames on the     *)
(* channel for one query.                                                  *)
(***************************************************************************)
THEOREM SingleReplyFrame == ChildSpec => []OneReplyFrame
<1>1. IpcInv => OneReplyFrame
  BY DEF IpcInv, Table, OneReplyFrame
<1> QED
  BY IpcInvariance, <1>1, PTL

(***************************************************************************)
(* closeIpc leaves no query and no waiting reply() behind.                 *)
(***************************************************************************)
THEOREM ClosedIsEmpty == ChildSpec => []ClosedHoldsNothing
<1>1. IpcInv => ClosedHoldsNothing
  BY DEF IpcInv
<1> QED
  BY IpcInvariance, <1>1, PTL

(***************************************************************************)
(* The parent's table of open queries never exceeds its limit.             *)
(***************************************************************************)
THEOREM OpenQueriesBounded == ChildSpec => []OpenBound
<1>1. IpcInv => OpenBound
  BY DEF IpcInv
<1> QED
  BY IpcInvariance, <1>1, PTL

-----------------------------------------------------------------------------
(* The standing permission.                                                *)

Response == [id : Nat, granted : BOOLEAN]
Client == [closed : BOOLEAN, nextId : Nat, pending : Nat]

PermissionTypeOK ==
  /\ permitted \in BOOLEAN /\ since \in BOOLEAN
  /\ broker \in [closed : BOOLEAN, accepted : Nat]
  /\ client \in Client
  /\ toParent \in Seq(Nat)
  /\ toChild \in Seq(Response)
  /\ granted \in [value : BOOLEAN, justified : BOOLEAN]

\* The permission of now counts for the request that was made last.
LastIsSince == client.nextId > 0 /\ permitted => since

\* Only requests that were made are in the pipe, and only the last one waits.
FramesMade ==
  /\ \A i \in DOMAIN toParent : toParent[i] \in 1..client.nextId
  /\ \A i \in DOMAIN toChild : toChild[i].id \in 1..client.nextId
  /\ client.pending \in {0, client.nextId}

\* A grant on its way that answers the last request is one of its time.
GrantsOfLast ==
  \A i \in DOMAIN toChild :
    toChild[i].granted /\ toChild[i].id = client.nextId => since

PermissionInv ==
  /\ PermissionTypeOK /\ LastIsSince /\ FramesMade /\ GrantsOfLast
  /\ GrantIsOfThisRequest

\* No request, no frame and no verdict exists at the start.
LEMMA PermissionInitially == IpcInit => PermissionInv
<1> SUFFICES ASSUME IpcInit PROVE PermissionInv
  OBVIOUS
<1>0. toParent \in Seq(Nat) /\ toChild \in Seq(Response)
  BY DEF IpcInit
<1>1. PermissionTypeOK
  BY <1>0 DEF IpcInit, PermissionTypeOK, Client
<1>2. LastIsSince
  BY DEF IpcInit, LastIsSince
<1>4. DOMAIN toParent = {} /\ DOMAIN toChild = {} /\ client.pending = 0
  BY DEF IpcInit
<1>5. FramesMade /\ GrantsOfLast
  BY <1>4 DEF FramesMade, GrantsOfLast
<1>3. GrantIsOfThisRequest
  BY DEF IpcInit, GrantIsOfThisRequest
<1> QED
  BY <1>1, <1>2, <1>3, <1>5 DEF PermissionInv

\* A settled request is well typed and justified when its value is.
LEMMA Verdict ==
  ASSUME NEW v \in BOOLEAN, NEW j \in BOOLEAN, v => j
  PROVE  /\ [value |-> v, justified |-> j] \in [value : BOOLEAN, justified : BOOLEAN]
         /\ [value |-> v, justified |-> j].value => [value |-> v, justified |-> j].justified
OBVIOUS

\* What the client makes of the rest, when it settles with v or not at all.
LEMMA SettledKeeps ==
  ASSUME PermissionInv,
         client' \in Client, client'.nextId = client.nextId,
         client'.pending \in {0, client.pending},
         \/ granted' = granted
         \/ \E v \in BOOLEAN : (v => since) /\ granted' = [value |-> v, justified |-> since],
         \/ toChild' = toChild
         \/ toChild # <<>> /\ toChild' = Tail(toChild),
         UNCHANGED <<toParent, since, permitted, broker>>
  PROVE  PermissionInv'
<1>t. PermissionTypeOK
  BY DEF PermissionInv
<1>0. granted' \in [value : BOOLEAN, justified : BOOLEAN] /\ GrantIsOfThisRequest'
  <2>1. CASE granted' = granted
    BY <2>1 DEF PermissionInv, PermissionTypeOK, GrantIsOfThisRequest
  <2>2. CASE \E v \in BOOLEAN : (v => since) /\ granted' = [value |-> v, justified |-> since]
    <3>1. PICK v \in BOOLEAN : (v => since) /\ granted' = [value |-> v, justified |-> since]
      BY <2>2
    <3> QED
      BY <3>1, <1>t, Verdict DEF PermissionTypeOK, GrantIsOfThisRequest
  <2> QED
    BY <2>1, <2>2
<1>a. toChild' \in Seq(Response)
  <2>1. toChild \in Seq(Response)
    BY <1>t DEF PermissionTypeOK
  <2>2. toChild # <<>> => Tail(toChild) \in Seq(Response)
    BY <2>1
  <2> QED
    BY <2>1, <2>2
<1>1. PermissionTypeOK'
  BY <1>t, <1>0, <1>a DEF PermissionTypeOK
<1>2. LastIsSince'
  BY DEF PermissionInv, LastIsSince
<1>3. \A i \in DOMAIN toChild' : \E j \in DOMAIN toChild : toChild'[i] = toChild[j]
  <2>1. CASE toChild # <<>> /\ toChild' = Tail(toChild)
    <3>1. \A i \in DOMAIN toChild' : i + 1 \in DOMAIN toChild /\ toChild'[i] = toChild[i + 1]
      BY <1>t, <2>1 DEF PermissionTypeOK
    <3> QED
      BY <3>1
  <2> QED
    BY <2>1
<1>4. FramesMade' /\ GrantsOfLast'
  BY <1>t, <1>3 DEF PermissionInv, FramesMade, GrantsOfLast, PermissionTypeOK, Client
<1> QED
  BY <1>0, <1>1, <1>2, <1>4 DEF PermissionInv

\* Every request, frame, answer, timeout, revocation and close keeps it.
LEMMA PermissionStep == PermissionInv /\ [IpcNext]_ipcVars => PermissionInv'
<1> SUFFICES ASSUME PermissionInv, [IpcNext]_ipcVars
             PROVE  PermissionInv'
  OBVIOUS
<1>t. PermissionTypeOK
  BY DEF PermissionInv
<1>1. CASE RequestAuthorization
  <2>1. PICK accepted \in BOOLEAN :
          client' = [client EXCEPT !.nextId = client.nextId + 1, !.pending = IF accepted THEN client.nextId + 1 ELSE 0]
    BY <1>1 DEF RequestAuthorization
  <2>2. /\ client'.nextId = client.nextId + 1 /\ client'.pending \in {0, client.nextId + 1}
        /\ client' \in Client
    <3>1. PICK n \in {0, client.nextId + 1} : client' = [client EXCEPT !.nextId = client.nextId + 1, !.pending = n]
      <4>1. CASE accepted
        BY <2>1, <4>1
      <4>2. CASE ~accepted
        BY <2>1, <4>2
      <4> QED
        BY <4>1, <4>2
    <3>2. client.nextId \in Nat /\ client.nextId + 1 \in Nat /\ n \in Nat
      BY <1>t, <3>1 DEF PermissionTypeOK, Client
    <3>3. client' \in Client
      BY <1>t, <3>1, <3>2 DEF PermissionTypeOK, Client
    <3>4. client'.nextId = client.nextId + 1 /\ client'.pending = n
      BY <1>t, <3>1 DEF PermissionTypeOK, Client
    <3> QED
      BY <3>1, <3>3, <3>4
  <2>3. PermissionTypeOK'
    BY <1>t, <1>1, <2>2 DEF PermissionTypeOK, RequestAuthorization, leaseVars, Client
  <2>4. LastIsSince'
    BY <1>1 DEF RequestAuthorization, LastIsSince
  <2>5. \A i \in DOMAIN toParent' : toParent'[i] = client.nextId + 1 \/ (i \in DOMAIN toParent /\ toParent'[i] = toParent[i])
    BY <1>t, <1>1 DEF RequestAuthorization, PermissionTypeOK
  <2>6. FramesMade'
    BY <1>t, <1>1, <2>2, <2>5 DEF RequestAuthorization, FramesMade, PermissionInv, PermissionTypeOK, Client
  <2>7. GrantsOfLast'
    BY <1>t, <1>1, <2>2 DEF RequestAuthorization, FramesMade, GrantsOfLast, PermissionInv, PermissionTypeOK, Client
  <2> QED
    BY <1>1, <2>3, <2>4, <2>6, <2>7 DEF RequestAuthorization, PermissionInv, GrantIsOfThisRequest
<1>2. CASE RequestTimeout
  <2>1. client' = [client EXCEPT !.pending = 0] /\ granted' = [value |-> FALSE, justified |-> since]
    BY <1>2 DEF RequestTimeout, Settle
  <2>2. client' \in Client /\ client'.nextId = client.nextId /\ client'.pending = 0
    BY <1>t, <2>1 DEF PermissionTypeOK, Client
  <2> QED
    BY <1>2, <2>1, <2>2, SettledKeeps DEF RequestTimeout, pipeVars
<1>3. CASE BrokerReads
  <2>1. CASE broker.closed
    <3>1. \A i \in DOMAIN toParent' : \E j \in DOMAIN toParent : toParent'[i] = toParent[j]
      BY <1>t, <1>3 DEF BrokerReads, PermissionTypeOK
    <3> QED
      BY <1>t, <1>3, <2>1, <3>1
      DEF BrokerReads, leaseVars, PermissionInv, PermissionTypeOK, LastIsSince, FramesMade, GrantsOfLast, GrantIsOfThisRequest
  <2>2. CASE ~broker.closed
    <3>0. PICK b \in BOOLEAN :
             /\ b => permitted
             /\ toChild' = Append(toChild, [id |-> Head(toParent), granted |-> b])
      BY <1>t, <1>3, <2>2 DEF BrokerReads, PermissionTypeOK
    <3> DEFINE reply == [id |-> Head(toParent), granted |-> b]
    <3>1. Head(toParent) \in 1..client.nextId
      BY <1>t, <1>3 DEF BrokerReads, PermissionInv, FramesMade, PermissionTypeOK
    <3>2. reply \in Response
      BY <3>1, <1>t DEF PermissionTypeOK, Client, Response
    <3>3. toChild' = Append(toChild, reply)
      BY <3>0
    <3>4. \A i \in DOMAIN toChild' : toChild'[i] = reply \/ (i \in DOMAIN toChild /\ toChild'[i] = toChild[i])
      BY <1>t, <3>2, <3>3 DEF PermissionTypeOK
    <3>5. \A i \in DOMAIN toParent' : \E j \in DOMAIN toParent : toParent'[i] = toParent[j]
      <4>1. \A i \in DOMAIN toParent' : i + 1 \in DOMAIN toParent /\ toParent'[i] = toParent[i + 1]
        BY <1>t, <1>3 DEF BrokerReads, PermissionTypeOK
      <4> QED
        BY <4>1
    <3>6. PermissionTypeOK'
      <4>1. broker' \in [closed : BOOLEAN, accepted : Nat]
        <5>1. broker' = broker \/ broker' = [broker EXCEPT !.accepted = broker.accepted + 1]
          BY <1>3, <2>2 DEF BrokerReads
        <5>2. broker \in [closed : BOOLEAN, accepted : Nat]
          BY <1>t DEF PermissionTypeOK
        <5>3. [broker EXCEPT !.accepted = broker.accepted + 1] \in [closed : BOOLEAN, accepted : Nat]
          BY <5>2
        <5> QED
          BY <5>1, <5>2, <5>3
      <4> QED
        BY <1>t, <1>3, <3>2, <3>3, <4>1 DEF BrokerReads, PermissionTypeOK, leaseVars
    <3>7. FramesMade'
      BY <1>3, <3>1, <3>4, <3>5 DEF BrokerReads, PermissionInv, FramesMade
    <3>8. GrantsOfLast'
      <4>1. b => since
        BY <1>t, <3>0, <3>1 DEF PermissionInv, LastIsSince, PermissionTypeOK, Client
      <4>2. reply.granted = b
        OBVIOUS
      <4> QED
        BY <1>3, <3>4, <4>1, <4>2 DEF BrokerReads, PermissionInv, GrantsOfLast
    <3> QED
      BY <1>3, <3>6, <3>7, <3>8 DEF BrokerReads, PermissionInv, LastIsSince, GrantIsOfThisRequest, leaseVars
  <2> QED
    BY <2>1, <2>2
<1>4. CASE ClientReads
  <2>1. CASE client.closed \/ client.pending = 0 \/ Head(toChild).id # client.pending
    BY <1>t, <1>4, <2>1, SettledKeeps DEF ClientReads, leaseVars, PermissionTypeOK
  <2>2. CASE ~(client.closed \/ client.pending = 0 \/ Head(toChild).id # client.pending)
    <3>1. 1 \in DOMAIN toChild /\ Head(toChild) = toChild[1]
      BY <1>t, <1>4 DEF ClientReads, PermissionTypeOK
    <3>2. Head(toChild).granted \in BOOLEAN /\ (Head(toChild).granted => since)
      <4>1. toChild[1] \in Response
        BY <1>t, <3>1 DEF PermissionTypeOK
      <4>2. toChild[1].granted \in BOOLEAN
        BY <4>1 DEF Response
      <4>3. toChild[1].id = client.nextId
        BY <1>t, <2>2, <3>1 DEF PermissionInv, FramesMade
      <4>4. toChild[1].granted => since
        BY <3>1, <4>3 DEF PermissionInv, GrantsOfLast
      <4> QED
        BY <3>1, <4>2, <4>4
    <3>3. /\ client' = [client EXCEPT !.pending = 0]
          /\ granted' = [value |-> Head(toChild).granted, justified |-> since]
      BY <1>4, <2>2 DEF ClientReads, Settle
    <3>4. client' \in Client /\ client'.nextId = client.nextId /\ client'.pending = 0
      BY <1>t, <3>3 DEF PermissionTypeOK, Client
    <3> QED
      BY <1>4, <3>2, <3>3, <3>4, SettledKeeps DEF ClientReads
  <2> QED
    BY <2>1, <2>2
<1>5. CASE BrokerCloses
  <2>1. broker' \in [closed : BOOLEAN, accepted : Nat]
    BY <1>t, <1>5 DEF BrokerCloses, PermissionTypeOK
  <2> QED
    BY <1>t, <1>5, <2>1
    DEF BrokerCloses, pipeVars, leaseVars, PermissionInv, PermissionTypeOK, LastIsSince, FramesMade, GrantsOfLast, GrantIsOfThisRequest
<1>6. CASE PipeEnds \/ \E i \in 1..Owners : ReleaseLease(i)
  <2>1. /\ CloseClient /\ UNCHANGED <<permitted, broker, pipeVars, since>>
    BY <1>6 DEF PipeEnds, ReleaseLease
  <2>2. client' \in Client /\ client'.nextId = client.nextId /\ client'.pending = 0
    BY <1>t, <2>1 DEF PermissionTypeOK, Client, CloseClient
  <2>3. granted' = granted \/ granted' = [value |-> FALSE, justified |-> since]
    BY <2>1 DEF CloseClient
  <2> QED
    BY <2>1, <2>2, <2>3, SettledKeeps DEF pipeVars
<1>7. CASE AcquireLease
  BY <1>7
  DEF AcquireLease, pipeVars, PermissionInv, PermissionTypeOK, LastIsSince, FramesMade, GrantsOfLast, GrantIsOfThisRequest
<1>8. CASE PermissionChanges
  <2>1. permitted' \in BOOLEAN /\ since' \in BOOLEAN /\ (permitted' => since') /\ (since => since')
    BY <1>t, <1>8 DEF PermissionChanges, PermissionTypeOK
  <2> QED
    BY <1>8, <2>1
    DEF PermissionChanges, pipeVars, leaseVars, PermissionInv, PermissionTypeOK, LastIsSince, FramesMade, GrantsOfLast, GrantIsOfThisRequest
<1>9. CASE UNCHANGED ipcVars
  BY <1>9
  DEF ipcVars, PermissionInv, PermissionTypeOK, LastIsSince, FramesMade, GrantsOfLast, GrantIsOfThisRequest
<1> QED
  BY <1>1, <1>2, <1>3, <1>4, <1>5, <1>6, <1>7, <1>8, <1>9 DEF IpcNext

\* A child replays a consent binding as granted only if its parent had the
\* permission after that very request was made, for any bound on requests and
\* frames (requestAuthorization and the broker's authorize()).
THEOREM GrantsAnswerTheirRequest == IpcSpec => []GrantIsOfThisRequest
<1>1. PermissionInv => GrantIsOfThisRequest
  BY DEF PermissionInv
<1> QED
  BY PermissionInitially, PermissionStep, <1>1, PTL DEF IpcSpec

-----------------------------------------------------------------------------
(* Presence.                                                               *)

Inc == 1..MaxPublishers
LivePublisher ==
  [state : {"live"}, inc : Inc, pending : Content, published : Content \cup {"none"}, timer : BOOLEAN, gen : Nat]
ActivityFile == [file : {"activity"}, gen : Nat, content : Content]

\* The digest of a header names a content that has the counts of the header.
Describes(h) == h.digest # "null" => \E c \in Content : h.digest = <<h.gen, c>> /\ h.counts = Counts[c]

HeaderFile ==
  {h \in [file : {"header"}, inc : Inc, gen : Nat, counts : {Counts[c] : c \in Content},
          digest : {"null"} \cup (Nat \X Content)] : Describes(h)}
FilesOnDisk == [Inc -> [activity : ActivityFile \cup {NoFile}, header : HeaderFile \cup {NoFile}]]

PresenceTypeOK ==
  /\ publisher \in {Absent} \cup LivePublisher
  /\ tasks \in Content
  /\ incarnations \in Nat
  /\ files \in FilesOnDisk
  /\ picked \in HeaderFile \cup {NoFile}

PresenceInv ==
  /\ PresenceTypeOK
  /\ flushing => Live(publisher)
  /\ ReadMatchesHeader

\* A started publisher is a live one, and a disposed one is not.
LEMMA LiveOrAbsent ==
  /\ ~Live(Absent)
  /\ \A p \in LivePublisher : Live(p)
BY DEF Live, Absent, LivePublisher

\* Writing the activity file leaves files of the two kinds.
LEMMA WithActivityType ==
  ASSUME NEW p \in LivePublisher, NEW fs \in FilesOnDisk
  PROVE  WithActivity(p, fs) \in FilesOnDisk
<1>1. CASE p.pending \in Oversized
  BY <1>1 DEF WithActivity, FilesOnDisk, LivePublisher
<1>2. CASE p.pending \notin Oversized
  <2>1. [file |-> "activity", gen |-> p.gen + 1, content |-> p.pending] \in ActivityFile
    BY DEF ActivityFile, LivePublisher
  <2>2. WithActivity(p, fs) =
          [fs EXCEPT ![p.inc].activity = [file |-> "activity", gen |-> p.gen + 1, content |-> p.pending]]
    BY <1>2 DEF WithActivity
  <2> QED
    BY <2>1, <2>2 DEF FilesOnDisk, LivePublisher
<1> QED
  BY <1>1, <1>2

\* dispose() leaves files of the two kinds.
LEMMA DisposedType ==
  ASSUME NEW p \in {Absent} \cup LivePublisher, NEW fs \in FilesOnDisk
  PROVE  Disposed(p, fs) \in FilesOnDisk
<1>1. CASE Live(p)
  <2>1. p \in LivePublisher
    BY <1>1, LiveOrAbsent
  <2>2. NoFiles \in [activity : ActivityFile \cup {NoFile}, header : HeaderFile \cup {NoFile}]
    BY DEF NoFiles
  <2> QED
    BY <1>1, <2>1, <2>2 DEF Disposed, FilesOnDisk, LivePublisher
<1>2. CASE ~Live(p)
  BY <1>2 DEF Disposed
<1> QED
  BY <1>1, <1>2

\* The header a publisher writes describes the content it counted.
LEMMA HeaderType ==
  ASSUME NEW p \in LivePublisher
  PROVE  HeaderOf(p) \in HeaderFile
<1>1. CASE p.pending \in Oversized
  BY <1>1 DEF HeaderOf, HeaderFile, Describes, LivePublisher
<1>2. CASE p.pending \notin Oversized
  BY <1>2 DEF HeaderOf, HeaderFile, Describes, LivePublisher
<1> QED
  BY <1>1, <1>2

\* update() leaves a live publisher.
LEMMA UpdatedType ==
  ASSUME NEW p \in LivePublisher, NEW next \in Content
  PROVE  Updated(p, next) \in LivePublisher
<1>1. (p.timer \/ next # p.published) \in BOOLEAN
  BY DEF LivePublisher
<1>2. PICK b \in BOOLEAN : b = (p.timer \/ next # p.published)
  BY <1>1
<1>3. Updated(p, next) = p \/ Updated(p, next) = [p EXCEPT !.pending = next, !.timer = b]
  BY <1>2 DEF Updated
<1>4. [p EXCEPT !.pending = next, !.timer = b] \in LivePublisher
  BY DEF LivePublisher
<1> QED
  BY <1>3, <1>4

\* A started publisher is of a new incarnation, with well-formed files.
LEMMA StartedType ==
  ASSUME NEW fs \in FilesOnDisk, incarnations \in Nat, StartPublisher(fs)
  PROVE  /\ publisher' \in LivePublisher
         /\ files' \in FilesOnDisk
         /\ incarnations' \in Nat
<1> DEFINE p == [state |-> "live", inc |-> incarnations + 1, pending |-> Empty,
                 published |-> "none", timer |-> FALSE, gen |-> 0]
<1>1. p \in LivePublisher
  BY PresenceAssumption DEF StartPublisher, LivePublisher, Inc
<1>2. publisher' = p /\ files' = WithActivity(p, fs) /\ incarnations' = incarnations + 1
  BY DEF StartPublisher
<1> HIDE DEF p
<1> QED
  BY <1>1, <1>2, WithActivityType

\* There is no publisher, no file and no answer at the start.
LEMMA PresenceInitially == PresenceInit => PresenceInv
<1> SUFFICES ASSUME PresenceInit PROVE PresenceInv
  OBVIOUS
<1>1. NoFiles \in [activity : ActivityFile \cup {NoFile}, header : HeaderFile \cup {NoFile}]
  BY DEF NoFiles
<1>2. files \in FilesOnDisk
  BY <1>1 DEF PresenceInit, FilesOnDisk, Inc
<1> QED
  BY <1>2, PresenceAssumption DEF PresenceInit, PresenceInv, PresenceTypeOK, ReadMatchesHeader, Nothing

\* A reader that has not read meanwhile keeps what it was given.
LEMMA ReadKept ==
  ASSUME ReadMatchesHeader, UNCHANGED readerVars
  PROVE  ReadMatchesHeader'
BY DEF ReadMatchesHeader, readerVars

\* What readActivity() returns is pinned by the digest of the header.
LEMMA ReadPinned ==
  ASSUME NEW h \in HeaderFile, NEW a, ReadBody(h, a).activity = "read"
  PROVE  Counts[ReadBody(h, a).content] = h.counts
<1>1. CASE h.digest = "null"
  BY <1>1 DEF ReadBody
<1>2. CASE h.digest # "null" /\ a = NoFile
  BY <1>2 DEF ReadBody
<1>3. CASE h.digest # "null" /\ a # NoFile
  <2>1. PICK c \in Content : h.digest = <<h.gen, c>> /\ h.counts = Counts[c]
    BY <1>3 DEF HeaderFile, Describes
  <2>2. CASE a.gen # h.gen
    BY <1>3, <2>2 DEF ReadBody
  <2>3. CASE a.gen = h.gen /\ <<a.gen, a.content>> # h.digest
    BY <1>3, <2>3 DEF ReadBody
  <2>4. CASE a.gen = h.gen /\ <<a.gen, a.content>> = h.digest
    BY <1>3, <2>1, <2>4 DEF ReadBody
  <2> QED
    BY <2>2, <2>3, <2>4
<1> QED
  BY <1>1, <1>2, <1>3

\* Every step of the publisher, the failing disk and the reader keeps it.
LEMMA PresenceStep == PresenceInv /\ [PresenceNext]_presenceVars => PresenceInv'
<1> SUFFICES ASSUME PresenceInv, [PresenceNext]_presenceVars
             PROVE  PresenceInv'
  OBVIOUS
<1>t. PresenceTypeOK /\ ReadMatchesHeader
  BY DEF PresenceInv
<1>p. /\ publisher \in {Absent} \cup LivePublisher /\ tasks \in Content /\ incarnations \in Nat
      /\ files \in FilesOnDisk /\ picked \in HeaderFile \cup {NoFile}
  BY <1>t DEF PresenceTypeOK
<1>a. Empty \in Content
  BY PresenceAssumption
<1>1. CASE PresenceStart
  <2>1. Disposed(publisher, files) \in FilesOnDisk
    BY <1>p, DisposedType
  <2>2. StartPublisher(Disposed(publisher, files)) /\ UNCHANGED readerVars /\ tasks' = Empty
    BY <1>1 DEF PresenceStart
  <2>3. publisher' \in LivePublisher /\ files' \in FilesOnDisk /\ incarnations' \in Nat
    BY <1>p, <2>1, <2>2, StartedType
  <2> QED
    BY <1>t, <1>p, <1>a, <2>2, <2>3, ReadKept, LiveOrAbsent DEF PresenceInv, PresenceTypeOK, Live, readerVars
<1>2. CASE PresenceShutdown
  <2>1. Disposed(publisher, files) \in FilesOnDisk
    BY <1>p, DisposedType
  <2> QED
    BY <1>t, <1>p, <1>2, <2>1, ReadKept DEF PresenceShutdown, PresenceInv, PresenceTypeOK, readerVars
<1>3. ASSUME NEW next \in Content, TaskChange(next) PROVE PresenceInv'
  <2>1. UNCHANGED readerVars /\ tasks' = next /\ ~flushing
    BY <1>3 DEF TaskChange
  <2>2. CASE Live(publisher)
    <3>1. publisher \in LivePublisher
      BY <1>p, <2>2, LiveOrAbsent
    <3>2. publisher' = Updated(publisher, next) /\ UNCHANGED <<flushing, files, incarnations>>
      BY <1>3, <2>2 DEF TaskChange
    <3>3. publisher' \in LivePublisher
      BY <3>1, <3>2, UpdatedType
    <3> QED
      BY <1>t, <1>p, <2>1, <3>2, <3>3, ReadKept DEF PresenceInv, PresenceTypeOK, readerVars
  <2>3. CASE ~Live(publisher)
    <3>1. StartPublisher(files)
      BY <1>3, <2>3 DEF TaskChange
    <3>2. publisher' \in LivePublisher /\ files' \in FilesOnDisk /\ incarnations' \in Nat
      BY <1>p, <3>1, StartedType
    <3> QED
      BY <1>t, <1>p, <2>1, <3>2, ReadKept, LiveOrAbsent DEF PresenceInv, PresenceTypeOK, Live, readerVars
  <2> QED
    BY <2>2, <2>3
<1>4. CASE Flush
  <2>1. publisher \in LivePublisher
    BY <1>p, <1>4, LiveOrAbsent DEF Flush
  <2>2. publisher' = [publisher EXCEPT !.timer = FALSE] /\ UNCHANGED <<tasks, incarnations, picked, answer>>
    BY <1>4 DEF Flush, sourceVars, readerVars
  <2>3. publisher' \in LivePublisher
    BY <2>1, <2>2 DEF LivePublisher
  <2>4. files' \in FilesOnDisk
    BY <1>p, <1>4, <2>1, WithActivityType DEF Flush
  <2>5. Live(publisher')
    BY <2>3, LiveOrAbsent
  <2> QED
    BY <1>t, <1>p, <2>2, <2>3, <2>4, <2>5, ReadKept DEF PresenceInv, PresenceTypeOK, readerVars, Live
<1>5. CASE PublishHeader
  <2>1. publisher \in LivePublisher
    BY <1>p, <1>5, LiveOrAbsent DEF PublishHeader, PresenceInv
  <2>2. UNCHANGED <<tasks, incarnations, picked, answer>> /\ flushing' = FALSE
    BY <1>5 DEF PublishHeader, sourceVars, readerVars
  <2>3. files' \in FilesOnDisk
    <3>1. files' = [files EXCEPT ![publisher.inc].header = HeaderOf(publisher)]
      BY <1>5 DEF PublishHeader
    <3>2. HeaderOf(publisher) \in HeaderFile /\ publisher.inc \in Inc
      BY <2>1, HeaderType DEF LivePublisher
    <3> QED
      BY <1>p, <3>1, <3>2 DEF FilesOnDisk
  <2>4. publisher' \in LivePublisher
    <3> DEFINE p == [publisher EXCEPT !.gen = @ + 1, !.published = publisher.pending]
    <3>1. p \in LivePublisher
      <4>1. publisher.gen + 1 \in Nat /\ publisher.pending \in Content \cup {"none"}
        BY <2>1 DEF LivePublisher
      <4> DEFINE g == publisher.gen + 1
                 c == publisher.pending
      <4>2. g \in Nat /\ c \in Content \cup {"none"} /\ p = [publisher EXCEPT !.gen = g, !.published = c]
        BY <4>1
      <4> HIDE DEF g, c, p
      <4> QED
        BY <2>1, <4>2 DEF LivePublisher
    <3>2. publisher' = IF publisher.gen = 0 THEN Updated(p, tasks) ELSE p
      BY <1>5 DEF PublishHeader
    <3> HIDE DEF p
    <3> QED
      BY <1>p, <3>1, <3>2, UpdatedType
  <2> QED
    BY <1>t, <1>p, <2>2, <2>3, <2>4, ReadKept DEF PresenceInv, PresenceTypeOK, readerVars
<1>6. CASE WriteFails
  <2>1. Disposed(publisher, files) \in FilesOnDisk
    BY <1>p, DisposedType
  <2> QED
    BY <1>t, <1>p, <1>6, <2>1, ReadKept DEF WriteFails, PresenceInv, PresenceTypeOK, sourceVars, readerVars
<1>7. CASE PublisherCrash
  <2>1. /\ publisher' = Absent /\ flushing' = FALSE
        /\ UNCHANGED <<tasks, incarnations, files, picked, answer>>
    BY <1>7 DEF PublisherCrash, readerVars
  <2> QED
    BY <1>t, <1>p, <2>1, ReadKept DEF PresenceInv, PresenceTypeOK, readerVars
<1>8. ASSUME NEW i \in 1..MaxPublishers, Pick(i) PROVE PresenceInv'
  <2>1. picked' \in HeaderFile /\ answer' = Nothing
    BY <1>p, <1>8 DEF Pick, FilesOnDisk, Inc
  <2>2. ReadMatchesHeader'
    BY <2>1 DEF ReadMatchesHeader, Nothing
  <2> QED
    BY <1>p, <1>8, <2>1, <2>2 DEF Pick, PresenceInv, PresenceTypeOK, sourceVars, Live
<1>9. CASE ReadActivity
  <2>1. picked \in HeaderFile /\ picked' = picked /\ answer' = ReadBody(picked, files[picked.inc].activity)
    BY <1>p, <1>9 DEF ReadActivity
  <2>2. ReadMatchesHeader'
    BY <2>1, ReadPinned DEF ReadMatchesHeader
  <2> QED
    BY <1>p, <1>9, <2>1, <2>2 DEF ReadActivity, PresenceInv, PresenceTypeOK, sourceVars, Live
<1>10. CASE UNCHANGED presenceVars
  BY <1>t, <1>p, <1>10, ReadKept DEF presenceVars, sourceVars, readerVars, PresenceInv, PresenceTypeOK, Live
<1> QED
  BY <1>1, <1>2, <1>3, <1>4, <1>5, <1>6, <1>7, <1>8, <1>9, <1>10 DEF PresenceNext

\* What a reader is given belongs to the header it selected, for any contents
\* and any number of publishers, whatever was written or failed between its two
\* reads (readActivity of orchestrator-presence.ts).
THEOREM ReadsMatchTheirHeader == PresenceSpec => []ReadMatchesHeader
<1>1. PresenceInv => ReadMatchesHeader
  BY DEF PresenceInv
<1> QED
  BY PresenceInitially, PresenceStep, <1>1, PTL DEF PresenceSpec

-----------------------------------------------------------------------------
(* The transport: its listeners and records.                               *)

Listener ==
  [state : {"idle", "starting", "accepting", "active", "failed", "closed"},
   step : {"none", "record", "chmod", "publish", "linked", "ok", "unwind", "unwinding", "failed"},
   server : {"none", "listening", "closed"}, tidy : {"none", "bare", "owned", "done"},
   finish : {"none", "cleanup", "startup", "done"}, holds : BOOLEAN]

TransportTypeOK ==
  /\ started \in 0..MaxStarts /\ current \in 0..started /\ active \in 0..started
  /\ startup \in [Activation -> {"none", "registry", "starting", "up", "closing", "over"}]
  /\ closing \subseteq 1..started /\ dead \subseteq 1..started /\ published \subseteq 1..started
  /\ shutdown \in {"no", "waiting", "done"}
  /\ lis \in [Activation -> Listener]

\* finishClose() belongs to a listener that is closed for good; it ends with
\* the startup settled, and it was given the record of a startup that succeeded.
Finishes(l) ==
  /\ l.finish # "none" => l.state \in {"failed", "closed"} /\ l.tidy # "none"
  /\ l.finish \in {"startup", "done"} => l.tidy = "done"
  /\ l.finish = "done" => Settled(l)
  /\ l.finish # "none" /\ l.step = "ok" => l.holds

\* A listener that cleans up has stopped listening, and does not begin again.
Tidies(l) ==
  l.tidy # "none" => /\ l.server # "listening"
                     /\ l.state \in {"failed", "closed"} \/ l.step = "unwinding"

\* A record of this process is one its startup still answers for.
Answering(l) == l.step \in {"linked", "unwind", "unwinding", "ok"} /\ l.finish # "done"

ListenerOK(a) ==
  /\ Finishes(lis[a]) /\ Tidies(lis[a])
  /\ Alive(a) /\ a \in published => Answering(lis[a])

\* What the host knows of a startup is true of its listener, and a startup that
\* goes on, or succeeded, is of the active transport or of a closed one.
StartupOK(a) ==
  /\ startup[a] \in {"none", "registry"} => lis[a] = NewListener
  /\ startup[a] = "over" => lis[a] = NewListener \/ lis[a].finish = "done"
  /\ startup[a] \in {"starting", "up"} => a \in closing \/ active = a
  /\ ~Alive(a) => startup[a] = "none"

HostOK ==
  /\ active # 0 => active = current /\ startup[active] \in {"starting", "up"}
  /\ shutdown # "no" => active = 0 /\ current = 0
  /\ shutdown = "done" => \A a \in Activation : Alive(a) => Quiet(a)

TransportInv ==
  /\ TransportTypeOK
  /\ \A a \in Activation : ListenerOK(a) /\ StartupOK(a)
  /\ HostOK

\* A listener that has not started owes no cleanup.
LEMMA NewListenerType == NewListener \in Listener /\ Finishes(NewListener) /\ Tidies(NewListener)
BY DEF NewListener, Listener, Finishes, Tidies, Settled

\* cleanupTransport() runs once, closes the server and touches nothing else.
LEMMA CleanupIsSound ==
  ASSUME NEW l \in Listener, NEW b \in BOOLEAN
  PROVE  /\ Cleanup(l, b) \in Listener
         /\ l.tidy # "none" => Cleanup(l, b) = l
         /\ l.tidy = "none" => Cleanup(l, b).tidy \in {"owned", "bare"} /\ Cleanup(l, b).server # "listening"
         /\ Cleanup(l, b).state = l.state /\ Cleanup(l, b).step = l.step
         /\ Cleanup(l, b).finish = l.finish /\ Cleanup(l, b).holds = l.holds
<1>1. CASE l.tidy # "none"
  BY <1>1 DEF Cleanup
<1>2. CASE l.tidy = "none"
  <2> DEFINE t == IF b THEN "owned" ELSE "bare"
             v == IF l.server = "listening" THEN "closed" ELSE l.server
  <2>1. Cleanup(l, b) = [l EXCEPT !.tidy = t, !.server = v]
    BY <1>2 DEF Cleanup
  <2>2. t \in {"owned", "bare"} /\ v \in {"none", "closed"}
    BY DEF Listener
  <2> HIDE DEF t, v
  <2> QED
    BY <1>2, <2>1, <2>2 DEF Listener
<1> QED
  BY <1>1, <1>2

\* beginClose() enters the cleanup once, with the record's fate decided.
LEMMA BeginCloseIsSound ==
  ASSUME NEW l \in Listener, NEW b \in BOOLEAN, l.state \in {"failed", "closed"},
         Finishes(l), Tidies(l), l.finish = "none" /\ l.step = "ok" => b
  PROVE  /\ BeginClose(l, b) \in Listener /\ Finishes(BeginClose(l, b)) /\ Tidies(BeginClose(l, b))
         /\ BeginClose(l, b).step = l.step
         /\ l.finish # "none" => BeginClose(l, b) = l
         /\ l.finish = "none" => BeginClose(l, b).finish = "cleanup"
<1>1. CASE l.finish # "none"
  BY <1>1 DEF BeginClose
<1>2. CASE l.finish = "none"
  <2> DEFINE c == Cleanup(l, b)
             k == [c EXCEPT !.finish = "cleanup", !.holds = b]
  <2>1. BeginClose(l, b) = k
    BY <1>2 DEF BeginClose
  <2>2. /\ c \in Listener /\ c.tidy # "none" /\ c.server # "listening"
        /\ c.state = l.state /\ c.step = l.step
    BY CleanupIsSound DEF Tidies
  <2> HIDE DEF c
  <2>3. /\ k \in Listener /\ k.tidy # "none" /\ k.server # "listening" /\ k.state = l.state
        /\ k.step = l.step /\ k.finish = "cleanup" /\ k.holds = b
    <3>1. k \in Listener
      BY <2>2 DEF Listener
    <3>2. k.holds = b
      BY <2>2 DEF Listener
    <3>3. k.tidy = c.tidy /\ k.server = c.server /\ k.state = c.state /\ k.step = c.step /\ k.finish = "cleanup"
      BY <2>2 DEF Listener
    <3> HIDE DEF k
    <3> QED
      BY <2>2, <3>1, <3>2, <3>3
  <2> HIDE DEF k
  <2> QED
    BY <1>2, <2>1, <2>3 DEF Finishes, Tidies
<1> QED
  BY <1>1, <1>2

\* close() is idempotent, and its first call enters the cleanup.
LEMMA CloseIsSound ==
  ASSUME NEW l \in Listener, Finishes(l), Tidies(l)
  PROVE  /\ Close(l) \in Listener /\ Finishes(Close(l)) /\ Tidies(Close(l))
         /\ Close(l).step = l.step
         /\ l.finish # "none" => Close(l) = l
         /\ l.finish = "none" => Close(l).finish = "cleanup"
<1>0. Record(l) \in BOOLEAN /\ (l.step = "ok" => Record(l))
  BY DEF Record
<1>1. CASE l.state \in {"failed", "closed"}
  BY <1>0, <1>1, BeginCloseIsSound DEF Close
<1>2. CASE l.state \notin {"failed", "closed"}
  <2> DEFINE k == [l EXCEPT !.state = "closed"]
  <2>1. /\ k \in Listener /\ k.state = "closed" /\ Finishes(k) /\ Tidies(k)
        /\ k.step = l.step /\ k.finish = l.finish /\ l.finish = "none"
    BY <1>2 DEF Listener, Finishes, Tidies, Settled
  <2>2. Close(l) = BeginClose(k, Record(l))
    BY <1>2 DEF Close
  <2> HIDE DEF k
  <2> QED
    BY <1>0, <2>1, <2>2, BeginCloseIsSound
<1> QED
  BY <1>1, <1>2

\* A listener that fails ends no sooner for it.
LEMMA FailIsSound ==
  ASSUME NEW l \in Listener, Finishes(l), Tidies(l)
  PROVE  /\ FailListener(l) \in Listener /\ Finishes(FailListener(l)) /\ Tidies(FailListener(l))
         /\ FailListener(l).step = l.step
         /\ l.finish = "done" <=> FailListener(l).finish = "done"
<1> DEFINE k == [l EXCEPT !.state = "failed"]
<1>1. /\ k \in Listener /\ k.state = "failed" /\ Finishes(k) /\ Tidies(k)
      /\ k.step = l.step /\ k.finish = l.finish
  BY DEF Listener, Finishes, Tidies, Settled
<1>2. FailListener(l) = BeginClose(k, TRUE)
  BY DEF FailListener
<1> HIDE DEF k
<1>3. /\ BeginClose(k, TRUE) \in Listener /\ Finishes(BeginClose(k, TRUE)) /\ Tidies(BeginClose(k, TRUE))
      /\ BeginClose(k, TRUE).step = k.step
      /\ k.finish # "none" => BeginClose(k, TRUE) = k
      /\ k.finish = "none" => BeginClose(k, TRUE).finish = "cleanup"
  BY <1>1, BeginCloseIsSound
<1> QED
  BY <1>1, <1>2, <1>3

\* One step of the listener of a live activation.
ListenerMoves(a) ==
  /\ Alive(a) /\ lis[a] # NewListener /\ UNCHANGED hostVars
  /\ published' \ {a} = published \ {a}
  /\ \E l \in Listener :
       /\ lis' = [lis EXCEPT ![a] = l]
       /\ Finishes(l) /\ Tidies(l)
       /\ lis[a].finish = "done" => l.finish = "done"
       /\ a \in published' => Answering(l)

\* A step of one listener that stays within its own promises keeps the invariant.
LEMMA ListenerMovesKeep ==
  ASSUME TransportInv, NEW a \in Activation, ListenerMoves(a)
  PROVE  TransportInv'
<1>t. TransportTypeOK
  BY DEF TransportInv
<1>1. PICK l \in Listener :
        /\ lis' = [lis EXCEPT ![a] = l]
        /\ Finishes(l) /\ Tidies(l)
        /\ lis[a].finish = "done" => l.finish = "done"
        /\ a \in published' => Answering(l)
  BY DEF ListenerMoves
<1>2. /\ UNCHANGED <<started, current, active, startup, closing, shutdown, dead>>
      /\ published' \ {a} = published \ {a}
      /\ Alive(a) /\ lis[a] # NewListener
  BY DEF ListenerMoves, hostVars
<1>3. lis'[a] = l /\ \A b \in Activation \ {a} : lis'[b] = lis[b]
  BY <1>t, <1>1 DEF TransportTypeOK
<1>4. \A b \in Activation : Alive(b)' <=> Alive(b)
  BY <1>2 DEF Alive
<1>5. TransportTypeOK'
  <2>1. published' \subseteq 1..started
    <3>1. a \in 1..started
      BY <1>t, <1>2, TransportAssumption DEF TransportTypeOK, Alive, Activation
    <3>2. published \subseteq 1..started
      BY <1>t DEF TransportTypeOK
    <3> QED
      BY <1>2, <3>1, <3>2
  <2> QED
    BY <1>t, <1>1, <1>2, <2>1 DEF TransportTypeOK
<1>6. ASSUME NEW b \in Activation PROVE ListenerOK(b)' /\ StartupOK(b)'
  <2>0. ListenerOK(b) /\ StartupOK(b)
    BY DEF TransportInv
  <2>1. CASE b = a
    BY <1>1, <1>2, <1>3, <1>4, <2>0, <2>1 DEF ListenerOK, StartupOK
  <2>2. CASE b # a
    <3>1. lis'[b] = lis[b] /\ (b \in published' <=> b \in published)
      BY <1>2, <1>3, <2>2
    <3> QED
      BY <1>2, <1>4, <2>0, <3>1 DEF ListenerOK, StartupOK
  <2> QED
    BY <2>1, <2>2
<1>7. HostOK'
  <2>1. ASSUME NEW b \in Activation, Quiet(b) PROVE Quiet(b)'
    BY <1>1, <1>2, <1>3, <2>1 DEF Quiet
  <2> QED
    BY <1>2, <1>4, <2>1 DEF HostOK, TransportInv
<1> QED
  BY <1>5, <1>6, <1>7 DEF TransportInv

\* Every await of start(), close() and the server's error event is such a step.
LEMMA ListenerStepMoves ==
  ASSUME TransportInv, NEW a \in Activation, ListenerStep(a) \/ ServerError(a)
  PROVE  ListenerMoves(a)
<1>t. /\ lis[a] \in Listener /\ Finishes(lis[a]) /\ Tidies(lis[a])
      /\ Alive(a) /\ a \in published => Answering(lis[a])
  BY DEF TransportInv, TransportTypeOK, ListenerOK
<1> DEFINE l == lis[a]
<1>a. l \in Listener /\ Finishes(l) /\ Tidies(l) /\ (Alive(a) /\ a \in published => Answering(l))
  BY <1>t
<1>n. NewListener = [state |-> "idle", step |-> "none", server |-> "none",
                     tidy |-> "none", finish |-> "none", holds |-> FALSE]
  BY DEF NewListener
<1>m. ASSUME NEW k \in Listener, Alive(a), l # NewListener, UNCHANGED hostVars,
             published' \ {a} = published \ {a}, Becomes(a, k), Finishes(k), Tidies(k),
             l.finish = "done" => k.finish = "done",
             a \in published' => Answering(k)
      PROVE  ListenerMoves(a)
  BY <1>m DEF ListenerMoves, Becomes
<1>1. CASE Bind(a)
  <2>1. Alive(a) /\ l.step = "record" /\ UNCHANGED hostVars /\ published' = published
    BY <1>1 DEF Bind, Step
  <2>2. a \notin published /\ l # NewListener /\ l.finish # "done"
    BY <1>a, <2>1 DEF Answering, NewListener, Finishes, Settled
  <2>3. CASE Owns(l) /\ Becomes(a, [l EXCEPT !.step = "chmod", !.server = "listening"])
    <3> DEFINE k == [l EXCEPT !.step = "chmod", !.server = "listening"]
    <3>1. k \in Listener /\ Finishes(k) /\ Tidies(k)
      BY <1>a, <2>1, <2>3 DEF Owns, Listener, Finishes, Tidies, Settled
    <3> QED
      BY <1>m, <2>1, <2>2, <2>3, <3>1
  <2>4. CASE Owns(l) /\ Becomes(a, FailListener([l EXCEPT !.step = "unwind"]))
    <3> DEFINE k == [l EXCEPT !.step = "unwind"]
    <3>1. k \in Listener /\ Finishes(k) /\ Tidies(k) /\ k.finish # "done"
      BY <1>a, <2>1, <2>2 DEF Listener, Finishes, Tidies, Settled
    <3> HIDE DEF k
    <3> QED
      BY <1>m, <2>1, <2>2, <2>4, <3>1, FailIsSound DEF k
  <2>5. CASE Becomes(a, [l EXCEPT !.step = "unwind"])
    <3> DEFINE k == [l EXCEPT !.step = "unwind"]
    <3>1. k \in Listener /\ Finishes(k) /\ Tidies(k) /\ k.finish # "done"
      BY <1>a, <2>1, <2>2 DEF Listener, Finishes, Tidies, Settled
    <3> QED
      BY <1>m, <2>1, <2>2, <2>5, <3>1
  <2> QED
    BY <1>1, <2>3, <2>4, <2>5 DEF Bind
<1>2. CASE Chmod(a)
  <2>1. Alive(a) /\ l.step = "chmod" /\ UNCHANGED hostVars /\ published' = published
    BY <1>2 DEF Chmod, Step
  <2>2. a \notin published /\ l # NewListener /\ l.finish # "done"
    BY <1>a, <2>1 DEF Answering, NewListener, Finishes, Settled
  <2>3. CASE Owns(l) /\ Becomes(a, [l EXCEPT !.step = "publish", !.state = "accepting"])
    <3> DEFINE k == [l EXCEPT !.step = "publish", !.state = "accepting"]
    <3>1. k \in Listener /\ Finishes(k) /\ Tidies(k)
      BY <1>a, <2>1, <2>3 DEF Owns, Listener, Finishes, Tidies, Settled
    <3> QED
      BY <1>m, <2>1, <2>2, <2>3, <3>1
  <2>4. CASE Becomes(a, [l EXCEPT !.step = "unwind"])
    <3> DEFINE k == [l EXCEPT !.step = "unwind"]
    <3>1. k \in Listener /\ Finishes(k) /\ Tidies(k)
      BY <1>a, <2>1, <2>2 DEF Listener, Finishes, Tidies, Settled
    <3> QED
      BY <1>m, <2>1, <2>2, <2>4, <3>1
  <2> QED
    BY <1>2, <2>3, <2>4 DEF Chmod
<1>3. CASE Link(a)
  <2>1. Alive(a) /\ l.step = "publish" /\ UNCHANGED hostVars
    BY <1>3 DEF Link, Step
  <2>2. a \notin published /\ l # NewListener /\ l.finish # "done"
    BY <1>a, <2>1 DEF Answering, NewListener, Finishes, Settled
  <2>3. CASE published' = published \cup {a} /\ Becomes(a, [l EXCEPT !.step = "linked"])
    <3> DEFINE k == [l EXCEPT !.step = "linked"]
    <3>1. k \in Listener /\ Finishes(k) /\ Tidies(k) /\ Answering(k)
      BY <1>a, <2>1, <2>2 DEF Listener, Finishes, Tidies, Settled, Answering
    <3> QED
      BY <1>m, <2>1, <2>2, <2>3, <3>1
  <2>4. CASE published' = published /\ Becomes(a, [l EXCEPT !.step = "unwind"])
    <3> DEFINE k == [l EXCEPT !.step = "unwind"]
    <3>1. k \in Listener /\ Finishes(k) /\ Tidies(k)
      BY <1>a, <2>1, <2>2 DEF Listener, Finishes, Tidies, Settled
    <3> QED
      BY <1>m, <2>1, <2>2, <2>4, <3>1
  <2> QED
    BY <1>3, <2>3, <2>4 DEF Link
<1>4. CASE Linked(a)
  <2>1. Alive(a) /\ l.step = "linked" /\ UNCHANGED hostVars /\ published' = published
    BY <1>4 DEF Linked, Step
  <2>2. l # NewListener /\ l.finish # "done"
    BY <1>a, <2>1 DEF NewListener, Finishes, Settled
  <2>3. CASE Owns(l) /\ Becomes(a, [l EXCEPT !.step = "ok", !.state = "active"])
    <3> DEFINE k == [l EXCEPT !.step = "ok", !.state = "active"]
    <3>1. k \in Listener /\ Finishes(k) /\ Tidies(k) /\ Answering(k)
      BY <1>a, <2>1, <2>2, <2>3 DEF Owns, Listener, Finishes, Tidies, Settled, Answering
    <3> QED
      BY <1>m, <2>1, <2>2, <2>3, <3>1
  <2>4. CASE Becomes(a, [l EXCEPT !.step = "unwind"])
    <3> DEFINE k == [l EXCEPT !.step = "unwind"]
    <3>1. k \in Listener /\ Finishes(k) /\ Tidies(k) /\ Answering(k)
      BY <1>a, <2>1, <2>2 DEF Listener, Finishes, Tidies, Settled, Answering
    <3> QED
      BY <1>m, <2>1, <2>2, <2>4, <3>1
  <2> QED
    BY <1>4, <2>3, <2>4 DEF Linked
<1>5. CASE Unwind(a)
  <2>1. Alive(a) /\ l.step = "unwind" /\ UNCHANGED hostVars /\ published' = published
    BY <1>5 DEF Unwind, Step
  <2>2. l # NewListener /\ l.finish # "done"
    BY <1>a, <2>1 DEF NewListener, Finishes, Settled
  <2> DEFINE k == [Cleanup(l, TRUE) EXCEPT !.step = "unwinding"]
  <2>3. k \in Listener /\ Finishes(k) /\ Tidies(k) /\ Answering(k)
    BY <1>a, <2>1, <2>2 DEF Cleanup, Listener, Finishes, Tidies, Settled, Answering
  <2>4. Becomes(a, k)
    BY <1>5 DEF Unwind
  <2> HIDE DEF k
  <2> QED
    BY <1>m, <2>1, <2>2, <2>3, <2>4
<1>6. CASE Unwound(a)
  <2>1. Alive(a) /\ l.step = "unwinding" /\ l.tidy = "done" /\ UNCHANGED hostVars /\ published' = published \ {a}
    BY <1>6 DEF Unwound, Step
  <2>2. l # NewListener /\ l.finish # "done"
    BY <1>a, <2>1 DEF NewListener, Finishes, Settled
  <2>3. CASE l.state \in {"failed", "closed"}
    <3> DEFINE k == [l EXCEPT !.step = "failed"]
    <3>1. k \in Listener /\ Finishes(k) /\ Tidies(k)
      BY <1>a, <2>1, <2>2, <2>3 DEF Listener, Finishes, Tidies, Settled
    <3>2. Becomes(a, k)
      BY <1>6, <2>3 DEF Unwound
    <3> HIDE DEF k
    <3> QED
      BY <1>m, <2>1, <2>2, <3>1, <3>2
  <2>4. CASE l.state \notin {"failed", "closed"}
    <3> DEFINE k == [l EXCEPT !.step = "failed", !.state = "idle", !.tidy = "none"]
    <3>1. k \in Listener /\ Finishes(k) /\ Tidies(k)
      BY <1>a, <2>1, <2>2, <2>4 DEF Listener, Finishes, Tidies, Settled
    <3>2. Becomes(a, k)
      BY <1>6, <2>4 DEF Unwound
    <3> HIDE DEF k
    <3> QED
      BY <1>m, <2>1, <2>2, <3>1, <3>2
  <2> QED
    BY <2>3, <2>4
<1>7. CASE CleanedUp(a)
  <2>1. /\ Alive(a) /\ l.tidy \in {"bare", "owned"} /\ UNCHANGED hostVars
        /\ published' \in {published, published \ {a}} /\ Becomes(a, [l EXCEPT !.tidy = "done"])
    BY <1>7 DEF CleanedUp
  <2> DEFINE k == [l EXCEPT !.tidy = "done"]
  <2>2. l # NewListener
    BY <2>1 DEF NewListener
  <2>3. k \in Listener /\ Finishes(k) /\ Tidies(k) /\ k.finish = l.finish /\ k.step = l.step
    BY <1>a, <2>1 DEF Listener, Finishes, Tidies, Settled
  <2>4. a \in published' => Answering(k)
    BY <1>a, <2>1, <2>3 DEF Answering
  <2>5. Becomes(a, k)
    BY <2>1
  <2> HIDE DEF k
  <2> QED
    BY <1>m, <2>1, <2>2, <2>3, <2>4, <2>5
<1>8. CASE AwaitStartup(a)
  <2>1. /\ Alive(a) /\ l.finish = "cleanup" /\ l.tidy = "done" /\ UNCHANGED hostVars
        /\ published' = published /\ Becomes(a, [l EXCEPT !.finish = "startup"])
    BY <1>8 DEF AwaitStartup
  <2> DEFINE k == [l EXCEPT !.finish = "startup"]
  <2>2. l # NewListener
    BY <2>1 DEF NewListener
  <2>3. k \in Listener /\ Finishes(k) /\ Tidies(k) /\ k.finish = "startup" /\ k.step = l.step
    BY <1>a, <2>1 DEF Listener, Finishes, Tidies, Settled
  <2>4. a \in published' => Answering(k)
    BY <1>a, <2>1, <2>3 DEF Answering
  <2>5. Becomes(a, k)
    BY <2>1
  <2> HIDE DEF k
  <2> QED
    BY <1>m, <2>1, <2>2, <2>3, <2>4, <2>5
<1>9. CASE Closed(a)
  <2>1. /\ Alive(a) /\ l.finish = "startup" /\ Settled(l) /\ UNCHANGED hostVars
        /\ published' = IF l.holds THEN published \ {a} ELSE published
        /\ Becomes(a, [l EXCEPT !.finish = "done"])
    BY <1>9 DEF Closed
  <2> DEFINE k == [l EXCEPT !.finish = "done"]
  <2>2. l # NewListener
    BY <2>1 DEF NewListener
  <2>3. k \in Listener /\ Finishes(k) /\ Tidies(k)
    BY <1>a, <2>1 DEF Listener, Finishes, Tidies, Settled
  <2>4. a \notin published' /\ published' \ {a} = published \ {a}
    BY <1>a, <2>1 DEF Answering, Finishes, Settled
  <2>5. Becomes(a, k) /\ k.finish = "done"
    BY <1>a, <2>1 DEF Listener
  <2> HIDE DEF k
  <2> QED
    BY <1>m, <2>1, <2>2, <2>3, <2>4, <2>5
<1>10. CASE ServerError(a)
  <2>1. /\ Alive(a) /\ l.server = "listening" /\ UNCHANGED hostVars
        /\ published' = published /\ Becomes(a, FailListener(l))
    BY <1>10 DEF ServerError
  <2>2. l # NewListener
    BY <2>1 DEF NewListener
  <2> DEFINE k == FailListener(l)
  <2>3. k \in Listener /\ Finishes(k) /\ Tidies(k) /\ k.step = l.step /\ (l.finish = "done" <=> k.finish = "done")
    BY <1>a, FailIsSound
  <2>4. a \in published' => Answering(k)
    BY <1>a, <2>1, <2>3 DEF Answering
  <2> HIDE DEF k
  <2> QED
    BY <1>m, <2>1, <2>2, <2>3, <2>4 DEF k
<1> QED
  BY <1>1, <1>2, <1>3, <1>4, <1>5, <1>6, <1>7, <1>8, <1>9, <1>10 DEF ListenerStep

-----------------------------------------------------------------------------
\* Nothing listens and nothing is published at the start.
LEMMA TransportInitially == TransportInit => TransportInv
<1> SUFFICES ASSUME TransportInit PROVE TransportInv
  OBVIOUS
<1>1. TransportTypeOK
  BY TransportAssumption, NewListenerType DEF TransportInit, TransportTypeOK
<1>2. ASSUME NEW a \in Activation PROVE ListenerOK(a) /\ StartupOK(a)
  BY NewListenerType DEF TransportInit, ListenerOK, StartupOK
<1>3. HostOK
  BY DEF TransportInit, HostOK, Quiet
<1> QED
  BY <1>1, <1>2, <1>3 DEF TransportInv

\* The listener and the records of the others stay as they are while the host
\* closes the transport of a.
LEMMA ClosingKeeps ==
  ASSUME TransportInv, NEW a \in Activation, startup[a] \in {"starting", "up"},
         CloseTransport(a), published' = published
  PROVE  /\ closing' = closing \cup {a} /\ a \in 1..started
         /\ lis' \in [Activation -> Listener]
         /\ \A b \in Activation \ {a} : lis'[b] = lis[b]
         /\ \A b \in Activation : Finishes(lis'[b]) /\ Tidies(lis'[b])
         /\ \A b \in Activation : Answering(lis[b]) => Answering(lis'[b])
<1>t. TransportTypeOK /\ ListenerOK(a) /\ StartupOK(a)
  BY DEF TransportInv
<1>1. a # 0
  BY DEF Activation
<1>2. closing' = closing \cup {a} /\ lis' = [lis EXCEPT ![a] = Close(lis[a])]
  BY <1>1 DEF CloseTransport, Becomes
<1>3. /\ Close(lis[a]) \in Listener /\ Finishes(Close(lis[a])) /\ Tidies(Close(lis[a]))
      /\ Close(lis[a]).step = lis[a].step
      /\ lis[a].finish # "none" => Close(lis[a]) = lis[a]
      /\ lis[a].finish = "none" => Close(lis[a]).finish = "cleanup"
  BY <1>t, CloseIsSound DEF TransportTypeOK, ListenerOK
<1>4. Answering(lis[a]) => Answering(Close(lis[a]))
  BY <1>3 DEF Answering
<1>5. lis'[a] = Close(lis[a]) /\ \A b \in Activation \ {a} : lis'[b] = lis[b]
  BY <1>t, <1>2 DEF TransportTypeOK
<1>6. a \in 1..started
  BY <1>t, TransportAssumption DEF StartupOK, TransportTypeOK, Alive, Activation
<1>7. ASSUME NEW b \in Activation
      PROVE  Finishes(lis'[b]) /\ Tidies(lis'[b]) /\ (Answering(lis[b]) => Answering(lis'[b]))
  <2>1. CASE b = a
    BY <1>3, <1>4, <1>5, <2>1
  <2>2. CASE b # a
    BY <1>5, <2>2 DEF TransportInv, ListenerOK
  <2> QED
    BY <2>1, <2>2
<1> QED
  BY <1>t, <1>2, <1>3, <1>5, <1>6, <1>7 DEF TransportTypeOK

\* session_start closes the activation before it and makes the next one.
LEMMA SessionStartKeeps == TransportInv /\ SessionStart => TransportInv'
<1> SUFFICES ASSUME TransportInv, SessionStart PROVE TransportInv'
  OBVIOUS
<1> DEFINE n == started + 1
<1>t. TransportTypeOK /\ HostOK /\ \A a \in Activation : ListenerOK(a) /\ StartupOK(a)
  BY DEF TransportInv
<1>1. /\ started' = n /\ current' = n /\ active' = 0 /\ shutdown' = "no"
      /\ startup' = [startup EXCEPT ![n] = "registry"] /\ UNCHANGED <<dead, published>>
      /\ CloseTransport(active)
  BY DEF SessionStart
<1>2. n \in Activation /\ n \in 1..MaxStarts /\ started \in Nat /\ 1..started \subseteq 1..n
  BY <1>t, TransportAssumption DEF SessionStart, TransportTypeOK, Activation
<1>3. n \notin dead /\ n \notin published /\ ~Alive(n) /\ n \notin 1..started
  BY <1>t, <1>2 DEF TransportTypeOK, Alive
<1>4. startup[n] = "none" /\ lis[n] = NewListener
  BY <1>t, <1>2, <1>3 DEF StartupOK
<1>5. /\ lis' \in [Activation -> Listener] /\ closing' \subseteq 1..n
      /\ \A b \in Activation : b # active => lis'[b] = lis[b]
      /\ \A b \in Activation : Finishes(lis'[b]) /\ Tidies(lis'[b]) /\ (Answering(lis[b]) => Answering(lis'[b]))
      /\ closing \subseteq closing' /\ (active # 0 => active \in closing')
  <2>1. CASE active = 0
    BY <1>t, <1>1, <1>2, <2>1 DEF CloseTransport, TransportTypeOK, ListenerOK
  <2>2. CASE active # 0
    <3>1. active \in Activation /\ startup[active] \in {"starting", "up"}
      BY <1>t, <1>2, <2>2, TransportAssumption DEF HostOK, TransportTypeOK, Activation
    <3>2. CloseTransport(active) /\ published' = published
      BY <1>1
    <3> QED
      BY <1>t, <1>2, <3>1, <3>2, ClosingKeeps DEF TransportTypeOK
  <2> QED
    BY <2>1, <2>2
<1>6. n # active
  BY <1>t, <1>3 DEF TransportTypeOK
<1>7. TransportTypeOK'
  <2>1. started' \in 0..MaxStarts /\ current' \in 0..started' /\ active' \in 0..started'
    BY <1>1, <1>2, TransportAssumption
  <2>2. startup' \in [Activation -> {"none", "registry", "starting", "up", "closing", "over"}]
    BY <1>t, <1>1, <1>2 DEF TransportTypeOK
  <2>3. dead' \subseteq 1..started' /\ published' \subseteq 1..started'
    BY <1>t, <1>1, <1>2 DEF TransportTypeOK
  <2>4. closing' \subseteq 1..started' /\ shutdown' \in {"no", "waiting", "done"}
    BY <1>1, <1>5
  <2> QED
    BY <1>5, <2>1, <2>2, <2>3, <2>4 DEF TransportTypeOK
<1>8. ASSUME NEW b \in Activation PROVE ListenerOK(b)' /\ StartupOK(b)'
  <2>0. ListenerOK(b) /\ StartupOK(b)
    BY <1>t
  <2>1. CASE b = n
    <3>1. startup'[b] = "registry" /\ lis'[b] = NewListener /\ b \notin published'
      BY <1>t, <1>1, <1>2, <1>3, <1>4, <1>5, <1>6, <2>1 DEF TransportTypeOK
    <3>2. Alive(b)'
      BY <1>1, <1>2, <1>3, <2>1 DEF Alive
    <3> QED
      BY <3>1, <3>2, NewListenerType DEF ListenerOK, StartupOK
  <2>2. CASE b # n
    <3>1. startup'[b] = startup[b] /\ (Alive(b)' <=> Alive(b))
      BY <1>t, <1>1, <1>2, <2>2 DEF TransportTypeOK, Alive, Activation
    <3>2. ListenerOK(b)'
      BY <1>1, <1>5, <2>0, <3>1 DEF ListenerOK
    <3>3. CASE b = active
      <4>1. b # 0 /\ startup[b] \in {"starting", "up"} /\ b \in closing'
        BY <1>t, <1>5, <3>3 DEF HostOK, Activation
      <4> QED
        BY <3>2, <2>0, <3>1, <4>1 DEF StartupOK
    <3>4. CASE b # active
      <4>1. lis'[b] = lis[b] /\ (b \in closing => b \in closing')
        BY <1>5, <3>4
      <4> QED
        BY <3>2, <2>0, <3>1, <3>4, <4>1 DEF StartupOK
    <3> QED
      BY <3>2, <3>3, <3>4
  <2> QED
    BY <2>1, <2>2
<1>9. HostOK'
  BY <1>1 DEF HostOK
<1> QED
  BY <1>7, <1>8, <1>9 DEF TransportInv

\* session_shutdown closes every activation that is starting or up.
LEMMA ShutdownKeeps == TransportInv /\ Shutdown => TransportInv'
<1> SUFFICES ASSUME TransportInv, Shutdown PROVE TransportInv'
  OBVIOUS
<1>t. TransportTypeOK /\ HostOK /\ \A a \in Activation : ListenerOK(a) /\ StartupOK(a)
  BY DEF TransportInv
<1>1. /\ current' = 0 /\ active' = 0 /\ shutdown' = "waiting"
      /\ UNCHANGED <<started, startup, dead, published>>
      /\ CloseTransport(active)
  BY DEF Shutdown
<1>5. /\ lis' \in [Activation -> Listener] /\ closing' \subseteq 1..started
      /\ \A b \in Activation : b # active => lis'[b] = lis[b]
      /\ \A b \in Activation : Finishes(lis'[b]) /\ Tidies(lis'[b]) /\ (Answering(lis[b]) => Answering(lis'[b]))
      /\ closing \subseteq closing' /\ (active # 0 => active \in closing')
  <2>1. CASE active = 0
    BY <1>t, <1>1, <2>1 DEF CloseTransport, TransportTypeOK, ListenerOK
  <2>2. CASE active # 0
    <3>1. active \in Activation /\ startup[active] \in {"starting", "up"}
      BY <1>t, <2>2, TransportAssumption DEF HostOK, TransportTypeOK, Activation
    <3>2. CloseTransport(active) /\ published' = published
      BY <1>1
    <3> QED
      BY <1>t, <3>1, <3>2, ClosingKeeps DEF TransportTypeOK
  <2> QED
    BY <2>1, <2>2
<1>7. TransportTypeOK'
  BY <1>t, <1>1, <1>5 DEF TransportTypeOK
<1>8. ASSUME NEW b \in Activation PROVE ListenerOK(b)' /\ StartupOK(b)'
  <2>0. ListenerOK(b) /\ StartupOK(b) /\ (Alive(b)' <=> Alive(b))
    BY <1>t, <1>1 DEF Alive
  <2>2. ListenerOK(b)'
    BY <1>1, <1>5, <2>0 DEF ListenerOK
  <2>1. startup'[b] = startup[b]
    BY <1>1
  <2>3. CASE b = active
    <3>1. b # 0 /\ startup[b] \in {"starting", "up"} /\ b \in closing'
      BY <1>t, <1>5, <2>3 DEF HostOK, Activation
    <3> QED
      BY <2>2, <2>0, <2>1, <3>1 DEF StartupOK
  <2>4. CASE b # active
    <3>1. lis'[b] = lis[b] /\ (b \in closing => b \in closing')
      BY <1>5, <2>4
    <3> QED
      BY <2>2, <2>0, <2>1, <2>4, <3>1 DEF StartupOK
  <2> QED
    BY <2>2, <2>3, <2>4
<1>9. HostOK'
  BY <1>1 DEF HostOK
<1> QED
  BY <1>7, <1>8, <1>9 DEF TransportInv

\* startSessionTransport() after its first await: the late one gives up.
LEMMA RegistryReadyKeeps ==
  ASSUME TransportInv, NEW a \in Activation, RegistryReady(a)
  PROVE  TransportInv'
<1>t. TransportTypeOK /\ HostOK /\ \A b \in Activation : ListenerOK(b) /\ StartupOK(b)
  BY DEF TransportInv
<1>0. /\ Alive(a) /\ startup[a] = "registry" /\ lis[a] = NewListener
      /\ UNCHANGED <<started, current, closing, shutdown, dead, published>>
  BY <1>t DEF RegistryReady, StartupOK
<1>a. \A b \in Activation : Alive(b)' <=> Alive(b)
  BY <1>0 DEF Alive
<1>q. shutdown # "done"
  BY <1>t, <1>0 DEF HostOK, Quiet
<1>1. CASE startup' = [startup EXCEPT ![a] = "over"] /\ UNCHANGED <<active, lis>>
  <2>1. startup'[a] = "over" /\ \A b \in Activation \ {a} : startup'[b] = startup[b]
    BY <1>t, <1>1 DEF TransportTypeOK
  <2>2. TransportTypeOK'
    BY <1>t, <1>0, <1>1 DEF TransportTypeOK
  <2>3. ASSUME NEW b \in Activation PROVE ListenerOK(b)' /\ StartupOK(b)'
    BY <1>t, <1>0, <1>1, <1>a, <2>1 DEF ListenerOK, StartupOK
  <2>4. HostOK'
    BY <1>t, <1>0, <1>1, <1>q, <2>1, TransportAssumption DEF HostOK, TransportTypeOK, Activation
  <2> QED
    BY <2>2, <2>3, <2>4 DEF TransportInv
<1>2. CASE /\ current = a /\ active' = a /\ startup' = [startup EXCEPT ![a] = "starting"]
           /\ Becomes(a, [lis[a] EXCEPT !.state = "starting", !.step = "record"])
  <2> DEFINE k == [lis[a] EXCEPT !.state = "starting", !.step = "record"]
  <2>0. lis[a] \in Listener /\ lis[a].finish = "none" /\ lis[a].tidy = "none"
    BY <1>0, NewListenerType DEF NewListener
  <2>1. k \in Listener /\ Finishes(k) /\ Tidies(k)
    BY <2>0 DEF Listener, Finishes, Tidies, Settled
  <2>2. a \notin published
    BY <1>t, <1>0 DEF ListenerOK, Answering, NewListener
  <2>3. lis' = [lis EXCEPT ![a] = k]
    BY <1>2 DEF Becomes
  <2> HIDE DEF k
  <2>4. lis'[a] = k /\ \A b \in Activation \ {a} : lis'[b] = lis[b]
    BY <1>t, <2>3 DEF TransportTypeOK
  <2>5. startup'[a] = "starting" /\ \A b \in Activation \ {a} : startup'[b] = startup[b]
    BY <1>t, <1>2 DEF TransportTypeOK
  <2>6. TransportTypeOK'
    BY <1>t, <1>0, <1>2, <2>1, <2>3 DEF TransportTypeOK
  <2>7. active \in {0, a}
    BY <1>t, <1>2 DEF HostOK
  <2>8. ASSUME NEW b \in Activation PROVE ListenerOK(b)' /\ StartupOK(b)'
    <3>1. CASE b = a
      BY <1>0, <1>2, <1>a, <2>1, <2>2, <2>4, <2>5, <3>1 DEF ListenerOK, StartupOK
    <3>2. CASE b # a
      BY <1>t, <1>0, <1>a, <2>4, <2>5, <2>7, <3>2 DEF ListenerOK, StartupOK, Activation
    <3> QED
      BY <3>1, <3>2
  <2>9. HostOK'
    BY <1>t, <1>0, <1>2, <1>q, <2>5 DEF HostOK, Activation
  <2> QED
    BY <2>6, <2>8, <2>9 DEF TransportInv
<1> QED
  BY <1>1, <1>2 DEF RegistryReady

\* start() returned: the transport is up, or was superseded meanwhile.
LEMMA StartReturnedKeeps ==
  ASSUME TransportInv, NEW a \in Activation, StartReturned(a)
  PROVE  TransportInv'
<1>t. TransportTypeOK /\ HostOK /\ \A b \in Activation : ListenerOK(b) /\ StartupOK(b)
  BY DEF TransportInv
<1>0. /\ Alive(a) /\ startup[a] = "starting"
      /\ UNCHANGED <<started, current, shutdown, dead, published>>
  BY DEF StartReturned
<1>a. \A b \in Activation : Alive(b)' <=> Alive(b)
  BY <1>0 DEF Alive
<1>q. shutdown # "done"
  BY <1>t, <1>0 DEF HostOK, Quiet
<1>1. CASE startup' = [startup EXCEPT ![a] = "up"] /\ UNCHANGED <<active, closing, lis>>
  <2>1. startup'[a] = "up" /\ \A b \in Activation \ {a} : startup'[b] = startup[b]
    BY <1>t, <1>1 DEF TransportTypeOK
  <2>2. TransportTypeOK'
    BY <1>t, <1>0, <1>1 DEF TransportTypeOK
  <2>3. ASSUME NEW b \in Activation PROVE ListenerOK(b)' /\ StartupOK(b)'
    BY <1>t, <1>0, <1>1, <1>a, <2>1 DEF ListenerOK, StartupOK
  <2>4. HostOK'
    BY <1>t, <1>0, <1>1, <1>q, <2>1, TransportAssumption DEF HostOK, TransportTypeOK, Activation
  <2> QED
    BY <2>2, <2>3, <2>4 DEF TransportInv
<1>2. CASE /\ startup' = [startup EXCEPT ![a] = "closing"]
           /\ active' = IF active = a THEN 0 ELSE active
           /\ CloseTransport(a)
  <2>1. startup'[a] = "closing" /\ \A b \in Activation \ {a} : startup'[b] = startup[b]
    BY <1>t, <1>2 DEF TransportTypeOK
  <2>2. /\ closing' = closing \cup {a} /\ a \in 1..started
        /\ lis' \in [Activation -> Listener]
        /\ \A b \in Activation \ {a} : lis'[b] = lis[b]
        /\ \A b \in Activation : Finishes(lis'[b]) /\ Tidies(lis'[b])
        /\ \A b \in Activation : Answering(lis[b]) => Answering(lis'[b])
    BY <1>0, <1>2, ClosingKeeps
  <2>3. TransportTypeOK'
    <3>1. startup' \in [Activation -> {"none", "registry", "starting", "up", "closing", "over"}]
      BY <1>t, <1>2 DEF TransportTypeOK
    <3>2. active' \in 0..started' /\ closing' \subseteq 1..started'
      BY <1>t, <1>0, <1>2, <2>2 DEF TransportTypeOK
    <3> QED
      BY <1>t, <1>0, <2>2, <3>1, <3>2 DEF TransportTypeOK
  <2>4. ASSUME NEW b \in Activation PROVE ListenerOK(b)' /\ StartupOK(b)'
    <3>0. ListenerOK(b) /\ StartupOK(b)
      BY <1>t
    <3>1. ListenerOK(b)'
      BY <1>0, <1>a, <2>2, <3>0 DEF ListenerOK
    <3>2. CASE b = a
      <4>1. startup'[b] = "closing" /\ Alive(b)'
        BY <1>0, <1>a, <2>1, <3>2
      <4> QED
        BY <3>1, <4>1 DEF StartupOK
    <3>3. CASE b # a
      <4>1. startup'[b] = startup[b] /\ lis'[b] = lis[b] /\ (Alive(b)' <=> Alive(b))
        BY <1>a, <2>1, <2>2, <3>3
      <4>2. b \in closing \/ active = b => b \in closing' \/ active' = b
        BY <1>2, <2>2, <3>3
      <4> QED
        BY <3>1, <3>0, <4>1, <4>2 DEF StartupOK
    <3> QED
      BY <3>1, <3>2, <3>3
  <2>5. HostOK'
    <3>1. CASE active = a
      BY <1>t, <1>0, <1>2, <1>q, <3>1 DEF HostOK
    <3>2. CASE active # a
      <4>1. active' = active /\ (active # 0 => active \in Activation \ {a})
        BY <1>t, <1>2, <3>2, TransportAssumption DEF TransportTypeOK, Activation
      <4> QED
        BY <1>t, <1>0, <1>q, <2>1, <4>1 DEF HostOK
    <3> QED
      BY <3>1, <3>2
  <2> QED
    BY <2>3, <2>4, <2>5 DEF TransportInv
<1> QED
  BY <1>1, <1>2 DEF StartReturned

\* The startup that was closed while it ran is over.
LEMMA StartupClosedKeeps ==
  ASSUME TransportInv, NEW a \in Activation, StartupClosed(a)
  PROVE  TransportInv'
<1>t. TransportTypeOK /\ HostOK /\ \A b \in Activation : ListenerOK(b) /\ StartupOK(b)
  BY DEF TransportInv
<1>0. /\ Alive(a) /\ startup[a] = "closing" /\ lis[a].finish = "done"
      /\ startup' = [startup EXCEPT ![a] = "over"]
      /\ UNCHANGED <<started, current, active, closing, shutdown, dead, lis, published>>
  BY DEF StartupClosed
<1>a. \A b \in Activation : Alive(b)' <=> Alive(b)
  BY <1>0 DEF Alive
<1>q. shutdown # "done"
  BY <1>t, <1>0 DEF HostOK, Quiet
<1>1. startup'[a] = "over" /\ \A b \in Activation \ {a} : startup'[b] = startup[b]
  BY <1>t, <1>0 DEF TransportTypeOK
<1>2. TransportTypeOK'
  BY <1>t, <1>0 DEF TransportTypeOK
<1>3. ASSUME NEW b \in Activation PROVE ListenerOK(b)' /\ StartupOK(b)'
  BY <1>t, <1>0, <1>a, <1>1 DEF ListenerOK, StartupOK
<1>4. HostOK'
  BY <1>t, <1>0, <1>q, <1>1, TransportAssumption DEF HostOK, TransportTypeOK, Activation
<1> QED
  BY <1>2, <1>3, <1>4 DEF TransportInv

\* A process that dies leaves its records to others and listens no more.
LEMMA CrashKeeps == TransportInv /\ Crash => TransportInv'
<1> SUFFICES ASSUME TransportInv, Crash PROVE TransportInv'
  OBVIOUS
<1>1. /\ dead' = 1..started /\ current' = 0 /\ active' = 0 /\ shutdown' = "done"
      /\ lis' = [a \in Activation |-> NewListener] /\ startup' = [a \in Activation |-> "none"]
      /\ closing' = {} /\ UNCHANGED <<started, published>>
  BY DEF Crash
<1>2. TransportTypeOK'
  BY <1>1, NewListenerType, TransportAssumption DEF TransportInv, TransportTypeOK
<1>3. ASSUME NEW b \in Activation PROVE ~Alive(b)' /\ ListenerOK(b)' /\ StartupOK(b)'
  <2>1. ~Alive(b)'
    BY <1>1 DEF Alive, Activation, TransportInv, TransportTypeOK
  <2> QED
    BY <1>1, <2>1, NewListenerType DEF ListenerOK, StartupOK
<1>4. HostOK'
  BY <1>1, <1>3 DEF HostOK
<1> QED
  BY <1>2, <1>3, <1>4 DEF TransportInv

\* A sender may remove stale records, and changes nothing else of the hosts.
LEMMA SendStepKeeps ==
  ASSUME TransportInv, UNCHANGED <<hostVars, lis>>, published' \subseteq published
  PROVE  TransportInv'
<1>1. \A b \in Activation : Alive(b)' <=> Alive(b)
  BY DEF hostVars, Alive
<1>2. \A b \in Activation : Quiet(b) => Quiet(b)'
  BY DEF hostVars, Quiet
<1> QED
  BY <1>1, <1>2 DEF hostVars, TransportInv, TransportTypeOK, ListenerOK, StartupOK, HostOK

\* Every step of hosts, listeners, senders and crashes keeps it.
LEMMA TransportStep == TransportInv /\ [TransportNext]_transportVars => TransportInv'
<1> SUFFICES ASSUME TransportInv, [TransportNext]_transportVars
             PROVE  TransportInv'
  OBVIOUS
<1>1. CASE SessionStart \/ Shutdown \/ Crash
  BY <1>1, SessionStartKeeps, ShutdownKeeps, CrashKeeps
<1>2. CASE ShutdownReturns
  <2>1. /\ UNCHANGED <<started, current, active, startup, closing, dead, lis, published>>
        /\ shutdown = "waiting" /\ shutdown' = "done"
        /\ \A a \in Activation : Alive(a) => Quiet(a)
    BY <1>2 DEF ShutdownReturns
  <2>2. \A b \in Activation : (Alive(b)' <=> Alive(b)) /\ (Quiet(b) => Quiet(b)')
    BY <2>1 DEF Alive, Quiet
  <2> QED
    BY <2>1, <2>2 DEF TransportInv, TransportTypeOK, ListenerOK, StartupOK, HostOK
<1>3. ASSUME NEW a \in Activation, ListenerStep(a) \/ ServerError(a)
      PROVE  TransportInv'
  BY <1>3, ListenerStepMoves, ListenerMovesKeep
<1>4. ASSUME NEW a \in Activation, HostStep(a)
      PROVE  TransportInv'
  BY <1>4, RegistryReadyKeeps, StartReturnedKeeps, StartupClosedKeeps DEF HostStep
<1>5. ASSUME NEW m \in Message, SendStep(m)
      PROVE  TransportInv'
  <2>1. UNCHANGED <<hostVars, lis>> /\ published' \subseteq published
    BY <1>5
    DEF SendStep, Send, Resolve, Connect, RemoveStale, Receive, Deliver, CallbackDeadline, AnswerArrives, GiveUp
  <2> QED
    BY <2>1, SendStepKeeps
<1>6. CASE UNCHANGED transportVars
  BY <1>6, SendStepKeeps DEF transportVars
<1> QED
  BY <1>1, <1>2, <1>3, <1>4, <1>5, <1>6 DEF TransportNext

\* Once session_shutdown has returned, no record of the process is published
\* and no endpoint of it listens, for any sessions, messages and bounds
\* (shutdownSessionTransport, finishClose, doStart's catch block).
THEOREM ShutdownIsComplete == TransportSpec => []ShutdownLeavesNothing
<1>1. TransportInv => ShutdownLeavesNothing
  <2> SUFFICES ASSUME TransportInv, shutdown = "done", NEW a \in Activation, Alive(a)
               PROVE  a \notin published /\ lis[a].server # "listening"
    BY DEF ShutdownLeavesNothing
  <2>1. ListenerOK(a) /\ StartupOK(a) /\ Quiet(a) /\ active = 0
    BY DEF TransportInv, HostOK
  <2>2. lis[a] = NewListener \/ lis[a].finish = "done"
    BY <2>1 DEF StartupOK, Quiet, Activation
  <2>3. CASE lis[a] = NewListener
    BY <2>1, <2>3 DEF ListenerOK, Answering, NewListener
  <2>4. CASE lis[a].finish = "done"
    BY <2>1, <2>4 DEF ListenerOK, Answering, Finishes, Tidies
  <2> QED
    BY <2>2, <2>3, <2>4
<1> QED
  BY TransportInitially, TransportStep, <1>1, PTL DEF TransportSpec

-----------------------------------------------------------------------------
(* The transport: its messages.                                            *)

Outbound ==
  [at : {"idle", "resolve", "connect", "stale", "sent", "settled"}, to : Session,
   bound : {0} \cup Activation, route : {0} \cup Activation,
   wire : {"none", "connected", "processing", "accepted", "refused", "closed"},
   queued : BOOLEAN, landed : SUBSET Session, result : {"none", "accepted", "failed"}]

\* A message on its way goes to a listener of the session it is for; only a
\* message that landed is answered "accepted".
Sound(o) ==
  /\ o.queued \/ o.at \in {"connect", "stale", "sent"} =>
       o.route \in Activation /\ SessionOf[o.route] = o.to
  /\ o.at = "idle" => o.landed = {} /\ ~o.queued
  /\ o.wire # "none" => o.at = "sent"
  /\ o.landed \subseteq {o.to}
  /\ o.wire = "accepted" \/ o.result = "accepted" => o.landed # {}

MessagesOK == out \in [Message -> Outbound] /\ \A m \in Message : Sound(out[m])

\* A message that was not sent has landed nowhere.
LEMMA NewMessageIsSound == NewMessage \in Outbound /\ Sound(NewMessage)
<1> DEFINE s == CHOOSE x \in Session : TRUE
<1>1. s \in Session
  BY TransportAssumption
<1>2. NewMessage = [at |-> "idle", to |-> s, bound |-> 0, route |-> 0,
                    wire |-> "none", queued |-> FALSE, landed |-> {}, result |-> "none"]
  BY DEF NewMessage
<1> HIDE DEF s
<1> QED
  BY <1>1, <1>2 DEF Outbound, Sound

\* A listener that closes its connections delivers nothing by that.
LEMMA HangupIsSound ==
  ASSUME NEW o \in Outbound, Sound(o), NEW a
  PROVE  Hangup(o, a) \in Outbound /\ Sound(Hangup(o, a))
<1>1. CASE o.route = a /\ o.wire \in {"connected", "processing"}
  BY <1>1 DEF Hangup, Outbound, Sound
<1>2. CASE ~(o.route = a /\ o.wire \in {"connected", "processing"})
  BY <1>2 DEF Hangup
<1> QED
  BY <1>1, <1>2

\* A result is given for what landed, or is a failure.
LEMMA GiveIsSound ==
  ASSUME MessagesOK, NEW m \in Message, NEW r \in {"accepted", "failed"},
         r = "accepted" => out[m].landed # {}, out[m].at # "idle"
  PROVE  Give(m, r) \in Outbound /\ Sound(Give(m, r))
<1> DEFINE o == out[m]
           g == IF o.queued THEN o.route ELSE 0
<1>1. o \in Outbound /\ Sound(o)
  BY DEF MessagesOK
<1>2. g \in {0} \cup Activation /\ (o.queued => g = o.route)
  BY <1>1 DEF Outbound
<1>3. Give(m, r) = [o EXCEPT !.at = "settled", !.result = r, !.wire = "none", !.bound = 0, !.route = g]
  BY DEF Give
<1> DEFINE k == [o EXCEPT !.at = "settled", !.result = r, !.wire = "none", !.bound = 0, !.route = g]
<1>d. out[m].at = o.at /\ out[m].landed = o.landed
  OBVIOUS
<1> HIDE DEF o, g
<1>4. k \in Outbound
  BY <1>1, <1>2 DEF Outbound
<1>5. /\ k.at = "settled" /\ k.result = r /\ k.wire = "none" /\ k.route = g
      /\ k.to = o.to /\ k.queued = o.queued /\ k.landed = o.landed
  BY <1>1 DEF Outbound
<1> HIDE DEF k
<1>6. Sound(k)
  BY <1>1, <1>2, <1>5, <1>d DEF Sound
<1> QED
  BY <1>3, <1>4, <1>6 DEF k

\* A step of one message keeps the others as they were.
LEMMA ChangeIsSound ==
  ASSUME MessagesOK, NEW m \in Message, NEW o \in Outbound, Sound(o), Change(m, o)
  PROVE  MessagesOK'
<1>1. out' = [out EXCEPT ![m] = o] /\ out \in [Message -> Outbound]
  BY DEF Change, MessagesOK
<1>2. out'[m] = o /\ \A n \in Message \ {m} : out'[n] = out[n]
  BY <1>1
<1> QED
  BY <1>1, <1>2 DEF MessagesOK, Sound

\* Whatever the listeners do, the messages only lose their connections.
LEMMA BecomesKeepsMessages ==
  ASSUME MessagesOK, NEW a, NEW l, Becomes(a, l)
  PROVE  MessagesOK'
<1>1. out' = out \/ out' = HangupAll(a)
  BY DEF Becomes
<1>2. CASE out' = out
  BY <1>2 DEF MessagesOK, Sound
<1>3. CASE out' = HangupAll(a)
  <2>1. \A m \in Message : out'[m] = Hangup(out[m], a)
    BY <1>3 DEF HangupAll
  <2>2. \A m \in Message : Hangup(out[m], a) \in Outbound /\ Sound(Hangup(out[m], a))
    BY HangupIsSound DEF MessagesOK
  <2>3. out' \in [Message -> Outbound]
    BY <1>3, <2>2 DEF HangupAll
  <2> QED
    BY <2>1, <2>2, <2>3 DEF MessagesOK, Sound
<1> QED
  BY <1>1, <1>2, <1>3

\* Resolving, connecting, delivering, answering and settling keep it.
LEMMA SendStepKeepsMessages ==
  ASSUME TransportInv, MessagesOK, NEW m \in Message, SendStep(m)
  PROVE  MessagesOK'
<1> DEFINE o == out[m]
<1>o. o \in Outbound /\ Sound(o)
  BY DEF MessagesOK
<1>p. published \subseteq Activation
  BY TransportAssumption DEF TransportInv, TransportTypeOK, Activation
<1>1. ASSUME NEW s \in Session, Send(m, s) PROVE MessagesOK'
  <2>1. PICK b \in {0} \cup Activation : Change(m, [o EXCEPT !.at = "resolve", !.to = s, !.bound = b])
    BY <1>1, <1>p DEF Send, Newest, Records
  <2>2. o.at = "idle"
    BY <1>1 DEF Send
  <2> DEFINE k == [o EXCEPT !.at = "resolve", !.to = s, !.bound = b]
  <2>3. k \in Outbound /\ Sound(k)
    BY <1>o, <2>2 DEF Outbound, Sound
  <2> QED
    BY <2>1, <2>3, ChangeIsSound
<1>2. CASE Resolve(m)
  <2>1. CASE Change(m, Give(m, "failed"))
    BY <1>2, <2>1, GiveIsSound, ChangeIsSound DEF Resolve
  <2>2. CASE \E a \in Newest(Records(o.to)) : Change(m, [o EXCEPT !.at = "connect", !.bound = 0, !.route = a])
    <3>1. PICK a \in Activation : SessionOf[a] = o.to /\ Change(m, [o EXCEPT !.at = "connect", !.bound = 0, !.route = a])
      BY <1>p, <2>2 DEF Newest, Records
    <3> DEFINE k == [o EXCEPT !.at = "connect", !.bound = 0, !.route = a]
    <3>2. k \in Outbound /\ Sound(k)
      BY <1>o, <1>2, <3>1 DEF Resolve, Outbound, Sound
    <3> QED
      BY <3>1, <3>2, ChangeIsSound
  <2> QED
    BY <1>2, <2>1, <2>2 DEF Resolve
<1>3. CASE Connect(m)
  <2>0. o.at = "connect"
    BY <1>3 DEF Connect
  <2>1. CASE Change(m, [o EXCEPT !.at = "stale"])
    <3> DEFINE k == [o EXCEPT !.at = "stale"]
    <3>1. k \in Outbound /\ Sound(k)
      BY <1>o, <2>0 DEF Outbound, Sound
    <3> QED
      BY <2>1, <3>1, ChangeIsSound
  <2>2. CASE Change(m, [o EXCEPT !.at = "sent", !.wire = "connected"])
    <3> DEFINE k == [o EXCEPT !.at = "sent", !.wire = "connected"]
    <3>1. k \in Outbound /\ Sound(k)
      BY <1>o, <2>0 DEF Outbound, Sound
    <3> QED
      BY <2>2, <3>1, ChangeIsSound
  <2>3. CASE Change(m, Give(m, "failed"))
    BY <2>0, <2>3, GiveIsSound, ChangeIsSound
  <2> QED
    BY <1>3, <2>1, <2>2, <2>3 DEF Connect
<1>4. CASE RemoveStale(m) \/ GiveUp(m)
  BY <1>4, GiveIsSound, ChangeIsSound DEF RemoveStale, GiveUp
<1>5. CASE Receive(m)
  <2> DEFINE k == [o EXCEPT !.wire = "processing", !.queued = TRUE]
  <2>1. o.wire = "connected" /\ Change(m, k)
    BY <1>5 DEF Receive
  <2>2. k \in Outbound /\ Sound(k)
    BY <1>o, <2>1 DEF Outbound, Sound
  <2> HIDE DEF k
  <2> QED
    BY <2>1, <2>2, ChangeIsSound
<1>6. CASE Deliver(m)
  <2> DEFINE r == After(m)
  <2>0. o.queued /\ r \in {0, o.route} /\ (o.at # "settled" => r = o.route)
    BY <1>6 DEF Deliver, After
  <2>1. CASE current = o.route /\ Change(m, [o EXCEPT !.queued = FALSE, !.route = r, !.wire = Answer(m, "accepted"),
                                               !.landed = @ \cup {SessionOf[current]}])
    <3> DEFINE w == Answer(m, "accepted")
               d == o.landed \cup {SessionOf[current]}
               k == [o EXCEPT !.queued = FALSE, !.route = r, !.wire = w, !.landed = d]
    <3>1. Change(m, k)
      BY <2>1
    <3>2. w \in {"accepted", o.wire} /\ (o.wire = "none" => w = "none")
      BY DEF Answer
    <3>3. d = {o.to} /\ o.to \in Session
      BY <1>o, <2>0, <2>1 DEF Sound, Outbound
    <3> HIDE DEF r, w, d
    <3>4. k \in Outbound /\ Sound(k)
      BY <1>o, <2>0, <3>2, <3>3 DEF Outbound, Sound
    <3> HIDE DEF k
    <3> QED
      BY <3>1, <3>4, ChangeIsSound
  <2>2. CASE Change(m, [o EXCEPT !.queued = FALSE, !.route = r, !.wire = Answer(m, "refused")])
    <3> DEFINE w == Answer(m, "refused")
               k == [o EXCEPT !.queued = FALSE, !.route = r, !.wire = w]
    <3>1. Change(m, k)
      BY <2>2
    <3>2. w \in {"refused", o.wire} /\ (o.wire = "none" => w = "none")
      BY DEF Answer
    <3> HIDE DEF r, w
    <3>4. k \in Outbound /\ Sound(k)
      BY <1>o, <2>0, <3>2 DEF Outbound, Sound
    <3> HIDE DEF k
    <3> QED
      BY <3>1, <3>4, ChangeIsSound
  <2> QED
    BY <1>6, <2>1, <2>2 DEF Deliver
<1>7. CASE CallbackDeadline(m)
  <2> DEFINE k == [o EXCEPT !.wire = "refused"]
  <2>1. o.wire = "processing" /\ Change(m, k)
    BY <1>7 DEF CallbackDeadline
  <2>2. k \in Outbound /\ Sound(k)
    BY <1>o, <2>1 DEF Outbound, Sound
  <2> HIDE DEF k
  <2> QED
    BY <2>1, <2>2, ChangeIsSound
<1>8. CASE AnswerArrives(m)
  <2> DEFINE r == IF o.wire = "accepted" THEN "accepted" ELSE "failed"
  <2>1. o.at = "sent" /\ Change(m, Give(m, r))
    BY <1>8 DEF AnswerArrives
  <2>2. r \in {"accepted", "failed"} /\ (r = "accepted" => o.landed # {})
    BY <1>o DEF Sound
  <2> HIDE DEF r
  <2> QED
    BY <2>1, <2>2, GiveIsSound, ChangeIsSound
<1> QED
  BY <1>1, <1>2, <1>3, <1>4, <1>5, <1>6, <1>7, <1>8 DEF SendStep

\* A crash hangs up on the senders of its listeners only.
LEMMA CrashKeepsMessages == MessagesOK /\ Crash => MessagesOK'
<1> SUFFICES ASSUME MessagesOK, Crash PROVE MessagesOK'
  OBVIOUS
<1> DEFINE After1(m) == IF out[m].route > 0 /\ Alive(out[m].route)
                        THEN [Hangup(out[m], out[m].route) EXCEPT !.queued = FALSE] ELSE out[m]
<1>1. out' = [m \in Message |-> After1(m)]
  BY DEF Crash
<1>2. ASSUME NEW m \in Message PROVE After1(m) \in Outbound /\ Sound(After1(m))
  <2> DEFINE h == Hangup(out[m], out[m].route)
  <2>1. out[m] \in Outbound /\ Sound(out[m])
    BY DEF MessagesOK
  <2>2. h \in Outbound /\ Sound(h)
    BY <2>1, HangupIsSound
  <2> HIDE DEF h
  <2>3. [h EXCEPT !.queued = FALSE] \in Outbound /\ Sound([h EXCEPT !.queued = FALSE])
    BY <2>2 DEF Outbound, Sound
  <2> QED
    BY <2>1, <2>3 DEF h
<1> HIDE DEF After1
<1>3. \A m \in Message : out'[m] = After1(m)
  BY <1>1
<1>4. out' \in [Message -> Outbound]
  BY <1>1, <1>2
<1> QED
  BY <1>2, <1>3, <1>4 DEF MessagesOK, Sound

\* Every step of the transport keeps the promises to senders.
LEMMA MessagesStep == TransportInv /\ MessagesOK /\ [TransportNext]_transportVars => MessagesOK'
<1> SUFFICES ASSUME TransportInv, MessagesOK, [TransportNext]_transportVars PROVE MessagesOK'
  OBVIOUS
<1>u. ASSUME out' = out PROVE MessagesOK'
  BY <1>u DEF MessagesOK, Sound
<1>c. ASSUME NEW a, CloseTransport(a) PROVE MessagesOK'
  BY <1>c, <1>u, BecomesKeepsMessages DEF CloseTransport
<1>1. CASE SessionStart \/ Shutdown
  BY <1>1, <1>c DEF SessionStart, Shutdown
<1>2. CASE ShutdownReturns \/ UNCHANGED transportVars
  BY <1>2, <1>u DEF ShutdownReturns, transportVars
<1>3. CASE Crash
  BY <1>3, CrashKeepsMessages
<1>4. ASSUME NEW a \in Activation, ListenerStep(a) \/ ServerError(a) PROVE MessagesOK'
  <2>1. \E l : Becomes(a, l)
    BY <1>4 DEF ListenerStep, ServerError, Bind, Chmod, Link, Linked, Unwind, Unwound, CleanedUp, AwaitStartup, Closed
  <2> QED
    BY <2>1, BecomesKeepsMessages
<1>5. ASSUME NEW a \in Activation, HostStep(a) PROVE MessagesOK'
  BY <1>5, <1>u, <1>c, BecomesKeepsMessages DEF HostStep, RegistryReady, StartReturned, StartupClosed
<1>6. ASSUME NEW m \in Message, SendStep(m) PROVE MessagesOK'
  BY <1>6, SendStepKeepsMessages
<1> QED
  BY <1>1, <1>2, <1>3, <1>4, <1>5, <1>6 DEF TransportNext

\* A sender is told "accepted" only when the session it addressed got the
\* message, which never lands in another one, for any sessions, messages and
\* bounds (the callback of startSessionTransport, settle()).
THEOREM AcceptedHasLanded == TransportSpec => []AcceptedReached
<1>1. TransportInit => MessagesOK
  BY NewMessageIsSound DEF TransportInit, MessagesOK
<1>2. MessagesOK => AcceptedReached
  BY DEF MessagesOK, Sound, AcceptedReached
<1> QED
  BY TransportInitially, TransportStep, MessagesStep, <1>1, <1>2, PTL DEF TransportSpec

===============================================================================
