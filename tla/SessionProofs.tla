---------------------------- MODULE SessionProofs -----------------------------
(***************************************************************************)
(* Proofs about the telemetry of a session (RuntimeMetrics: one sender at  *)
(* a time, live events only and rows that tell the truth), about the       *)
(* acknowledgement of a delivery (FrameExchange: a verdict is about the    *)
(* whole stream), about the handlers that decide what an agent may do      *)
(* (ToolPolicy: what stands between a tool call and its effect), about the *)
(* host of the agents (AgentHost: what is pushed, what history keeps and   *)
(* what a remediation child may do) and about what a session keeps of its  *)
(* own writes (SessionEvidence: reminders, the diff and its texts), for    *)
(* any sets of sessions, tasks, models, bytes, texts, calls, keys,         *)
(* commands and files and any bounds.                                      *)
(***************************************************************************)
EXTENDS RuntimeMetrics, FrameExchange, ToolPolicy, AgentHost, SessionEvidence, FiniteSetTheorems, WellFoundedInduction, TLAPS

-----------------------------------------------------------------------------
(* The telemetry.                                                          *)

Names == PublicModel \cup PrivateModel \cup {NoName, CustomName}
Row == [selected : Names, observed : Names, response : Names, truth : Names]
SentRow == [model : Names, evidence : {"unknown", "response", "selected"}, truth : Names]
Event == [session : MetricSession \cup {NoName}, owner : Nat, epoch : Nat, rows : SUBSET Row]
Attempt == [state : {"idle", "scheduled", "running"}, closed : BOOLEAN, event : Event]
Sender == [attempt : Nat, rejected : BOOLEAN, event : Event, rows : SUBSET SentRow]
Owner == [id : MetricSession \cup {NoName}, started : Nat, attempt : Nat, children : SUBSET MetricTask]
Turn == [active : BOOLEAN, requestSeen : BOOLEAN, ambiguous : BOOLEAN, selection : RawModel \cup {NoName}]
Child ==
  [state : {"none", "queued", "live", "done"}, registered : BOOLEAN, owner : Nat, session : MetricSession \cup {NoName},
   epoch : Nat, model : RawModel \cup {NoName}, ready : {"no", "pending", "yes", "refused"}, started : Nat,
   watched : BOOLEAN, seen : SUBSET Row, dropped : {0, 1}]

TakenSlots == {n \in DOMAIN attempts : attempts[n].state # "idle"}

\* A row whose selection and observation, where public, are what was asked for.
Honest(r) ==
    /\ r.selected \in PublicModel => r.selected = r.truth
    /\ r.observed \in PublicModel => r.observed = r.truth

TypesOK ==
    /\ openSession \in MetricSession /\ metricEpoch \in Nat /\ clock \in Nat
    /\ liveOwner \in Owner /\ metricTurn \in Turn /\ asked \subseteq RawModel
    /\ attempts \in Seq(Attempt) /\ senders \subseteq Sender
    /\ deliveryBusy \in BOOLEAN /\ sendBusy \in BOOLEAN
    /\ agentsOwner \in Nat /\ agentTasks \in [MetricTask -> Child]

\* One attempt holds the slot, one process belongs to it, and the flags say so.
SlotOK ==
    /\ \A m, n \in TakenSlots : m = n
    /\ deliveryBusy = (TakenSlots # {})
    /\ \A p, q \in senders : p = q
    /\ sendBusy = (senders # {})
    /\ \A p \in senders : p.attempt \in DOMAIN attempts /\ attempts[p.attempt].state = "running"
    /\ \A n \in DOMAIN attempts : attempts[n].state = "scheduled" => ~attempts[n].closed

\* The owner, and the attempt it scheduled.
OwnerOK ==
    /\ liveOwner.attempt = 0 <=> liveOwner = NoMetricOwner
    /\ liveOwner.id = NoName <=> liveOwner = NoMetricOwner
    /\ liveOwner.attempt # 0 => liveOwner.attempt \in DOMAIN attempts
    /\ stage = "running" => due = {}
    /\ "metrics" \in due \/ liveOwner = NoMetricOwner \/ liveOwner.id = openSession

ScheduledOK ==
    \A n \in DOMAIN attempts : attempts[n].state = "scheduled" =>
        /\ n = liveOwner.attempt
        /\ attempts[n].event.session = liveOwner.id
        /\ liveOwner.id = openSession => attempts[n].event.epoch = metricEpoch
        /\ \A r \in attempts[n].event.rows : Honest(r)

\* A turn knows what it asked for as long as it is not ambiguous.
TurnOK ==
    metricTurn.active /\ ~metricTurn.ambiguous =>
        IF metricTurn.requestSeen THEN asked \subseteq {metricTurn.selection} ELSE asked = {}

\* A task that may still be reported, and what was kept of its responses.
TasksOK ==
    \A t \in MetricTask :
        /\ agentTasks[t].registered => agentTasks[t].epoch = metricEpoch
        /\ \A r \in agentTasks[t].seen : Honest(r)

\* A process sends rows that tell the truth.
SentOK ==
    \A p \in senders : \A r \in p.rows :
        /\ r.model \in PublicModel \cup {CustomName, NoName}
        /\ r.evidence = "selected" => r.model = r.truth

MetricsInv == TypesOK /\ SlotOK /\ OwnerOK /\ ScheduledOK /\ TurnOK /\ TasksOK /\ SentOK

-----------------------------------------------------------------------------
(* Rows.                                                                   *)

\* The names a response may carry, the replacement and nothing are told apart.
LEMMA NamesAreApart ==
  /\ NoName \notin PublicModel /\ CustomName \notin PublicModel
  /\ NoName \notin MetricSession /\ NoName \notin RawModel
  /\ \A m \in PrivateModel : m \notin PublicModel
  /\ \A m \in RawModel \cup {NoName} : NormalizeRuntimeModel(m) \in Names
  /\ \A m \in RawModel \cup {NoName} : NormalizeRuntimeModel(m) \in PublicModel => NormalizeRuntimeModel(m) = m
BY MetricsAssumption DEF Names, RawModel, NormalizeRuntimeModel

\* A row whose selection and observation are what was asked for, or nothing, is honest.
LEMMA RecordedRowsAreHonest ==
  ASSUME NEW m \in RawModel, NEW s \in {m, NoName}, NEW o \in {m, NoName}, NEW r \in RawModel \cup {NoName}
  PROVE  RecordRow(s, o, r, m) \in Row /\ Honest(RecordRow(s, o, r, m))
<1>1. s \in RawModel \cup {NoName} /\ o \in RawModel \cup {NoName} /\ m \in Names
  BY DEF RawModel, Names
<1>2. /\ NormalizeRuntimeModel(s) \in Names /\ NormalizeRuntimeModel(o) \in Names
      /\ NormalizeRuntimeModel(r) \in Names
  BY <1>1, NamesAreApart
<1>3. /\ NormalizeRuntimeModel(s) \in PublicModel => NormalizeRuntimeModel(s) = m
      /\ NormalizeRuntimeModel(o) \in PublicModel => NormalizeRuntimeModel(o) = m
  <2>1. /\ NormalizeRuntimeModel(s) \in PublicModel => NormalizeRuntimeModel(s) = s
        /\ NormalizeRuntimeModel(o) \in PublicModel => NormalizeRuntimeModel(o) = o
    BY <1>1, NamesAreApart
  <2> QED
    BY <2>1, NamesAreApart
<1> QED
  BY <1>1, <1>2, <1>3 DEF RecordRow, Row, Honest

\* What is sent of an honest row tells the truth.
LEMMA EncodedRowsAreTrue ==
  ASSUME NEW r \in Row, Honest(r)
  PROVE  /\ EncodeRow(r) \in SentRow
         /\ EncodeRow(r).model \in PublicModel \cup {CustomName, NoName}
         /\ EncodeRow(r).evidence = "selected" => EncodeRow(r).model = EncodeRow(r).truth
<1> DEFINE public == {f \in {"response", "selected", "observed"} : r[f] \in PublicModel}
           field == IF "response" \in public THEN "response" ELSE IF "selected" \in public THEN "selected" ELSE "observed"
<1>1. /\ r.selected \in Names /\ r.observed \in Names /\ r.response \in Names /\ r.truth \in Names
      /\ r.selected \in PublicModel => r.selected = r.truth
      /\ r.observed \in PublicModel => r.observed = r.truth
  BY DEF Row, Honest
<1>2. EncodeRow(r) = [model |-> IF public = {} THEN NoName ELSE r[field],
                      evidence |-> IF public = {} THEN "unknown" ELSE IF field = "response" THEN "response" ELSE "selected",
                      truth |-> r.truth]
  BY DEF EncodeRow
<1>3. CASE public = {}
  BY <1>1, <1>2, <1>3 DEF SentRow, Names
<1>4. CASE public # {}
  <2>1. r[field] \in PublicModel /\ (field # "response" => r[field] = r.truth)
    BY <1>1, <1>4
  <2>2. PublicModel \subseteq Names
    BY DEF Names
  <2> HIDE DEF field, public
  <2> QED
    BY <1>1, <1>2, <1>4, <2>1, <2>2 DEF SentRow
<1> QED
  BY <1>3, <1>4

-----------------------------------------------------------------------------
(* The slot.                                                               *)

NoneSpawned == \A p \in senders' : \E q \in senders : q.attempt = p.attempt

\* What is known of an attempt.
LEMMA AttemptsAre ==
  ASSUME TypesOK, NEW n \in DOMAIN attempts
  PROVE  /\ n \in Nat /\ n # 0 /\ n <= Len(attempts) /\ attempts[n] \in Attempt
         /\ attempts[n].event \in Event /\ attempts[n].state \in {"idle", "scheduled", "running"}
         /\ attempts[n].closed \in BOOLEAN
<1>1. n \in Nat /\ n # 0 /\ n <= Len(attempts) /\ attempts[n] \in Attempt
  BY DEF TypesOK
<1> QED
  BY <1>1 DEF Attempt

\* An attempt that has ended, closed or not, waits for nothing.
LEMMA IdleIsAttempt ==
  /\ IdleAttempt \in Attempt /\ [IdleAttempt EXCEPT !.closed = TRUE] \in Attempt
  /\ IdleAttempt.state = "idle" /\ ~IdleAttempt.closed
  /\ [IdleAttempt EXCEPT !.closed = TRUE].state = "idle"
BY DEF IdleAttempt, Attempt, NoEvent, Event

\* dispose() leaves nothing scheduled, and a slot held only by a process that
\* is still to close.
LEMMA DisposeKeeps ==
  ASSUME MetricsInv, NEW extra \in {<<>>, <<IdleAttempt>>},
         DisposeAttempt(liveOwner.attempt, extra), sendBusy' = sendBusy
  PROVE  /\ attempts' \in Seq(Attempt) /\ senders' \subseteq Sender /\ deliveryBusy' \in BOOLEAN
         /\ SlotOK' /\ SentOK' /\ NoneSpawned
         /\ \A n \in DOMAIN attempts' : attempts'[n].state # "scheduled"
         /\ Len(attempts') = Len(attempts) + Len(extra)
<1> DEFINE n == liveOwner.attempt
           fixed == IF n = 0 THEN attempts
                    ELSE [attempts EXCEPT ![n] = IF @.state = "scheduled" THEN [IdleAttempt EXCEPT !.closed = TRUE]
                                                 ELSE [@ EXCEPT !.closed = TRUE]]
<1>1. /\ attempts \in Seq(Attempt) /\ senders \subseteq Sender /\ n \in Nat
      /\ n # 0 => n \in DOMAIN attempts
      /\ deliveryBusy \in BOOLEAN
  BY DEF MetricsInv, TypesOK, OwnerOK, Owner
<1>2. extra \in Seq(Attempt)
  <2>1. <<>> \in Seq(Attempt)
    OBVIOUS
  <2>2. <<IdleAttempt>> \in Seq(Attempt)
    BY IdleIsAttempt
  <2> QED
    BY <2>1, <2>2
<1>3. /\ fixed \in Seq(Attempt) /\ Len(fixed) = Len(attempts) /\ DOMAIN fixed = DOMAIN attempts
  <2>1. CASE n = 0
    BY <2>1, <1>1
  <2>2. CASE n # 0
    <3>1. attempts[n] \in Attempt
      BY <1>1, <2>2
    <3>2. [attempts[n] EXCEPT !.closed = TRUE] \in Attempt
      BY <3>1 DEF Attempt
    <3> DEFINE value == IF attempts[n].state = "scheduled" THEN [IdleAttempt EXCEPT !.closed = TRUE]
                        ELSE [attempts[n] EXCEPT !.closed = TRUE]
    <3>3. value \in Attempt
      BY <3>2, IdleIsAttempt
    <3>4. fixed = [attempts EXCEPT ![n] = value]
      BY <2>2
    <3> HIDE DEF value, fixed
    <3> QED
      BY <3>3, <3>4, <1>1, <2>2
  <2> QED
    BY <2>1, <2>2
<1>4. attempts' = fixed \o extra
  <2>1. CASE n = 0
    BY <2>1 DEF DisposeAttempt
  <2>2. CASE n # 0
    BY <2>2 DEF DisposeAttempt
  <2> QED
    BY <2>1, <2>2
<1>5. \A k \in DOMAIN attempts :
        /\ fixed[k].state # "scheduled"
        /\ fixed[k].state = "running" <=> attempts[k].state = "running"
  <2> SUFFICES ASSUME NEW k \in DOMAIN attempts
               PROVE  /\ fixed[k].state # "scheduled"
                      /\ fixed[k].state = "running" <=> attempts[k].state = "running"
    OBVIOUS
  <2>1. attempts[k].state = "scheduled" => k = n
    BY DEF MetricsInv, ScheduledOK
  <2>2. attempts[k] \in Attempt
    BY <1>1
  <2>3. CASE k # n
    <3>1. fixed[k] = attempts[k]
      BY <2>3, <1>1
    <3> QED
      BY <3>1, <2>1, <2>3
  <2>4. CASE k = n
    <3>1. n # 0
      BY <1>1, <2>4
    <3>2. fixed[k] = IF attempts[k].state = "scheduled" THEN [IdleAttempt EXCEPT !.closed = TRUE]
                     ELSE [attempts[k] EXCEPT !.closed = TRUE]
      BY <1>1, <2>4, <3>1
    <3> HIDE DEF fixed
    <3>3. CASE attempts[k].state = "scheduled"
      <4>1. fixed[k] = [IdleAttempt EXCEPT !.closed = TRUE]
        BY <3>2, <3>3
      <4> QED
        BY <4>1, <3>3, IdleIsAttempt
    <3>4. CASE attempts[k].state # "scheduled"
      <4>1. fixed[k] = [attempts[k] EXCEPT !.closed = TRUE]
        BY <3>2, <3>4
      <4>2. [attempts[k] EXCEPT !.closed = TRUE].state = attempts[k].state
        BY <2>2 DEF Attempt
      <4> QED
        BY <4>1, <4>2, <3>4
    <3> QED
      BY <3>3, <3>4
  <2> QED
    BY <2>3, <2>4
<1> HIDE DEF fixed
<1>6. /\ attempts' \in Seq(Attempt) /\ Len(attempts') = Len(attempts) + Len(extra)
      /\ \A k \in DOMAIN attempts : k \in DOMAIN attempts' /\ attempts'[k] = fixed[k]
      /\ \A k \in DOMAIN attempts' : k \notin DOMAIN attempts => attempts'[k] = IdleAttempt
  BY <1>1, <1>2, <1>3, <1>4
<1>7. \A k \in DOMAIN attempts' : attempts'[k].state # "scheduled"
  BY <1>5, <1>6, IdleIsAttempt
<1>8. TakenSlots' = {k \in DOMAIN attempts : attempts[k].state = "running"}
  <2>1. \A k \in DOMAIN attempts' : attempts'[k] \in Attempt
    BY <1>6
  <2>2. \A k \in DOMAIN attempts' : attempts'[k].state \in {"idle", "scheduled", "running"}
    BY <2>1 DEF Attempt
  <2>3. \A k \in DOMAIN attempts' : attempts'[k].state # "idle" <=> attempts'[k].state = "running"
    BY <2>2, <1>7
  <2>4. \A k \in DOMAIN attempts' : k \in TakenSlots' <=> k \in DOMAIN attempts /\ attempts[k].state = "running"
    BY <2>3, <1>5, <1>6, IdleIsAttempt DEF TakenSlots
  <2> QED
    BY <2>4, <1>6 DEF TakenSlots
<1>9. TakenSlots' \subseteq TakenSlots
  BY <1>8 DEF TakenSlots
<1>10. /\ NoneSpawned /\ senders' \subseteq Sender /\ (senders' = {} <=> senders = {})
       /\ \A p \in senders' : \E q \in senders : p.attempt = q.attempt /\ p.rows = q.rows
       /\ \A p, q \in senders' : p = q
  <2>1. CASE n = 0
    BY <2>1, <1>1 DEF DisposeAttempt, NoneSpawned, MetricsInv, SlotOK
  <2>2. CASE n # 0
    <3> DEFINE Told(p) == IF p.attempt = n THEN [p EXCEPT !.rejected = TRUE] ELSE p
    <3>1. senders' = {Told(p) : p \in senders}
      BY <2>2 DEF DisposeAttempt
    <3>2. \A p \in senders : Told(p) \in Sender /\ Told(p).attempt = p.attempt /\ Told(p).rows = p.rows
      BY <1>1 DEF Sender
    <3>3. \A p, q \in senders : p = q
      BY DEF MetricsInv, SlotOK
    <3> HIDE DEF Told
    <3> QED
      BY <3>1, <3>2, <3>3 DEF NoneSpawned
  <2> QED
    BY <2>1, <2>2
<1>11. deliveryBusy' = (TakenSlots' # {})
  <2>0. deliveryBusy = (TakenSlots # {}) /\ \A j, k \in TakenSlots : j = k
    BY DEF MetricsInv, SlotOK
  <2>1. CASE n # 0 /\ attempts[n].state = "scheduled"
    <3>1. ~attempts[n].closed
      BY <1>1, <2>1 DEF MetricsInv, SlotOK
    <3>2. deliveryBusy' = FALSE
      BY <2>1, <3>1 DEF DisposeAttempt, ReleasedByDispose
    <3>3. n \in TakenSlots
      BY <1>1, <2>1 DEF TakenSlots
    <3>4. TakenSlots' = {}
      BY <1>8, <3>3, <2>0, <2>1, <1>9
    <3> QED
      BY <3>2, <3>4
  <2>2. CASE ~(n # 0 /\ attempts[n].state = "scheduled")
    <3>1. deliveryBusy' = deliveryBusy
      BY <2>2 DEF DisposeAttempt, ReleasedByDispose
    <3>2. TakenSlots' = TakenSlots
      <4>1. \A k \in DOMAIN attempts : attempts[k].state # "scheduled"
        BY <2>2, <1>1 DEF MetricsInv, ScheduledOK
      <4>2. \A k \in DOMAIN attempts : attempts[k].state \in {"idle", "scheduled", "running"}
        BY AttemptsAre DEF MetricsInv
      <4> QED
        BY <4>1, <4>2, <1>8 DEF TakenSlots
    <3> QED
      BY <3>1, <3>2, <2>0
  <2> QED
    BY <2>1, <2>2
<1>12. SlotOK'
  <2>1. /\ \A j, k \in TakenSlots' : j = k
        /\ sendBusy' = (senders' # {})
    BY <1>9, <1>10 DEF MetricsInv, SlotOK
  <2>2. \A p \in senders' : p.attempt \in DOMAIN attempts' /\ attempts'[p.attempt].state = "running"
    BY <1>10, <1>5, <1>6 DEF MetricsInv, SlotOK
  <2> QED
    BY <2>1, <2>2, <1>7, <1>10, <1>11 DEF SlotOK
<1>13. SentOK'
  BY <1>10 DEF MetricsInv, SentOK
<1>14. deliveryBusy' \in BOOLEAN
  BY <1>11
<1> QED
  BY <1>6, <1>7, <1>10, <1>12, <1>13, <1>14

\* offer() takes the slot for an event of the live owner, or leaves it alone.
LEMMA OfferKeeps ==
  ASSUME MetricsInv, liveOwner # NoMetricOwner, NEW event \in Event, event.session = liveOwner.id,
         liveOwner.id = openSession => event.epoch = metricEpoch, \A r \in event.rows : Honest(r),
         Offer(liveOwner.attempt, event), UNCHANGED <<senders, sendBusy, openSession, metricEpoch>>,
         liveOwner'.id = liveOwner.id, liveOwner'.attempt = liveOwner.attempt
  PROVE  /\ attempts' \in Seq(Attempt) /\ senders' \subseteq Sender /\ deliveryBusy' \in BOOLEAN
         /\ SlotOK' /\ SentOK' /\ NoneSpawned /\ ScheduledOK' /\ DOMAIN attempts' = DOMAIN attempts
<1> DEFINE n == liveOwner.attempt
<1>1. /\ attempts \in Seq(Attempt) /\ senders \subseteq Sender /\ n \in Nat /\ n \in DOMAIN attempts
      /\ deliveryBusy \in BOOLEAN
  BY DEF MetricsInv, TypesOK, OwnerOK, Owner
<1>2. SentOK' /\ NoneSpawned
  BY DEF MetricsInv, SentOK, NoneSpawned
<1>3. CASE attempts[n].closed \/ deliveryBusy
  <2>1. UNCHANGED <<attempts, deliveryBusy>>
    BY <1>3 DEF Offer
  <2> QED
    BY <2>1, <1>1, <1>2 DEF MetricsInv, SlotOK, ScheduledOK, TakenSlots
<1>4. CASE ~(attempts[n].closed \/ deliveryBusy)
  <2> DEFINE made == [attempts[n] EXCEPT !.state = "scheduled", !.event = event]
  <2>1. attempts' = [attempts EXCEPT ![n] = made] /\ deliveryBusy' = TRUE
    BY <1>4 DEF Offer
  <2>2. made \in Attempt /\ made.state = "scheduled" /\ made.event = event /\ ~made.closed
    <3>1. attempts[n] \in Attempt
      BY <1>1
    <3> QED
      BY <3>1, <1>4 DEF Attempt
  <2> HIDE DEF made
  <2>3. /\ attempts' \in Seq(Attempt) /\ DOMAIN attempts' = DOMAIN attempts
        /\ \A k \in DOMAIN attempts : attempts'[k] = IF k = n THEN made ELSE attempts[k]
    BY <1>1, <2>1, <2>2
  <2>4. TakenSlots = {} /\ senders = {}
    <3>1. TakenSlots = {}
      BY <1>4 DEF MetricsInv, SlotOK
    <3>2. \A p \in senders : p.attempt \in TakenSlots
      BY DEF MetricsInv, SlotOK, TakenSlots
    <3> QED
      BY <3>1, <3>2
  <2>5. TakenSlots' = {n}
    BY <2>2, <2>3, <2>4, <1>1 DEF TakenSlots
  <2>6. SlotOK'
    <3>1. /\ \A i, j \in TakenSlots' : i = j
          /\ deliveryBusy' = (TakenSlots' # {})
      BY <2>1, <2>5
    <3>2. /\ \A p, q \in senders' : p = q
          /\ sendBusy' = (senders' # {})
          /\ \A p \in senders' : p.attempt \in DOMAIN attempts' /\ attempts'[p.attempt].state = "running"
      BY <2>4 DEF MetricsInv, SlotOK
    <3>3. \A k \in DOMAIN attempts' : attempts'[k].state = "scheduled" => ~attempts'[k].closed
      BY <2>2, <2>3 DEF MetricsInv, SlotOK
    <3> QED
      BY <3>1, <3>2, <3>3 DEF SlotOK
  <2>7. ScheduledOK'
    <3>1. \A k \in DOMAIN attempts : k # n => attempts[k].state # "scheduled"
      BY DEF MetricsInv, ScheduledOK
    <3> QED
      BY <2>2, <2>3, <3>1 DEF ScheduledOK
  <2> QED
    BY <1>1, <1>2, <2>1, <2>3, <2>6, <2>7
<1> QED
  BY <1>3, <1>4

\* A step that leaves the slot alone.
LEMMA SlotRests ==
  ASSUME MetricsInv, UNCHANGED slotVars
  PROVE  SlotOK' /\ SentOK' /\ NoneSpawned
BY DEF slotVars, MetricsInv, SlotOK, SentOK, NoneSpawned, TakenSlots

\* One step of the action property.
LiveSent ==
    \A p \in senders' : p.attempt \notin {q.attempt : q \in senders} =>
        p.event.session = openSession /\ p.event.epoch = metricEpoch /\ RuntimeMetricsEnvAllows

\* A step that starts no process sends no event.
LEMMA NoneSpawnedIsLive == NoneSpawned => LiveSent
BY DEF NoneSpawned, LiveSent

-----------------------------------------------------------------------------
(* The steps of the slot.                                                  *)

\* invalidate() makes a turn ambiguous, its end inactive.
LEMMA InvalidatedIsTurn ==
  ASSUME metricTurn \in Turn
  PROVE  /\ Invalidated \in Turn /\ Invalidated.ambiguous
         /\ [Invalidated EXCEPT !.active = FALSE] \in Turn
         /\ ~[Invalidated EXCEPT !.active = FALSE].active
BY DEF Turn, Invalidated

\* No owner is told from an owner by its session and by its attempt.
LEMMA NoOwnerIsOwner == NoMetricOwner \in Owner /\ NoMetricOwner.id = NoName /\ NoMetricOwner.attempt = 0
BY DEF NoMetricOwner, Owner

\* One attempt is replaced.
LEMMA AttemptChanges ==
  ASSUME attempts \in Seq(Attempt), NEW n \in DOMAIN attempts, NEW v \in Attempt, attempts' = [attempts EXCEPT ![n] = v]
  PROVE  /\ attempts' \in Seq(Attempt) /\ DOMAIN attempts' = DOMAIN attempts
         /\ \A k \in DOMAIN attempts : attempts'[k] = IF k = n THEN v ELSE attempts[k]
OBVIOUS

\* What the end of an attempt makes of it.
LEMMA AttemptEnds ==
  ASSUME MetricsInv, NEW n \in TakenSlots, NEW finished \in Attempt, finished.state = "idle",
         attempts' = [attempts EXCEPT ![n] = finished],
         deliveryBusy' = FALSE, senders' = {}, sendBusy' = FALSE
  PROVE  /\ attempts' \in Seq(Attempt) /\ DOMAIN attempts' = DOMAIN attempts /\ senders' \subseteq Sender
         /\ SlotOK' /\ SentOK' /\ NoneSpawned
         /\ \A k \in DOMAIN attempts' : attempts'[k].state = "idle"
<1>1. attempts \in Seq(Attempt) /\ n \in DOMAIN attempts
  BY DEF MetricsInv, TypesOK, TakenSlots
<1>3. /\ attempts' \in Seq(Attempt) /\ DOMAIN attempts' = DOMAIN attempts
      /\ \A k \in DOMAIN attempts : attempts'[k] = IF k = n THEN finished ELSE attempts[k]
  BY <1>1, AttemptChanges
<1>4. \A k \in DOMAIN attempts' : attempts'[k].state = "idle"
  <2>1. \A k \in DOMAIN attempts : k # n => attempts[k].state = "idle"
    BY DEF MetricsInv, SlotOK, TakenSlots
  <2> QED
    BY <1>3, <2>1
<1>5. TakenSlots' = {}
  BY <1>4 DEF TakenSlots
<1> QED
  BY <1>3, <1>4, <1>5 DEF SlotOK, SentOK, NoneSpawned

\* The process of an event of the live owner is one of this session and epoch.
LEMMA SpawnKeeps ==
  ASSUME MetricsInv, NEW n \in DOMAIN attempts, attempts[n].state = "scheduled", MayRun(n), ~sendBusy,
         attempts' = [attempts EXCEPT ![n].state = "running", ![n].event = NoEvent], sendBusy' = TRUE,
         senders' = senders \cup {[attempt |-> n, rejected |-> FALSE, event |-> attempts[n].event,
                                   rows |-> EncodeNativeRuntimeEvent(attempts[n].event.rows)]},
         UNCHANGED <<deliveryBusy, liveOwner, metricTurn, hostVars, agentVars, asked>>
  PROVE  MetricsInv' /\ LiveSent
<1> DEFINE made == [attempts[n] EXCEPT !.state = "running", !.event = NoEvent]
           sender == [attempt |-> n, rejected |-> FALSE, event |-> attempts[n].event,
                      rows |-> EncodeNativeRuntimeEvent(attempts[n].event.rows)]
<1>1. /\ attempts \in Seq(Attempt) /\ attempts[n] \in Attempt /\ n \in Nat /\ attempts[n].event \in Event
      /\ attempts[n].event.rows \subseteq Row
  <2>1. attempts[n] \in Attempt /\ n \in Nat /\ attempts[n].event \in Event
    BY AttemptsAre DEF MetricsInv
  <2> QED
    BY <2>1 DEF MetricsInv, TypesOK, Event
<1>2. /\ attempts[n].event.session = liveOwner.id
      /\ liveOwner.id = openSession => attempts[n].event.epoch = metricEpoch
      /\ \A r \in attempts[n].event.rows : Honest(r)
  BY DEF MetricsInv, ScheduledOK
<1>3. /\ EncodeNativeRuntimeEvent(attempts[n].event.rows) \in SUBSET SentRow
      /\ \A r \in EncodeNativeRuntimeEvent(attempts[n].event.rows) :
           /\ r.model \in PublicModel \cup {CustomName, NoName}
           /\ r.evidence = "selected" => r.model = r.truth
  BY <1>1, <1>2, EncodedRowsAreTrue DEF EncodeNativeRuntimeEvent
<1>4. made \in Attempt /\ made.state = "running"
  BY <1>1 DEF Attempt, NoEvent, Event
<1>5. sender \in Sender
  BY <1>1, <1>3 DEF Sender
<1>6. senders = {} /\ senders' = {sender}
  BY DEF MetricsInv, SlotOK
<1>7. sender.attempt = n /\ sender.event = attempts[n].event
      /\ sender.rows = EncodeNativeRuntimeEvent(attempts[n].event.rows)
  OBVIOUS
<1>8. attempts' = [attempts EXCEPT ![n] = made]
  OBVIOUS
<1> HIDE DEF made, sender
<1>9. /\ attempts' \in Seq(Attempt) /\ DOMAIN attempts' = DOMAIN attempts
      /\ \A k \in DOMAIN attempts : attempts'[k] = IF k = n THEN made ELSE attempts[k]
  BY <1>1, <1>4, <1>8, AttemptChanges
<1>10. TakenSlots' = TakenSlots
  BY <1>4, <1>9 DEF TakenSlots
<1>11. TypesOK'
  BY <1>5, <1>6, <1>9 DEF MetricsInv, TypesOK, hostVars, agentVars
<1>12. SlotOK'
  <2>1. \A k \in DOMAIN attempts' : attempts'[k].state = "scheduled" => ~attempts'[k].closed
    BY <1>4, <1>9 DEF MetricsInv, SlotOK
  <2>2. /\ \A i, j \in TakenSlots' : i = j
        /\ deliveryBusy' = (TakenSlots' # {})
    BY <1>10 DEF MetricsInv, SlotOK
  <2>3. /\ \A p, q \in senders' : p = q
        /\ sendBusy' = (senders' # {})
        /\ \A p \in senders' : p.attempt \in DOMAIN attempts' /\ attempts'[p.attempt].state = "running"
    BY <1>4, <1>6, <1>7, <1>9
  <2> QED
    BY <2>1, <2>2, <2>3 DEF SlotOK
<1>13. OwnerOK' /\ TurnOK' /\ TasksOK'
  BY <1>9 DEF MetricsInv, OwnerOK, TurnOK, TasksOK, hostVars, agentVars
<1>14. ScheduledOK'
  BY <1>4, <1>9 DEF MetricsInv, ScheduledOK, hostVars
<1>15. SentOK'
  BY <1>3, <1>6, <1>7 DEF SentOK
<1>16. LiveSent
  BY <1>2, <1>6, <1>7 DEF LiveSent, MayRun, Current
<1> QED
  BY <1>11, <1>12, <1>13, <1>14, <1>15, <1>16 DEF MetricsInv

\* No process belongs to a slot that is only scheduled.
LEMMA ScheduledIsAlone ==
  ASSUME MetricsInv, NEW n \in DOMAIN attempts, attempts[n].state = "scheduled"
  PROVE  n \in TakenSlots /\ senders = {} /\ ~sendBusy
<1>1. n \in TakenSlots
  BY DEF TakenSlots
<1>2. \A p \in senders : p.attempt \in TakenSlots /\ attempts[p.attempt].state = "running"
  BY DEF MetricsInv, SlotOK, TakenSlots
<1>3. \A k \in TakenSlots : k = n
  BY <1>1 DEF MetricsInv, SlotOK
<1>4. senders = {}
  BY <1>2, <1>3
<1> QED
  BY <1>1, <1>4 DEF MetricsInv, SlotOK

\* An accepted attempt runs: it starts a process, is refused, or finds its owner gone.
LEMMA RunAttemptKeeps ==
  ASSUME MetricsInv, NEW n \in DOMAIN attempts, RunAttempt(n)
  PROVE  MetricsInv' /\ LiveSent
<1>1. n \in TakenSlots /\ senders = {} /\ ~sendBusy
  BY ScheduledIsAlone DEF RunAttempt
<1>2. sendBusy = FALSE
  BY <1>1 DEF MetricsInv, TypesOK
<1>3. CASE MayRun(n) /\ ~sendBusy /\ attempts' = [attempts EXCEPT ![n].state = "running", ![n].event = NoEvent]
           /\ sendBusy' = TRUE
           /\ senders' = senders \cup {[attempt |-> n, rejected |-> FALSE, event |-> attempts[n].event,
                                        rows |-> EncodeNativeRuntimeEvent(attempts[n].event.rows)]}
           /\ UNCHANGED <<deliveryBusy, liveOwner, metricTurn>>
  BY <1>3, SpawnKeeps DEF RunAttempt
<1>4. CASE Current /\ attempts' = [attempts EXCEPT ![n] = IdleAttempt] /\ deliveryBusy' = FALSE
           /\ UNCHANGED <<sendBusy, senders, liveOwner, metricTurn>>
  <2>1. /\ attempts' \in Seq(Attempt) /\ DOMAIN attempts' = DOMAIN attempts /\ senders' \subseteq Sender
        /\ SlotOK' /\ SentOK' /\ NoneSpawned /\ \A k \in DOMAIN attempts' : attempts'[k].state = "idle"
    <3>1. deliveryBusy' = FALSE /\ senders' = {} /\ sendBusy' = FALSE
      BY <1>1, <1>2, <1>4
    <3> QED
      BY <1>1, <1>4, <3>1, IdleIsAttempt, AttemptEnds
  <2>2. TypesOK' /\ OwnerOK' /\ ScheduledOK' /\ TurnOK' /\ TasksOK'
    BY <1>4, <2>1 DEF RunAttempt, MetricsInv, TypesOK, OwnerOK, ScheduledOK, TurnOK, TasksOK, hostVars, agentVars
  <2> QED
    BY <2>1, <2>2, NoneSpawnedIsLive DEF MetricsInv
<1>5. CASE ~Current /\ liveOwner' = NoMetricOwner /\ metricTurn' = [Invalidated EXCEPT !.active = FALSE]
           /\ attempts' = [attempts EXCEPT ![n] = [IdleAttempt EXCEPT !.closed = TRUE]]
           /\ deliveryBusy' = FALSE /\ UNCHANGED <<sendBusy, senders>>
  <2>1. /\ attempts' \in Seq(Attempt) /\ DOMAIN attempts' = DOMAIN attempts /\ senders' \subseteq Sender
        /\ SlotOK' /\ SentOK' /\ NoneSpawned /\ \A k \in DOMAIN attempts' : attempts'[k].state = "idle"
    <3>1. deliveryBusy' = FALSE /\ senders' = {} /\ sendBusy' = FALSE
      BY <1>1, <1>2, <1>5
    <3> QED
      BY <1>1, <1>5, <3>1, IdleIsAttempt, AttemptEnds
  <2>2. metricTurn' \in Turn /\ ~metricTurn'.active
    BY <1>5, InvalidatedIsTurn DEF MetricsInv, TypesOK
  <2>3. TypesOK'
    BY <1>5, <2>1, <2>2, NoOwnerIsOwner DEF RunAttempt, MetricsInv, TypesOK, hostVars, agentVars
  <2>4. OwnerOK'
    BY <1>5, NoOwnerIsOwner DEF RunAttempt, MetricsInv, OwnerOK, hostVars
  <2>5. ScheduledOK' /\ TurnOK' /\ TasksOK'
    BY <2>1, <2>2 DEF RunAttempt, MetricsInv, ScheduledOK, TurnOK, TasksOK, hostVars, agentVars
  <2> QED
    BY <2>1, <2>3, <2>4, <2>5, NoneSpawnedIsLive DEF MetricsInv
<1> QED
  BY <1>3, <1>4, <1>5 DEF RunAttempt

\* A process that is asked to die keeps the slot.
LEMMA RejectSenderKeeps ==
  ASSUME MetricsInv, NEW p \in senders, RejectSender(p)
  PROVE  MetricsInv' /\ LiveSent
<1> DEFINE told == [p EXCEPT !.rejected = TRUE]
<1>1. senders = {p} /\ senders' = {told}
  BY DEF MetricsInv, SlotOK, RejectSender
<1>2. told \in Sender /\ told.attempt = p.attempt /\ told.rows = p.rows
  BY DEF MetricsInv, TypesOK, Sender
<1> HIDE DEF told
<1>3. TypesOK' /\ OwnerOK' /\ ScheduledOK' /\ TurnOK' /\ TasksOK'
  BY <1>1, <1>2 DEF RejectSender, MetricsInv, TypesOK, OwnerOK, ScheduledOK, TurnOK, TasksOK, hostVars, agentVars, ownerVars
<1>4. SlotOK'
  <2>1. sendBusy' = (senders' # {}) /\ \A q, r \in senders' : q = r
    BY <1>1 DEF RejectSender, MetricsInv, SlotOK
  <2>2. \A q \in senders' : q.attempt \in DOMAIN attempts' /\ attempts'[q.attempt].state = "running"
    BY <1>1, <1>2 DEF RejectSender, MetricsInv, SlotOK
  <2>3. TakenSlots' = TakenSlots
    BY DEF RejectSender, TakenSlots
  <2> QED
    BY <2>1, <2>2, <2>3 DEF RejectSender, MetricsInv, SlotOK
<1>5. SentOK'
  BY <1>1, <1>2 DEF MetricsInv, SentOK
<1>6. NoneSpawned
  BY <1>1, <1>2 DEF NoneSpawned
<1> QED
  BY <1>3, <1>4, <1>5, <1>6, NoneSpawnedIsLive DEF MetricsInv

\* The process is gone: the slot is free.
LEMMA SenderClosesKeeps ==
  ASSUME MetricsInv, NEW p \in senders, SenderCloses(p)
  PROVE  MetricsInv' /\ LiveSent
<1> DEFINE n == p.attempt
<1>1. n \in TakenSlots /\ n \in DOMAIN attempts
  BY DEF MetricsInv, SlotOK, TakenSlots
<1>2. senders' = {} /\ sendBusy' = FALSE /\ deliveryBusy' = FALSE
  BY DEF MetricsInv, SlotOK, SenderCloses
<1>3. attempts[n].closed \in BOOLEAN
  BY <1>1, AttemptsAre DEF MetricsInv
<1> DEFINE finished == [IdleAttempt EXCEPT !.closed = attempts[n].closed]
<1>4. attempts' = [attempts EXCEPT ![n] = finished]
  BY DEF SenderCloses
<1>7. finished \in Attempt /\ finished.state = "idle"
  BY <1>3 DEF IdleAttempt, Attempt, NoEvent, Event
<1> HIDE DEF finished
<1>5. /\ attempts' \in Seq(Attempt) /\ DOMAIN attempts' = DOMAIN attempts /\ senders' \subseteq Sender
      /\ SlotOK' /\ SentOK' /\ NoneSpawned /\ \A k \in DOMAIN attempts' : attempts'[k].state = "idle"
  BY <1>1, <1>2, <1>4, <1>7, AttemptEnds
<1>6. TypesOK' /\ OwnerOK' /\ ScheduledOK' /\ TurnOK' /\ TasksOK'
  BY <1>2, <1>5 DEF SenderCloses, MetricsInv, TypesOK, OwnerOK, ScheduledOK, TurnOK, TasksOK, hostVars, agentVars, ownerVars
<1> QED
  BY <1>5, <1>6, NoneSpawnedIsLive DEF MetricsInv

-----------------------------------------------------------------------------
(* The steps of a turn.                                                    *)

\* dispose() of the extension: no owner, no turn, nothing scheduled.
LEMMA DisposeExtensionKeeps ==
  ASSUME MetricsInv, DisposeExtension, UNCHANGED sendBusy
  PROVE  /\ attempts' \in Seq(Attempt) /\ senders' \subseteq Sender /\ deliveryBusy' \in BOOLEAN
         /\ SlotOK' /\ SentOK' /\ LiveSent /\ ScheduledOK' /\ TurnOK'
         /\ liveOwner' = NoMetricOwner /\ liveOwner' \in Owner /\ metricTurn' \in Turn
<1>1. /\ attempts' \in Seq(Attempt) /\ senders' \subseteq Sender /\ deliveryBusy' \in BOOLEAN
      /\ SlotOK' /\ SentOK' /\ NoneSpawned
      /\ \A n \in DOMAIN attempts' : attempts'[n].state # "scheduled"
  BY DisposeKeeps DEF DisposeExtension
<1>2. ScheduledOK'
  BY <1>1 DEF ScheduledOK
<1>3. metricTurn' \in Turn /\ ~metricTurn'.active
  BY InvalidatedIsTurn DEF DisposeExtension, MetricsInv, TypesOK
<1>4. TurnOK'
  BY <1>3 DEF TurnOK
<1>5. liveOwner' = NoMetricOwner /\ liveOwner' \in Owner
  BY NoOwnerIsOwner DEF DisposeExtension
<1> QED
  BY <1>1, <1>2, <1>3, <1>4, <1>5, NoneSpawnedIsLive

\* The steps that only move the turn.
LEMMA TurnMovesKeep ==
  ASSUME MetricsInv, TurnStart \/ TurnEnd \/ BeforeCompact
  PROVE  MetricsInv' /\ LiveSent
<1>1. UNCHANGED <<hostVars, slotVars, agentVars, liveOwner>>
  BY DEF TurnStart, TurnEnd, BeforeCompact
<1>2. SlotOK' /\ SentOK' /\ NoneSpawned
  BY <1>1, SlotRests
<1>3. metricTurn \in Turn /\ asked \subseteq RawModel
  BY DEF MetricsInv, TypesOK
<1>4. /\ metricTurn' \in Turn /\ asked' \subseteq RawModel
      /\ metricTurn'.ambiguous \/ ~metricTurn'.active \/ (~metricTurn'.requestSeen /\ asked' = {})
  <2>1. CASE TurnStart
    BY <1>3, <2>1 DEF TurnStart, Turn
  <2>2. CASE TurnEnd
    BY <1>3, <2>2, InvalidatedIsTurn DEF TurnEnd
  <2>3. CASE BeforeCompact
    BY <1>3, <2>3, InvalidatedIsTurn DEF BeforeCompact
  <2> QED
    BY <2>1, <2>2, <2>3
<1>5. TurnOK'
  BY <1>4 DEF TurnOK
<1>6. TypesOK' /\ OwnerOK' /\ ScheduledOK' /\ TasksOK'
  BY <1>1, <1>4 DEF MetricsInv, TypesOK, OwnerOK, ScheduledOK, TasksOK, hostVars, slotVars, agentVars
<1> QED
  BY <1>2, <1>5, <1>6, NoneSpawnedIsLive DEF MetricsInv

\* A turn that is not ambiguous after a request has made no other.
LEMMA RequestIsKnown ==
  ASSUME MetricsInv, NEW m \in RawModel
  PROVE  /\ AfterRequest(m) \in Turn
         /\ AfterRequest(m).active /\ ~AfterRequest(m).ambiguous =>
              /\ AfterRequest(m).requestSeen /\ AfterRequest(m).selection = m
              /\ asked = {}
<1> DEFINE seen == IF metricTurn.requestSeen THEN Invalidated ELSE metricTurn
<1>1. metricTurn \in Turn /\ seen \in Turn
  BY InvalidatedIsTurn DEF MetricsInv, TypesOK
<1>2. seen.active /\ ~seen.ambiguous => seen = metricTurn /\ ~metricTurn.requestSeen
  BY <1>1, InvalidatedIsTurn
<1>3. seen.active /\ ~seen.ambiguous => asked = {}
  BY <1>2 DEF MetricsInv, TurnOK
<1>4. AfterRequest(m) = IF seen.active /\ ~seen.ambiguous THEN [seen EXCEPT !.requestSeen = TRUE, !.selection = m]
                        ELSE [seen EXCEPT !.requestSeen = TRUE]
  BY DEF AfterRequest
<1> HIDE DEF seen
<1>5. CASE seen.active /\ ~seen.ambiguous
  <2>1. AfterRequest(m) = [seen EXCEPT !.requestSeen = TRUE, !.selection = m]
    BY <1>4, <1>5
  <2>2. /\ [seen EXCEPT !.requestSeen = TRUE, !.selection = m] \in Turn
        /\ [seen EXCEPT !.requestSeen = TRUE, !.selection = m].requestSeen
        /\ [seen EXCEPT !.requestSeen = TRUE, !.selection = m].selection = m
    BY <1>1 DEF Turn
  <2> QED
    BY <2>1, <2>2, <1>3, <1>5
<1>6. CASE ~(seen.active /\ ~seen.ambiguous)
  <2>1. AfterRequest(m) = [seen EXCEPT !.requestSeen = TRUE]
    BY <1>4, <1>6
  <2>2. /\ [seen EXCEPT !.requestSeen = TRUE] \in Turn
        /\ [seen EXCEPT !.requestSeen = TRUE].active = seen.active
        /\ [seen EXCEPT !.requestSeen = TRUE].ambiguous = seen.ambiguous
    BY <1>1 DEF Turn
  <2> QED
    BY <2>1, <2>2, <1>6
<1> QED
  BY <1>5, <1>6

\* A request is made by a live owner, or disposes of a stale one.
LEMMA BeforeProviderRequestKeeps ==
  ASSUME MetricsInv, NEW m \in RawModel, BeforeProviderRequest(m)
  PROVE  MetricsInv' /\ LiveSent
<1>1. asked' = asked \cup {m} /\ asked' \subseteq RawModel /\ UNCHANGED <<hostVars, agentVars, sendBusy>>
  BY DEF BeforeProviderRequest, MetricsInv, TypesOK
<1>2. CASE Current
  <2>1. metricTurn' = AfterRequest(m) /\ UNCHANGED <<liveOwner, attempts, deliveryBusy, senders>>
    BY <1>2 DEF BeforeProviderRequest
  <2>2. SlotOK' /\ SentOK' /\ NoneSpawned
    BY <1>1, <2>1, SlotRests DEF slotVars
  <2>3. metricTurn' \in Turn
    BY <2>1, RequestIsKnown
  <2>4. TurnOK'
    BY <1>1, <2>1, RequestIsKnown DEF TurnOK
  <2>5. TypesOK' /\ OwnerOK' /\ ScheduledOK' /\ TasksOK'
    BY <1>1, <2>1, <2>3 DEF MetricsInv, TypesOK, OwnerOK, ScheduledOK, TasksOK, hostVars, agentVars
  <2> QED
    BY <2>2, <2>4, <2>5, NoneSpawnedIsLive DEF MetricsInv
<1>3. CASE ~Current
  <2>1. DisposeExtension
    BY <1>3 DEF BeforeProviderRequest
  <2>2. /\ attempts' \in Seq(Attempt) /\ senders' \subseteq Sender /\ deliveryBusy' \in BOOLEAN
        /\ SlotOK' /\ SentOK' /\ LiveSent /\ ScheduledOK' /\ TurnOK'
        /\ liveOwner' = NoMetricOwner /\ liveOwner' \in Owner /\ metricTurn' \in Turn
    BY <1>1, <2>1, DisposeExtensionKeeps
  <2>3. TypesOK' /\ OwnerOK' /\ TasksOK'
    BY <1>1, <2>2, NoOwnerIsOwner DEF MetricsInv, TypesOK, OwnerOK, TasksOK, hostVars, agentVars
  <2> QED
    BY <2>2, <2>3 DEF MetricsInv
<1> QED
  BY <1>2, <1>3

\* The selection given to a response is the model it answers for, or none.
LEMMA SelectionIsAnswered ==
  ASSUME MetricsInv, NEW m \in asked
  PROVE  (IF metricTurn.active /\ ~metricTurn.ambiguous THEN metricTurn.selection ELSE NoName) \in {m, NoName}
BY DEF MetricsInv, TurnOK

\* A response is offered with the selection of the request it answers.
LEMMA MessageEndKeeps ==
  ASSUME MetricsInv, NEW m \in RawModel, NEW r \in RawModel \cup {NoName}, NEW o \in {m, NoName}, MessageEnd(m, o, r)
  PROVE  MetricsInv' /\ LiveSent
<1>1. asked' \subseteq RawModel /\ m \in asked /\ UNCHANGED <<hostVars, agentVars, sendBusy>>
  BY DEF MessageEnd, MetricsInv, TypesOK
<1>2. CASE Current
  <2> DEFINE s == IF metricTurn.active /\ ~metricTurn.ambiguous THEN metricTurn.selection ELSE NoName
             row == RecordRow(s, o, r, m)
             event == [session |-> liveOwner.id, owner |-> liveOwner.started, epoch |-> metricEpoch, rows |-> {row}]
  <2>1. s \in {m, NoName}
    BY <1>1, SelectionIsAnswered
  <2>2. Offer(liveOwner.attempt, event) /\ UNCHANGED senders /\ metricTurn' = Invalidated /\ UNCHANGED liveOwner
    BY <1>2 DEF MessageEnd, Submit
  <2> HIDE DEF s
  <2>3. row \in Row /\ Honest(row)
    BY <2>1, RecordedRowsAreHonest
  <2> HIDE DEF row
  <2>4. /\ event \in Event /\ event.session = liveOwner.id /\ event.epoch = metricEpoch
        /\ \A x \in event.rows : Honest(x)
    BY <2>3 DEF Event, MetricsInv, TypesOK, Owner
  <2> HIDE DEF event
  <2>5. liveOwner # NoMetricOwner
    BY <1>2 DEF Current
  <2>6. UNCHANGED <<openSession, metricEpoch>>
    BY <1>1 DEF hostVars
  <2>7. /\ attempts' \in Seq(Attempt) /\ senders' \subseteq Sender /\ deliveryBusy' \in BOOLEAN
        /\ SlotOK' /\ SentOK' /\ NoneSpawned /\ ScheduledOK' /\ DOMAIN attempts' = DOMAIN attempts
    BY <1>1, <2>2, <2>4, <2>5, <2>6, OfferKeeps
  <2>8. metricTurn' \in Turn /\ TurnOK'
    BY <2>2, InvalidatedIsTurn DEF MetricsInv, TypesOK, TurnOK
  <2>9. TypesOK' /\ OwnerOK' /\ TasksOK'
    BY <1>1, <2>2, <2>7, <2>8 DEF MetricsInv, TypesOK, OwnerOK, TasksOK, hostVars, agentVars
  <2> QED
    BY <2>7, <2>8, <2>9, NoneSpawnedIsLive DEF MetricsInv
<1>3. CASE ~Current
  <2>1. DisposeExtension
    BY <1>3 DEF MessageEnd
  <2>2. /\ attempts' \in Seq(Attempt) /\ senders' \subseteq Sender /\ deliveryBusy' \in BOOLEAN
        /\ SlotOK' /\ SentOK' /\ LiveSent /\ ScheduledOK' /\ TurnOK'
        /\ liveOwner' = NoMetricOwner /\ liveOwner' \in Owner /\ metricTurn' \in Turn
    BY <1>1, <2>1, DisposeExtensionKeeps
  <2>3. TypesOK' /\ OwnerOK' /\ TasksOK'
    BY <1>1, <2>2, NoOwnerIsOwner DEF MetricsInv, TypesOK, OwnerOK, TasksOK, hostVars, agentVars
  <2> QED
    BY <2>2, <2>3 DEF MetricsInv
<1> QED
  BY <1>2, <1>3

-----------------------------------------------------------------------------
(* The steps of the child tasks.                                           *)

\* A step that only touches the tasks.
LEMMA TaskMovesKeep ==
  ASSUME MetricsInv, UNCHANGED <<hostVars, ownerVars, slotVars, agentsOwner>>,
         agentTasks' \in [MetricTask -> Child], TasksOK'
  PROVE  MetricsInv' /\ LiveSent
<1>1. SlotOK' /\ SentOK' /\ NoneSpawned
  BY SlotRests
<1>2. TypesOK' /\ OwnerOK' /\ ScheduledOK' /\ TurnOK'
  BY DEF MetricsInv, TypesOK, OwnerOK, ScheduledOK, TurnOK, hostVars, ownerVars, slotVars
<1> QED
  BY <1>1, <1>2, NoneSpawnedIsLive DEF MetricsInv

\* One task changes.
LEMMA OneTaskKeeps ==
  ASSUME MetricsInv, UNCHANGED <<hostVars, ownerVars, slotVars, agentsOwner>>, NEW t \in MetricTask, NEW v \in Child,
         agentTasks' = [agentTasks EXCEPT ![t] = v],
         v.registered => v.epoch = metricEpoch, \A r \in v.seen : Honest(r)
  PROVE  MetricsInv' /\ LiveSent
<1>1. agentTasks' \in [MetricTask -> Child] /\ \A u \in MetricTask : agentTasks'[u] = IF u = t THEN v ELSE agentTasks[u]
  BY DEF MetricsInv, TypesOK
<1>2. TasksOK'
  BY <1>1 DEF MetricsInv, TasksOK, hostVars
<1> QED
  BY <1>1, <1>2, TaskMovesKeep

\* What is known of a task.
LEMMA TasksAre ==
  ASSUME MetricsInv, NEW t \in MetricTask
  PROVE  /\ agentTasks[t] \in Child /\ agentTasks[t].registered \in BOOLEAN /\ agentTasks[t].epoch \in Nat
         /\ agentTasks[t].registered => agentTasks[t].epoch = metricEpoch
         /\ agentTasks[t].seen \subseteq Row /\ \A r \in agentTasks[t].seen : Honest(r)
         /\ agentTasks[t].model \in RawModel \cup {NoName} /\ agentTasks[t].session \in MetricSession \cup {NoName}
<1>1. agentTasks[t] \in Child
  BY DEF MetricsInv, TypesOK
<1> QED
  BY <1>1 DEF MetricsInv, TasksOK, Child

\* A task nobody launched grants nothing.
LEMMA NewTaskIsChild == NewTask \in Child /\ ~NewTask.registered /\ NewTask.seen = {}
BY DEF NewTask, Child

\* A launch grants the observation for the current epoch.
LEMMA LaunchTaskKeeps ==
  ASSUME MetricsInv, NEW t \in MetricTask, NEW m \in RawModel, LaunchTask(t, m)
  PROVE  MetricsInv' /\ LiveSent
<1> DEFINE v == [NewTask EXCEPT !.state = "queued", !.registered = RuntimeMetricsEnvAllows,
                   !.owner = agentsOwner, !.session = openSession, !.epoch = metricEpoch, !.model = m]
<1>1. RuntimeMetricsEnvAllows \in BOOLEAN
  BY DEF RuntimeMetricsEnvAllows
<1>2. v \in Child /\ v.epoch = metricEpoch /\ v.seen = {}
  BY <1>1 DEF NewTask, Child, MetricsInv, TypesOK
<1>3. agentTasks' = [agentTasks EXCEPT ![t] = v] /\ UNCHANGED <<hostVars, ownerVars, slotVars, agentsOwner>>
  BY DEF LaunchTask
<1> HIDE DEF v
<1> QED
  BY <1>2, <1>3, OneTaskKeeps

\* A child starts with the grant of its launch.
LEMMA SpawnTaskKeeps ==
  ASSUME MetricsInv, NEW t \in MetricTask, SpawnTask(t)
  PROVE  MetricsInv' /\ LiveSent
<1> DEFINE v == [agentTasks[t] EXCEPT !.state = "live", !.ready = IF agentTasks[t].registered THEN "pending" ELSE "no",
                   !.watched = agentTasks[t].registered]
<1>1. /\ v \in Child /\ v.epoch = agentTasks[t].epoch /\ v.registered = agentTasks[t].registered
      /\ v.seen = agentTasks[t].seen
  BY TasksAre DEF Child
<1>2. agentTasks' = [agentTasks EXCEPT ![t] = v] /\ UNCHANGED <<hostVars, ownerVars, slotVars, agentsOwner>>
  BY DEF SpawnTask
<1> HIDE DEF v
<1>3. (v.registered => v.epoch = metricEpoch) /\ \A r \in v.seen : Honest(r)
  BY <1>1, TasksAre
<1> QED
  BY <1>1, <1>2, <1>3, OneTaskKeeps

\* The preparation of a child's observations keeps its grant.
LEMMA PrepareTaskKeeps ==
  ASSUME MetricsInv, NEW t \in MetricTask, PrepareTask(t)
  PROVE  MetricsInv' /\ LiveSent
<1> DEFINE v == [agentTasks[t] EXCEPT !.ready = IF TaskValid(t) THEN "yes" ELSE "refused",
                   !.started = IF TaskValid(t) THEN clock ELSE 0]
<1>1. /\ v \in Child /\ v.epoch = agentTasks[t].epoch /\ v.registered = agentTasks[t].registered
      /\ v.seen = agentTasks[t].seen
  <2>1. clock \in Nat /\ agentTasks[t] \in Child
    BY TasksAre DEF MetricsInv, TypesOK
  <2> QED
    BY <2>1 DEF Child
<1>2. agentTasks' = [agentTasks EXCEPT ![t] = v] /\ UNCHANGED <<hostVars, ownerVars, slotVars, agentsOwner>>
  BY DEF PrepareTask
<1> HIDE DEF v
<1>3. (v.registered => v.epoch = metricEpoch) /\ \A r \in v.seen : Honest(r)
  BY <1>1, TasksAre
<1> QED
  BY <1>1, <1>2, <1>3, OneTaskKeeps

\* A child's row names the model it was launched with.
LEMMA ChildRowsAreHonest ==
  ASSUME MetricsInv, NEW t \in MetricTask, NEW r \in RawModel \cup {NoName}
  PROVE  ChildResponse(t, r) \in Row /\ Honest(ChildResponse(t, r))
<1>1. agentTasks[t].model \in RawModel \cup {NoName}
  BY TasksAre
<1>2. CASE agentTasks[t].model \in RawModel
  BY <1>2, RecordedRowsAreHonest DEF ChildResponse
<1>3. CASE agentTasks[t].model = NoName
  <2>1. NormalizeRuntimeModel(NoName) = NoName
    BY NamesAreApart DEF NormalizeRuntimeModel, RawModel
  <2>2. NormalizeRuntimeModel(r) \in Names /\ NoName \in Names /\ NoName \notin PublicModel
    BY NamesAreApart DEF Names
  <2> QED
    BY <1>3, <2>1, <2>2 DEF ChildResponse, RecordRow, Row, Honest
<1> QED
  BY <1>1, <1>2, <1>3

\* A response of a child is kept, dropped, or ends the grant.
LEMMA TaskRespondsKeeps ==
  ASSUME MetricsInv, NEW t \in MetricTask, NEW r \in RawModel \cup {NoName}, TaskResponds(t, r)
  PROVE  MetricsInv' /\ LiveSent
<1> DEFINE kept == CheckObservationGrant(t)
           row == ChildResponse(t, r)
           full == Cardinality(agentTasks[t].seen) >= MaxObserved
           seen == IF ~kept THEN {} ELSE IF full THEN agentTasks[t].seen ELSE agentTasks[t].seen \cup {row}
           v == [agentTasks[t] EXCEPT !.watched = kept, !.ready = IF @ = "pending" THEN "refused" ELSE @,
                   !.seen = seen, !.dropped = IF kept /\ full THEN 1 ELSE @]
<1>1. kept \in BOOLEAN
  <2>1. agentTasks[t].watched \in BOOLEAN
    BY TasksAre DEF Child
  <2> QED
    BY <2>1 DEF CheckObservationGrant
<1>2. agentTasks' = [agentTasks EXCEPT ![t] = v] /\ UNCHANGED <<hostVars, ownerVars, slotVars, agentsOwner>>
  BY DEF TaskResponds
<1>3. seen \subseteq Row /\ \A x \in seen : Honest(x)
  <2>1. row \in Row /\ Honest(row)
    BY ChildRowsAreHonest
  <2> HIDE DEF row, kept, full
  <2> QED
    BY <2>1, TasksAre
<1> HIDE DEF seen, kept, full, row
<1>4. /\ v \in Child /\ v.epoch = agentTasks[t].epoch /\ v.registered = agentTasks[t].registered
      /\ v.seen = seen
  BY <1>1, <1>3, TasksAre DEF Child
<1> HIDE DEF v
<1>5. (v.registered => v.epoch = metricEpoch) /\ \A x \in v.seen : Honest(x)
  BY <1>3, <1>4, TasksAre
<1> QED
  BY <1>2, <1>4, <1>5, OneTaskKeeps

\* An owner that heard of one more task is the same owner.
LEMMA OwnerHears ==
  ASSUME MetricsInv, NEW t \in MetricTask, liveOwner # NoMetricOwner,
         liveOwner' = [liveOwner EXCEPT !.children = @ \cup {t}]
  PROVE  /\ liveOwner' \in Owner /\ liveOwner'.id = liveOwner.id /\ liveOwner'.attempt = liveOwner.attempt
         /\ liveOwner' # NoMetricOwner
<1>1. liveOwner \in Owner /\ liveOwner.attempt # 0
  BY DEF MetricsInv, TypesOK, OwnerOK
<1>2. /\ liveOwner' \in Owner /\ liveOwner'.id = liveOwner.id /\ liveOwner'.attempt = liveOwner.attempt
  BY <1>1 DEF Owner
<1> QED
  BY <1>1, <1>2, NoOwnerIsOwner

\* A finished child is submitted under the epoch of its launch.
LEMMA FinishTaskKeeps ==
  ASSUME MetricsInv, NEW t \in MetricTask, FinishTask(t)
  PROVE  MetricsInv' /\ LiveSent
<1> DEFINE task == agentTasks[t]
           v == [NewTask EXCEPT !.state = "done"]
           emitted == task.registered /\ TaskValid(t) /\ CheckObservationGrant(t)
           event == [session |-> liveOwner.id, owner |-> liveOwner.started, epoch |-> task.epoch, rows |-> task.seen]
<1>1. UNCHANGED <<hostVars, agentsOwner, asked, sendBusy>> /\ agentTasks' = [agentTasks EXCEPT ![t] = v]
  BY DEF FinishTask
<1>2. v \in Child /\ ~v.registered /\ v.seen = {}
  BY DEF NewTask, Child
<1> HIDE DEF v
<1>3. agentTasks' \in [MetricTask -> Child] /\ \A u \in MetricTask : agentTasks'[u] = IF u = t THEN v ELSE agentTasks[u]
  BY <1>1, <1>2 DEF MetricsInv, TypesOK
<1>4. TasksOK'
  BY <1>1, <1>2, <1>3 DEF MetricsInv, TasksOK, hostVars
<1>5. CASE UNCHANGED <<liveOwner, metricTurn, attempts, deliveryBusy, senders>>
  <2>1. SlotOK' /\ SentOK' /\ NoneSpawned
    BY <1>1, <1>5, SlotRests DEF slotVars
  <2>2. TypesOK' /\ OwnerOK' /\ ScheduledOK' /\ TurnOK'
    BY <1>1, <1>3, <1>5 DEF MetricsInv, TypesOK, OwnerOK, ScheduledOK, TurnOK, hostVars
  <2> QED
    BY <1>4, <2>1, <2>2, NoneSpawnedIsLive DEF MetricsInv
<1>6. CASE DisposeExtension
  <2>1. /\ attempts' \in Seq(Attempt) /\ senders' \subseteq Sender /\ deliveryBusy' \in BOOLEAN
        /\ SlotOK' /\ SentOK' /\ LiveSent /\ ScheduledOK' /\ TurnOK'
        /\ liveOwner' = NoMetricOwner /\ liveOwner' \in Owner /\ metricTurn' \in Turn
    BY <1>1, <1>6, DisposeExtensionKeeps
  <2>2. TypesOK' /\ OwnerOK'
    BY <1>1, <1>3, <2>1, NoOwnerIsOwner DEF MetricsInv, TypesOK, OwnerOK, hostVars
  <2> QED
    BY <1>4, <2>1, <2>2 DEF MetricsInv
<1>7. CASE /\ emitted /\ liveOwner # NoMetricOwner
           /\ liveOwner' = [liveOwner EXCEPT !.children = @ \cup {t}] /\ UNCHANGED metricTurn
           /\ \/ UNCHANGED <<attempts, deliveryBusy, senders>>
              \/ Submit(task.seen, task.epoch)
  <2>1. /\ liveOwner' \in Owner /\ liveOwner'.id = liveOwner.id /\ liveOwner'.attempt = liveOwner.attempt
        /\ liveOwner' # NoMetricOwner
    BY <1>7, OwnerHears
  <2>2. /\ attempts' \in Seq(Attempt) /\ senders' \subseteq Sender /\ deliveryBusy' \in BOOLEAN
        /\ SlotOK' /\ SentOK' /\ NoneSpawned /\ ScheduledOK' /\ DOMAIN attempts' = DOMAIN attempts
    <3>1. CASE UNCHANGED <<attempts, deliveryBusy, senders>>
      <4>1. SlotOK' /\ SentOK' /\ NoneSpawned
        BY <1>1, <3>1, SlotRests DEF slotVars
      <4>2. ScheduledOK' /\ DOMAIN attempts' = DOMAIN attempts
        BY <1>1, <2>1, <3>1 DEF MetricsInv, ScheduledOK, hostVars
      <4> QED
        BY <3>1, <4>1, <4>2 DEF MetricsInv, TypesOK
    <3>2. CASE Submit(task.seen, task.epoch)
      <4>1. Offer(liveOwner.attempt, event) /\ UNCHANGED senders
        BY <3>2 DEF Submit
      <4>2. task.epoch = metricEpoch /\ task.epoch \in Nat /\ task.seen \subseteq Row /\ \A r \in task.seen : Honest(r)
        BY <1>7, TasksAre
      <4>3. liveOwner.id \in MetricSession \cup {NoName} /\ liveOwner.started \in Nat
        BY DEF MetricsInv, TypesOK, Owner
      <4> HIDE DEF task
      <4>4. /\ event \in Event /\ event.session = liveOwner.id /\ event.epoch = metricEpoch
            /\ \A r \in event.rows : Honest(r)
        BY <4>2, <4>3 DEF Event
      <4>5. UNCHANGED <<openSession, metricEpoch>>
        BY <1>1 DEF hostVars
      <4> HIDE DEF event
      <4> QED
        BY <1>1, <1>7, <2>1, <4>1, <4>4, <4>5, OfferKeeps
    <3> QED
      BY <1>7, <3>1, <3>2
  <2>3. TypesOK' /\ OwnerOK' /\ TurnOK'
    <3>1. TypesOK' /\ TurnOK'
      BY <1>1, <1>3, <1>7, <2>1, <2>2 DEF MetricsInv, TypesOK, TurnOK, hostVars
    <3>2. liveOwner.attempt # 0 /\ liveOwner.id # NoName
      BY <1>7 DEF MetricsInv, OwnerOK
    <3>3. OwnerOK'
      BY <1>1, <1>7, <2>1, <2>2, <3>2 DEF MetricsInv, OwnerOK, hostVars
    <3> QED
      BY <3>1, <3>3
  <2> QED
    BY <1>4, <2>2, <2>3, NoneSpawnedIsLive DEF MetricsInv
<1>8. \/ UNCHANGED <<liveOwner, metricTurn, attempts, deliveryBusy, senders>>
      \/ DisposeExtension
      \/ /\ emitted /\ liveOwner # NoMetricOwner
         /\ liveOwner' = [liveOwner EXCEPT !.children = @ \cup {t}] /\ UNCHANGED metricTurn
         /\ \/ UNCHANGED <<attempts, deliveryBusy, senders>>
            \/ Submit(task.seen, task.epoch)
  <2>1. ChildEvent(t).rows = task.seen
    BY DEF ChildEvent
  <2>2. CASE ~emitted \/ liveOwner = NoMetricOwner
    BY <2>2 DEF FinishTask
  <2>3. CASE ~(~emitted \/ liveOwner = NoMetricOwner) /\ ~Current
    BY <2>3 DEF FinishTask
  <2>4. CASE ~(~emitted \/ liveOwner = NoMetricOwner) /\ Current /\ ~ChildAccepted(t, ChildEvent(t))
    BY <2>4 DEF FinishTask
  <2>5. CASE ~(~emitted \/ liveOwner = NoMetricOwner) /\ Current /\ ChildAccepted(t, ChildEvent(t))
    BY <2>1, <2>5 DEF FinishTask
  <2> QED
    BY <2>2, <2>3, <2>4, <2>5
<1> QED
  BY <1>5, <1>6, <1>7, <1>8

-----------------------------------------------------------------------------
(* Sessions, vetoes and revocations.                                       *)

\* clearTaskMetrics() takes every grant back.
LEMMA ClearKeeps ==
  ASSUME MetricsInv, ClearTaskMetrics
  PROVE  agentsOwner' \in Nat /\ agentTasks' \in [MetricTask -> Child] /\ TasksOK'
<1>1. agentsOwner' \in Nat
  BY DEF ClearTaskMetrics, MetricsInv, TypesOK
<1>2. \A t \in MetricTask :
        /\ ClearedTasks[t] \in Child /\ ~ClearedTasks[t].registered /\ ClearedTasks[t].seen \subseteq agentTasks[t].seen
  <2> SUFFICES ASSUME NEW t \in MetricTask
               PROVE  /\ ClearedTasks[t] \in Child /\ ~ClearedTasks[t].registered
                      /\ ClearedTasks[t].seen \subseteq agentTasks[t].seen
    OBVIOUS
  <2>1. agentTasks[t] \in Child
    BY TasksAre
  <2>2. CASE agentTasks[t].registered
    <3>1. ClearedTasks[t] = [agentTasks[t] EXCEPT !.registered = FALSE, !.watched = FALSE, !.seen = {}]
      BY <2>2 DEF ClearedTasks
    <3> QED
      BY <2>1, <3>1 DEF Child
  <2>3. CASE ~agentTasks[t].registered
    <3>1. ClearedTasks[t] = agentTasks[t]
      BY <2>3 DEF ClearedTasks
    <3> QED
      BY <2>1, <2>3, <3>1
  <2> QED
    BY <2>2, <2>3
<1>3. agentTasks' = ClearedTasks /\ DOMAIN ClearedTasks = MetricTask
  BY DEF ClearTaskMetrics, ClearedTasks
<1>4. agentTasks' \in [MetricTask -> Child]
  <2>1. ClearedTasks = [t \in MetricTask |-> ClearedTasks[t]]
    BY DEF ClearedTasks
  <2> QED
    BY <1>2, <1>3, <2>1
<1>5. \A t \in MetricTask : ~agentTasks'[t].registered /\ \A r \in agentTasks'[t].seen : Honest(r)
  BY <1>2, <1>3, TasksAre
<1>6. TasksOK'
  BY <1>5 DEF TasksOK
<1> QED
  BY <1>1, <1>4, <1>6

\* Another session opens before the extensions hear of it.
LEMMA SessionChangesKeeps ==
  ASSUME MetricsInv, NEW s \in MetricSession, SessionChanges(s)
  PROVE  MetricsInv' /\ LiveSent
<1>1. /\ openSession' = s /\ stage' = "starting" /\ due' = {"metrics", "agents"}
      /\ UNCHANGED <<metricEpoch, clock, ownerVars, slotVars, agentVars>>
      /\ stage = "running"
  BY DEF SessionChanges
<1>2. liveOwner = NoMetricOwner \/ liveOwner.id = openSession
  BY <1>1 DEF MetricsInv, OwnerOK
<1>3. SlotOK' /\ SentOK' /\ NoneSpawned
  BY <1>1, SlotRests
<1>4. TypesOK' /\ TurnOK' /\ TasksOK'
  BY <1>1 DEF MetricsInv, TypesOK, TurnOK, TasksOK, ownerVars, slotVars, agentVars
<1>5. OwnerOK'
  BY <1>1 DEF MetricsInv, OwnerOK, ownerVars, slotVars
<1>6. ScheduledOK'
  <2>1. liveOwner' = liveOwner /\ attempts' = attempts /\ metricEpoch' = metricEpoch
    BY <1>1 DEF ownerVars, slotVars
  <2>2. liveOwner.id = s => liveOwner.id = openSession
    BY <1>2, NoOwnerIsOwner, NamesAreApart
  <2> QED
    BY <1>1, <2>1, <2>2 DEF MetricsInv, ScheduledOK
<1> QED
  BY <1>3, <1>4, <1>5, <1>6, NoneSpawnedIsLive DEF MetricsInv

\* One of the two handlers ran.
LEMMA HandlersKeep ==
  ASSUME MetricsInv, NEW who \in {"metrics", "agents"}, AfterHandler(who), stage # "running"
  PROVE  (stage' = "running" => due' = {}) /\ (who = "agents" => ("metrics" \in due' <=> "metrics" \in due))
BY DEF AfterHandler

\* The extension's owner is replaced, its attempt disposed of.
LEMMA MetricsSessionStartKeeps ==
  ASSUME MetricsInv, MetricsSessionStart
  PROVE  MetricsInv' /\ LiveSent
<1> DEFINE fresh == [id |-> openSession, started |-> clock + 1, attempt |-> Len(attempts) + 1, children |-> {}]
<1>1. /\ UNCHANGED <<openSession, metricEpoch, sendBusy, agentVars>> /\ clock' = clock + 1
      /\ metricTurn' = [Invalidated EXCEPT !.active = FALSE] /\ asked' = {}
      /\ AfterHandler("metrics") /\ stage # "running"
  BY DEF MetricsSessionStart
<1>2. PICK extra \in {<<>>, <<IdleAttempt>>} :
        /\ DisposeAttempt(liveOwner.attempt, extra)
        /\ liveOwner' = IF extra = <<>> THEN NoMetricOwner ELSE fresh
  <2>1. <<>> # <<IdleAttempt>>
    OBVIOUS
  <2> HIDE DEF fresh
  <2>2. CASE RuntimeMetricsEnvAllows
    <3>1. liveOwner' = fresh /\ DisposeAttempt(liveOwner.attempt, <<IdleAttempt>>)
      BY <2>2 DEF MetricsSessionStart, fresh
    <3> QED
      BY <2>1, <3>1
  <2>3. CASE ~RuntimeMetricsEnvAllows
    <3>1. liveOwner' = NoMetricOwner /\ DisposeAttempt(liveOwner.attempt, <<>>)
      BY <2>3 DEF MetricsSessionStart
    <3> QED
      BY <3>1
  <2> QED
    BY <2>2, <2>3
<1>3. /\ attempts' \in Seq(Attempt) /\ senders' \subseteq Sender /\ deliveryBusy' \in BOOLEAN
      /\ SlotOK' /\ SentOK' /\ NoneSpawned
      /\ \A n \in DOMAIN attempts' : attempts'[n].state # "scheduled"
      /\ Len(attempts') = Len(attempts) + Len(extra)
  BY <1>1, <1>2, DisposeKeeps
<1>4. metricTurn' \in Turn /\ ~metricTurn'.active
  BY <1>1, InvalidatedIsTurn DEF MetricsInv, TypesOK
<1>5. /\ openSession \in MetricSession /\ clock \in Nat /\ Len(attempts) \in Nat
  BY DEF MetricsInv, TypesOK
<1>6. /\ liveOwner' \in Owner
      /\ liveOwner'.attempt = 0 <=> liveOwner' = NoMetricOwner
      /\ liveOwner'.id = NoName <=> liveOwner' = NoMetricOwner
      /\ liveOwner'.attempt # 0 => liveOwner'.attempt \in DOMAIN attempts'
      /\ liveOwner' = NoMetricOwner \/ liveOwner'.id = openSession
  <2>1. CASE extra = <<>>
    BY <1>2, <2>1, NoOwnerIsOwner
  <2>2. CASE extra = <<IdleAttempt>>
    <3>1. liveOwner' = fresh
      BY <1>2, <2>2
    <3>2. fresh \in Owner /\ fresh.id = openSession /\ fresh.attempt = Len(attempts) + 1
      BY <1>5 DEF Owner
    <3>3. Len(attempts') = Len(attempts) + 1
      BY <1>3, <2>2
    <3>4. fresh.attempt # 0 /\ fresh.attempt \in DOMAIN attempts'
      BY <1>3, <1>5, <3>2, <3>3
    <3>5. fresh.id # NoName
      BY <1>5, <3>2, NamesAreApart
    <3> HIDE DEF fresh
    <3> QED
      BY <3>1, <3>2, <3>4, <3>5, NoOwnerIsOwner
  <2> QED
    BY <2>1, <2>2
<1>7. TypesOK'
  BY <1>1, <1>3, <1>4, <1>5, <1>6 DEF MetricsInv, TypesOK, agentVars
<1>8. OwnerOK'
  BY <1>1, <1>6, HandlersKeep DEF OwnerOK
<1>9. ScheduledOK' /\ TurnOK'
  BY <1>3, <1>4 DEF ScheduledOK, TurnOK
<1>10. TasksOK'
  BY <1>1 DEF MetricsInv, TasksOK, agentVars
<1> QED
  BY <1>3, <1>7, <1>8, <1>9, <1>10, NoneSpawnedIsLive DEF MetricsInv

\* The agents extension takes every grant back.
LEMMA AgentsHandlersKeep ==
  ASSUME MetricsInv, AgentsSessionStart \/ AgentsSessionShutdown
  PROVE  MetricsInv' /\ LiveSent
<1>1. /\ AfterHandler("agents") /\ stage # "running" /\ ClearTaskMetrics
      /\ UNCHANGED <<openSession, metricEpoch, clock, ownerVars, slotVars>>
  BY DEF AgentsSessionStart, AgentsSessionShutdown
<1>2. agentsOwner' \in Nat /\ agentTasks' \in [MetricTask -> Child] /\ TasksOK'
  BY <1>1, ClearKeeps
<1>3. SlotOK' /\ SentOK' /\ NoneSpawned
  BY <1>1, SlotRests
<1>4. TypesOK' /\ ScheduledOK' /\ TurnOK'
  BY <1>1, <1>2 DEF MetricsInv, TypesOK, ScheduledOK, TurnOK, ownerVars, slotVars
<1>5. OwnerOK'
  <2>1. (stage' = "running" => due' = {}) /\ ("metrics" \in due' <=> "metrics" \in due)
    BY <1>1, HandlersKeep
  <2> QED
    BY <1>1, <2>1 DEF MetricsInv, OwnerOK, ownerVars, slotVars
<1> QED
  BY <1>2, <1>3, <1>4, <1>5, NoneSpawnedIsLive DEF MetricsInv

\* The extension's owner goes with the session.
LEMMA MetricsSessionShutdownKeeps ==
  ASSUME MetricsInv, MetricsSessionShutdown
  PROVE  MetricsInv' /\ LiveSent
<1>1. /\ AfterHandler("metrics") /\ stage # "running" /\ DisposeExtension
      /\ UNCHANGED <<openSession, metricEpoch, clock, asked, sendBusy, agentVars>>
  BY DEF MetricsSessionShutdown
<1>2. /\ attempts' \in Seq(Attempt) /\ senders' \subseteq Sender /\ deliveryBusy' \in BOOLEAN
      /\ SlotOK' /\ SentOK' /\ LiveSent /\ ScheduledOK' /\ TurnOK'
      /\ liveOwner' = NoMetricOwner /\ liveOwner' \in Owner /\ metricTurn' \in Turn
  BY <1>1, DisposeExtensionKeeps
<1>3. TypesOK' /\ TasksOK'
  BY <1>1, <1>2 DEF MetricsInv, TypesOK, TasksOK, agentVars
<1>4. OwnerOK'
  BY <1>1, <1>2, HandlersKeep, NoOwnerIsOwner DEF OwnerOK
<1> QED
  BY <1>2, <1>3, <1>4 DEF MetricsInv

\* A shutdown begins, the veto changes, the trigger fires.
LEMMA HostMovesKeep ==
  ASSUME MetricsInv, SessionShutdown \/ SpawnTelemetryTrigger \/ \E e \in {"clear", "loose", "exact"} : EnvChange(e)
  PROVE  MetricsInv' /\ LiveSent
<1>1. /\ UNCHANGED <<openSession, metricEpoch, clock, ownerVars, slotVars, agentVars>>
      /\ UNCHANGED <<stage, due>> \/ (stage' = "ending" /\ due' = {"metrics", "agents"})
  BY DEF SessionShutdown, SpawnTelemetryTrigger, EnvChange
<1>2. SlotOK' /\ SentOK' /\ NoneSpawned
  BY <1>1, SlotRests
<1>3. TypesOK' /\ ScheduledOK' /\ TurnOK' /\ TasksOK'
  BY <1>1 DEF MetricsInv, TypesOK, ScheduledOK, TurnOK, TasksOK, ownerVars, slotVars, agentVars
<1>4. OwnerOK'
  BY <1>1 DEF MetricsInv, OwnerOK, ownerVars, slotVars
<1> QED
  BY <1>2, <1>3, <1>4, NoneSpawnedIsLive DEF MetricsInv

\* A revocation withdraws what was accepted under the old epoch.
LEMMA RevokeKeeps ==
  ASSUME MetricsInv, Revoke
  PROVE  MetricsInv' /\ LiveSent
<1>1. /\ UNCHANGED <<openSession, clock, due, stage, asked, sendBusy>> /\ metricEpoch' = metricEpoch + 1
      /\ RevokeOwner /\ ClearTaskMetrics
  BY DEF Revoke
<1>2. agentsOwner' \in Nat /\ agentTasks' \in [MetricTask -> Child] /\ TasksOK'
  BY <1>1, ClearKeeps
<1>3. CASE liveOwner.id = openSession
  <2>1. /\ liveOwner' = [liveOwner EXCEPT !.attempt = Len(attempts) + 1] /\ metricTurn' = Invalidated
        /\ DisposeAttempt(liveOwner.attempt, <<IdleAttempt>>)
    BY <1>1, <1>3 DEF RevokeOwner
  <2>2. /\ attempts' \in Seq(Attempt) /\ senders' \subseteq Sender /\ deliveryBusy' \in BOOLEAN
        /\ SlotOK' /\ SentOK' /\ NoneSpawned
        /\ \A n \in DOMAIN attempts' : attempts'[n].state # "scheduled"
        /\ Len(attempts') = Len(attempts) + 1
    BY <1>1, <2>1, DisposeKeeps
  <2>3. metricTurn' \in Turn /\ metricTurn'.ambiguous
    BY <2>1, InvalidatedIsTurn DEF MetricsInv, TypesOK
  <2>4. /\ liveOwner' \in Owner /\ liveOwner'.id = openSession /\ liveOwner'.attempt = Len(attempts) + 1
    <3>1. liveOwner \in Owner /\ Len(attempts) \in Nat
      BY DEF MetricsInv, TypesOK
    <3> QED
      BY <1>3, <2>1, <3>1 DEF Owner
  <2>5. liveOwner'.attempt # 0 /\ liveOwner'.attempt \in DOMAIN attempts' /\ liveOwner'.id # NoName
    <3>1. openSession \in MetricSession /\ Len(attempts) \in Nat
      BY DEF MetricsInv, TypesOK
    <3> QED
      BY <2>2, <2>4, <3>1, NamesAreApart
  <2>6. TypesOK'
    BY <1>1, <1>2, <2>2, <2>3, <2>4 DEF MetricsInv, TypesOK
  <2>7. OwnerOK'
    BY <1>1, <2>4, <2>5, NoOwnerIsOwner DEF MetricsInv, OwnerOK
  <2>8. ScheduledOK' /\ TurnOK'
    BY <2>2, <2>3 DEF ScheduledOK, TurnOK
  <2> QED
    BY <1>2, <2>2, <2>6, <2>7, <2>8, NoneSpawnedIsLive DEF MetricsInv
<1>4. CASE liveOwner.id # openSession
  <2>1. UNCHANGED <<liveOwner, metricTurn, attempts, deliveryBusy, senders>>
    BY <1>1, <1>4 DEF RevokeOwner
  <2>2. SlotOK' /\ SentOK' /\ NoneSpawned
    BY <1>1, <2>1, SlotRests DEF slotVars
  <2>3. TypesOK' /\ OwnerOK' /\ TurnOK'
    BY <1>1, <1>2, <2>1 DEF MetricsInv, TypesOK, OwnerOK, TurnOK
  <2>4. ScheduledOK'
    BY <1>1, <1>4, <2>1 DEF MetricsInv, ScheduledOK
  <2> QED
    BY <1>2, <2>2, <2>3, <2>4, NoneSpawnedIsLive DEF MetricsInv
<1> QED
  BY <1>3, <1>4

-----------------------------------------------------------------------------

\* Initially nothing is accepted, asked or granted.
LEMMA MetricsStart == MetricsInit => MetricsInv
<1> SUFFICES ASSUME MetricsInit PROVE MetricsInv
  OBVIOUS
<1>1. attempts \in Seq(Attempt) /\ DOMAIN attempts = {} /\ TakenSlots = {}
  BY DEF MetricsInit, TakenSlots
<1>2. metricTurn \in Turn /\ agentTasks \in [MetricTask -> Child]
  BY NewTaskIsChild DEF MetricsInit, Turn
<1>3. TypesOK
  BY <1>1, <1>2, NoOwnerIsOwner DEF MetricsInit, TypesOK
<1>4. SlotOK
  BY <1>1 DEF MetricsInit, SlotOK
<1>5. ScheduledOK /\ TurnOK /\ SentOK
  BY <1>1 DEF MetricsInit, ScheduledOK, TurnOK, SentOK
<1>6. OwnerOK /\ TasksOK
  BY NoOwnerIsOwner, NewTaskIsChild DEF MetricsInit, OwnerOK, TasksOK
<1> QED
  BY <1>3, <1>4, <1>5, <1>6 DEF MetricsInv

\* Every step keeps the invariant and sends live events only.
LEMMA MetricsKeep == MetricsInv /\ [MetricsNext]_metricVars => MetricsInv' /\ LiveSent
<1> SUFFICES ASSUME MetricsInv, [MetricsNext]_metricVars PROVE MetricsInv' /\ LiveSent
  OBVIOUS
<1>1. CASE SlotStep
  BY <1>1, RunAttemptKeeps, RejectSenderKeeps, SenderClosesKeeps DEF SlotStep
<1>2. CASE TurnStep
  BY <1>2, TurnMovesKeep, BeforeProviderRequestKeeps, MessageEndKeeps DEF TurnStep
<1>3. CASE TaskStep
  BY <1>3, LaunchTaskKeeps, SpawnTaskKeeps, PrepareTaskKeeps, FinishTaskKeeps, TaskRespondsKeeps DEF TaskStep
<1>4. CASE HostStep
  BY <1>4, SessionChangesKeeps, MetricsSessionStartKeeps, AgentsHandlersKeep, MetricsSessionShutdownKeeps,
     HostMovesKeep, RevokeKeeps DEF HostStep
<1>5. CASE UNCHANGED metricVars
  <2>1. UNCHANGED <<hostVars, ownerVars, slotVars, agentVars>>
    BY <1>5 DEF metricVars, hostVars, ownerVars, slotVars, agentVars
  <2>2. SlotOK' /\ SentOK' /\ NoneSpawned
    BY <2>1, SlotRests
  <2>3. TypesOK' /\ OwnerOK' /\ ScheduledOK' /\ TurnOK' /\ TasksOK'
    BY <2>1 DEF MetricsInv, TypesOK, OwnerOK, ScheduledOK, TurnOK, TasksOK, hostVars, ownerVars, slotVars, agentVars
  <2> QED
    BY <2>2, <2>3, NoneSpawnedIsLive DEF MetricsInv
<1> QED
  BY <1>1, <1>2, <1>3, <1>4, <1>5 DEF MetricsNext

\* A set without two members has at most one.
LEMMA AtMostOne ==
  ASSUME NEW S, \A x, y \in S : x = y
  PROVE  Cardinality(S) <= 1
<1>1. CASE S = {}
  BY <1>1, FS_EmptySet
<1>2. CASE S # {}
  <2>1. PICK x \in S : TRUE
    BY <1>2
  <2>2. S = {x}
    BY <2>1
  <2>3. Cardinality({x}) = 1
    BY FS_Singleton
  <2> QED
    BY <2>2, <2>3
<1> QED
  BY <1>1, <1>2

\* The invariant gives the state part of the property.
LEMMA InvIsHonest == MetricsInv => SlotIsHonest /\ AttributionIsTrue
<1> SUFFICES ASSUME MetricsInv PROVE SlotIsHonest /\ AttributionIsTrue
  OBVIOUS
<1>1. AttributionIsTrue
  BY DEF MetricsInv, SentOK, AttributionIsTrue
<1>2. Cardinality(TakenSlots) <= 1 /\ Cardinality(senders) <= 1
  BY AtMostOne DEF MetricsInv, SlotOK
<1>3. SlotIsHonest
  BY <1>2 DEF MetricsInv, SlotOK, SlotIsHonest, TakenSlots
<1> QED
  BY <1>1, <1>3

\* What leaves a process as telemetry, for any sessions, tasks, models and
\* bounds: one sender at a time although sessions, vetoes and revocations dispose
\* of accepted attempts, events of the open session and the current epoch only,
\* and rows that name what was asked for (runtime-metrics-delivery.ts,
\* runtime-metrics-native.ts, extensions/runtime-metrics.ts).
THEOREM MetricsStayHonest == MetricsSpec => MetricsAreHonest
<1>1. LiveSent => \A p \in senders' : p.attempt \notin {q.attempt : q \in senders} =>
                    /\ p.event.session = openSession
                    /\ p.event.epoch = metricEpoch
                    /\ RuntimeMetricsEnvAllows
  BY DEF LiveSent
<1> QED
  BY MetricsStart, MetricsKeep, InvIsHonest, <1>1, PTL DEF MetricsSpec, MetricsAreHonest, OnlyLiveEventsSent

-----------------------------------------------------------------------------
(* The acknowledgement of a delivery.                                      *)

\* What the client has read, and a text that is one frame of the given kind.
ReadSoFar == SubSeq(sent, 1, taken)
IsFrame(bytes, kind) == \E text \in DOMAIN FrameOf : FrameOf[text] = kind /\ bytes = Append(text, Newline)

Code == {"none", "trailing_frame", "oversized", "invalid_frame", "malformed"}
Decoder == [buffer : Seq(Byte), parsed : FrameKind \cup {"none"}, finished : BOOLEAN, error : Code]

ExchangeTypeOK ==
    /\ sent \in Seq(Byte) /\ taken \in 0..Len(sent) /\ ended \in BOOLEAN
    /\ decoder \in Decoder

\* An unsettled client has decoded exactly what it has read.
DecodedOK ==
    verdict = "none" =>
        /\ decoder.error = "none" /\ ~decoder.finished
        /\ decoder.parsed = "none" => decoder.buffer = ReadSoFar /\ \A i \in 1..taken : sent[i] # Newline
        /\ decoder.parsed # "none" => IsFrame(ReadSoFar, decoder.parsed)

\* The socket exists from begin() until the verdict.
SocketOK ==
    /\ verdict # "none" => socket # "open"
    /\ begin \in {"none", "resolving", "asking"} => socket = "none"

ExchangeInv == ExchangeTypeOK /\ DecodedOK /\ SocketOK /\ VerdictIsWhole

\* A frame is one line that fits.
LEMMA FramesAre ==
  ASSUME NEW text \in DOMAIN FrameOf
  PROVE  /\ text \in Seq(Byte) /\ Len(text) < MAX_FRAME_BYTES /\ Len(text) \in Nat
         /\ FrameOf[text] \in FrameKind
         /\ \A i \in 1..Len(text) : text[i] # Newline
<1>1. text \in Seq(Byte \ {Newline}) /\ Len(text) < MAX_FRAME_BYTES /\ FrameOf[text] \in FrameKind
  BY FrameAssumption
<1> QED
  BY <1>1

\* What a stream that is one frame looks like.
LEMMA FrameStreams ==
  ASSUME sent \in Seq(Byte), NEW kind, Says(kind)
  PROVE  \E text \in DOMAIN FrameOf :
            /\ FrameOf[text] = kind /\ sent = Append(text, Newline)
            /\ Len(sent) = Len(text) + 1 /\ Len(sent) <= MAX_FRAME_BYTES /\ sent[Len(sent)] = Newline
            /\ \A i \in 1..Len(text) : sent[i] = text[i] /\ sent[i] # Newline
<1>1. PICK text \in DOMAIN FrameOf : FrameOf[text] = kind /\ sent = Append(text, Newline)
  BY DEF Says
<1>2. text \in Seq(Byte) /\ Len(text) \in Nat /\ Len(text) < MAX_FRAME_BYTES /\ \A i \in 1..Len(text) : text[i] # Newline
  BY FramesAre
<1>3. /\ Len(sent) = Len(text) + 1 /\ sent[Len(sent)] = Newline
      /\ \A i \in 1..Len(text) : sent[i] = text[i]
  BY <1>1, <1>2
<1>4. MAX_FRAME_BYTES \in Nat
  BY FrameAssumption
<1> QED
  BY <1>1, <1>2, <1>3, <1>4

\* A newline before the end, or too many bytes: no frame.
LEMMA NewlineEnds ==
  ASSUME sent \in Seq(Byte), NEW i \in 1..Len(sent), sent[i] = Newline, i < Len(sent), NEW kind
  PROVE  ~Says(kind)
BY FrameStreams

\* A stream longer than a frame may be is no frame.
LEMMA LongIsNoFrame ==
  ASSUME sent \in Seq(Byte), Len(sent) > MAX_FRAME_BYTES, NEW kind
  PROVE  ~Says(kind)
<1>1. MAX_FRAME_BYTES \in Nat /\ Len(sent) \in Nat
  BY FrameAssumption
<1> QED
  BY <1>1, FrameStreams

\* A line that is no frame: no stream that goes on from it is one.
LEMMA OtherLineIsNoFrame ==
  ASSUME sent \in Seq(Byte), NEW n \in 1..Len(sent), sent[n] = Newline, SubSeq(sent, 1, n - 1) \notin DOMAIN FrameOf, NEW kind
  PROVE  ~Says(kind)
<1> SUFFICES ASSUME Says(kind) PROVE FALSE
  OBVIOUS
<1>1. PICK text \in DOMAIN FrameOf :
        /\ FrameOf[text] = kind /\ sent = Append(text, Newline)
        /\ Len(sent) = Len(text) + 1
        /\ \A i \in 1..Len(text) : sent[i] = text[i] /\ sent[i] # Newline
  BY FrameStreams
<1>2. text \in Seq(Byte) /\ Len(text) \in Nat
  BY FramesAre
<1>3. n - 1 = Len(text)
  BY <1>1, <1>2
<1>4. SubSeq(sent, 1, n - 1) = text
  BY <1>1, <1>2, <1>3
<1> QED
  BY <1>4

\* One stream is not two frames.
LEMMA OneFrame ==
  ASSUME sent \in Seq(Byte), NEW j, NEW k, IsFrame(sent, j), Says(k)
  PROVE  j = k
<1>1. PICK text \in DOMAIN FrameOf : FrameOf[text] = j /\ sent = Append(text, Newline)
  BY DEF IsFrame
<1>2. PICK other \in DOMAIN FrameOf : FrameOf[other] = k /\ sent = Append(other, Newline)
  BY DEF Says
<1>3. text \in Seq(Byte) /\ other \in Seq(Byte)
  BY FramesAre
<1>4. text = other
  <2>1. Len(text) = Len(other)
    <3>1. Len(Append(text, Newline)) = Len(text) + 1 /\ Len(Append(other, Newline)) = Len(other) + 1
      BY <1>3
    <3>2. Len(text) \in Nat /\ Len(other) \in Nat
      BY <1>3
    <3> QED
      BY <1>1, <1>2, <3>1, <3>2
  <2>2. \A i \in 1..Len(text) : text[i] = sent[i] /\ other[i] = sent[i]
    <3>1. \A i \in 1..Len(text) : text[i] = Append(text, Newline)[i]
      BY <1>3
    <3>2. \A i \in 1..Len(other) : other[i] = Append(other, Newline)[i]
      BY <1>3
    <3> QED
      BY <1>1, <1>2, <2>1, <3>1, <3>2
  <2> QED
    BY <1>3, <2>1, <2>2
<1> QED
  BY <1>1, <1>2, <1>4

\* The two parts of a stream make the read part of it.
LEMMA ReadsOn ==
  ASSUME sent \in Seq(Byte), NEW m \in 0..Len(sent), NEW n \in m + 1 .. Len(sent)
  PROVE  /\ SubSeq(sent, 1, m) \o SubSeq(sent, m + 1, n) = SubSeq(sent, 1, n)
         /\ SubSeq(sent, m + 1, n) # <<>> /\ SubSeq(sent, m + 1, n) \in Seq(Byte)
         /\ SubSeq(sent, 1, n) \in Seq(Byte) /\ Len(SubSeq(sent, 1, n)) = n
         /\ \A i \in 1..n : SubSeq(sent, 1, n)[i] = sent[i]
OBVIOUS

\* FrameDecoder.push() of the next chunk: refused only if the stream is no
\* acknowledgement, and otherwise decoded as far as it was read.
LEMMA PushIsExact ==
  ASSUME ExchangeInv, verdict = "none", NEW n \in taken + 1 .. Len(sent),
         NEW d, d = Push(decoder, SubSeq(sent, taken + 1, n))
  PROVE  /\ d \in Decoder
         /\ d.error # "none" => \A kind : ~Says(kind)
         /\ d.error = "none" =>
              /\ ~d.finished
              /\ d.parsed = "none" => d.buffer = SubSeq(sent, 1, n) /\ \A i \in 1..n : sent[i] # Newline
              /\ d.parsed # "none" => IsFrame(SubSeq(sent, 1, n), d.parsed)
<1> DEFINE chunk == SubSeq(sent, taken + 1, n)
           held == [decoder EXCEPT !.buffer = @ \o chunk]
<1>1. sent \in Seq(Byte) /\ taken \in 0..Len(sent) /\ decoder \in Decoder /\ taken \in Nat /\ n \in Nat /\ Len(sent) \in Nat
  BY DEF ExchangeInv, ExchangeTypeOK
<1>2. /\ decoder.error = "none" /\ ~decoder.finished
      /\ decoder.parsed = "none" => decoder.buffer = ReadSoFar /\ \A i \in 1..taken : sent[i] # Newline
      /\ decoder.parsed # "none" => IsFrame(ReadSoFar, decoder.parsed)
  BY DEF ExchangeInv, DecodedOK
<1>3. /\ chunk # <<>> /\ chunk \in Seq(Byte)
      /\ ReadSoFar \o chunk = SubSeq(sent, 1, n)
      /\ SubSeq(sent, 1, n) \in Seq(Byte) /\ Len(SubSeq(sent, 1, n)) = n
      /\ \A i \in 1..n : SubSeq(sent, 1, n)[i] = sent[i]
  BY <1>1, ReadsOn DEF ReadSoFar
<1>4. \A code \in Code, e \in Decoder :
        /\ Refused(e, code) \in Decoder /\ Refused(e, code).error = code
        /\ Refused(e, code).parsed = e.parsed
  BY DEF Refused, Decoder
<1>5. held \in Decoder /\ held.buffer = decoder.buffer \o chunk /\ held.parsed = decoder.parsed
      /\ held.finished = decoder.finished /\ held.error = decoder.error
  <2>1. decoder.buffer \o chunk \in Seq(Byte)
    BY <1>1, <1>3 DEF Decoder
  <2> QED
    BY <1>1, <2>1 DEF Decoder
<1> HIDE DEF chunk
<1>6. /\ ~Waits(decoder) => d = Refused(decoder, "trailing_frame")
      /\ Waits(decoder) /\ Len(held.buffer) > MAX_FRAME_BYTES => d = Refused(decoder, "oversized")
      /\ Waits(decoder) /\ ~(Len(held.buffer) > MAX_FRAME_BYTES) /\ Len(held.buffer) <= MAX_FRAME_BYTES => d = Scanned(held)
  <2>1. d = CASE chunk = <<>> -> decoder
              [] chunk # <<>> /\ ~Waits(decoder) -> Refused(decoder, "trailing_frame")
              [] chunk # <<>> /\ Waits(decoder) /\ Len(held.buffer) > MAX_FRAME_BYTES -> Refused(decoder, "oversized")
              [] chunk # <<>> /\ Waits(decoder) /\ Len(held.buffer) <= MAX_FRAME_BYTES -> Scanned(held)
    BY DEF Push, chunk
  <2> HIDE DEF held
  <2>2. chunk # <<>>
    BY <1>3
  <2>0. Len(held.buffer) > MAX_FRAME_BYTES => ~(Len(held.buffer) <= MAX_FRAME_BYTES)
    <3>1. Len(held.buffer) \in Nat /\ MAX_FRAME_BYTES \in Nat
      BY <1>5, FrameAssumption DEF Decoder
    <3> QED
      BY <3>1
  <2>3. CASE ~Waits(decoder)
    BY <2>1, <2>2, <2>3
  <2>4. CASE Waits(decoder) /\ Len(held.buffer) > MAX_FRAME_BYTES
    BY <2>0, <2>1, <2>2, <2>4
  <2>5. CASE Waits(decoder) /\ ~(Len(held.buffer) > MAX_FRAME_BYTES)
    BY <2>1, <2>2, <2>5
  <2> QED
    BY <2>3, <2>4, <2>5
<1> HIDE DEF held
<1>7. CASE decoder.parsed # "none"
  <2>1. d = Refused(decoder, "trailing_frame")
    BY <1>6, <1>7 DEF Waits
  <2>2. d \in Decoder /\ d.error = "trailing_frame"
    BY <2>1, <1>1, <1>4 DEF Code
  <2>3. PICK text \in DOMAIN FrameOf : ReadSoFar = Append(text, Newline)
    BY <1>2, <1>7 DEF IsFrame
  <2>4. text \in Seq(Byte) /\ Len(text) \in Nat
    BY FramesAre
  <2>5. Len(ReadSoFar) = taken /\ \A i \in 1..taken : ReadSoFar[i] = sent[i]
    BY <1>1 DEF ReadSoFar
  <2>6. taken \in 1..Len(sent) /\ sent[taken] = Newline /\ taken < Len(sent)
    BY <1>1, <2>3, <2>4, <2>5
  <2>7. \A kind : ~Says(kind)
    BY <1>1, <2>6, NewlineEnds
  <2> QED
    BY <2>2, <2>7
<1>8. CASE decoder.parsed = "none" /\ n > MAX_FRAME_BYTES
  <2>1. Waits(decoder) /\ Len(held.buffer) = n
    BY <1>2, <1>3, <1>5, <1>8 DEF Waits
  <2>2. d = Refused(decoder, "oversized")
    BY <1>6, <1>8, <2>1
  <2>3. d \in Decoder /\ d.error = "oversized"
    BY <2>2, <1>1, <1>4 DEF Code
  <2>4. MAX_FRAME_BYTES \in Nat
    BY FrameAssumption
  <2>5. \A kind : ~Says(kind)
    BY <1>1, <1>8, <2>4, LongIsNoFrame
  <2> QED
    BY <2>3, <2>5
<1>9. CASE decoder.parsed = "none" /\ ~(n > MAX_FRAME_BYTES)
  <2>0. MAX_FRAME_BYTES \in Nat
    BY FrameAssumption
  <2>1. Waits(decoder) /\ held.buffer = SubSeq(sent, 1, n) /\ Len(held.buffer) = n
    BY <1>2, <1>3, <1>5, <1>9 DEF Waits
  <2>2. d = Scanned(held)
    <3>1. Len(held.buffer) <= MAX_FRAME_BYTES /\ ~(Len(held.buffer) > MAX_FRAME_BYTES)
      BY <1>1, <1>9, <2>0, <2>1
    <3> QED
      BY <1>6, <2>1, <3>1
  <2>3. held.parsed = "none" /\ held.error = "none" /\ ~held.finished
    BY <1>2, <1>5, <1>9
  <2>4. Newlines(held.buffer) = {i \in 1..n : sent[i] = Newline}
    BY <1>3, <2>1 DEF Newlines
  <2>5. CASE Newlines(held.buffer) = {}
    <3>1. d = held
      BY <2>2, <2>5 DEF Scanned
    <3>2. \A i \in 1..n : sent[i] # Newline
      BY <2>4, <2>5
    <3> QED
      BY <1>5, <2>1, <2>3, <3>1, <3>2
  <2>6. CASE Newlines(held.buffer) = {n}
    <3> DEFINE text == SubSeq(sent, 1, n - 1)
    <3>1. d = IF text \in DOMAIN FrameOf THEN [held EXCEPT !.parsed = FrameOf[text]] ELSE Refused(held, "invalid_frame")
      <4>1. d = Decoded(held)
        BY <2>1, <2>2, <2>6 DEF Scanned
      <4>2. SubSeq(held.buffer, 1, n - 1) = text
        BY <1>1, <1>3, <2>1
      <4> QED
        BY <2>1, <4>1, <4>2 DEF Decoded
    <3>2. sent[n] = Newline /\ n \in 1..Len(sent)
      BY <1>1, <2>4, <2>6
    <3>3. text \in DOMAIN FrameOf => Append(text, Newline) = SubSeq(sent, 1, n)
      BY <1>1, <1>3, <3>2
    <3> HIDE DEF text
    <3>4. CASE text \in DOMAIN FrameOf
      <4>1. d = [held EXCEPT !.parsed = FrameOf[text]]
        BY <3>1, <3>4
      <4>2. FrameOf[text] \in FrameKind
        BY <3>4, FramesAre
      <4>3. d \in Decoder /\ d.parsed = FrameOf[text] /\ d.error = "none" /\ ~d.finished
        BY <1>5, <2>3, <4>1, <4>2 DEF Decoder
      <4>4. IsFrame(SubSeq(sent, 1, n), FrameOf[text])
        BY <3>3, <3>4 DEF IsFrame
      <4>5. FrameOf[text] # "none"
        BY <4>2 DEF FrameKind
      <4> QED
        BY <4>3, <4>4, <4>5
    <3>5. CASE text \notin DOMAIN FrameOf
      <4>1. d = Refused(held, "invalid_frame")
        BY <3>1, <3>5
      <4>2. d \in Decoder /\ d.error = "invalid_frame"
        BY <1>4, <1>5, <4>1 DEF Code
      <4>3. \A kind : ~Says(kind)
        BY <1>1, <3>2, <3>5, OtherLineIsNoFrame DEF text
      <4> QED
        BY <4>2, <4>3
    <3> QED
      BY <3>4, <3>5
  <2>7. CASE Newlines(held.buffer) # {} /\ Newlines(held.buffer) # {n}
    <3>1. d = Refused(held, "trailing_frame")
      BY <2>1, <2>2, <2>7 DEF Scanned
    <3>2. d \in Decoder /\ d.error = "trailing_frame"
      BY <1>4, <1>5, <3>1 DEF Code
    <3>3. PICK i \in 1..n : sent[i] = Newline /\ i # n
      BY <2>4, <2>7
    <3>4. i \in 1..Len(sent) /\ i < Len(sent)
      BY <1>1, <3>3
    <3>5. \A kind : ~Says(kind)
      BY <1>1, <3>3, <3>4, NewlineEnds
    <3> QED
      BY <3>2, <3>5
  <2> QED
    BY <2>5, <2>6, <2>7
<1> QED
  BY <1>2, <1>7, <1>8, <1>9

\* settle() leaves no connection.
LEMMA SettledIsClosed ==
  ASSUME NEW result, SettleExchange(result), result # "none"
  PROVE  verdict = "none" /\ verdict' = result /\ socket' # "open" /\ (socket = "none" => socket' = "none")
BY DEF SettleExchange

\* A verdict that nothing the peer wrote decides.
LEMMA PlainSettleKeeps ==
  ASSUME ExchangeInv, verdict = "none", verdict' \notin {"none", "accepted", "remote_rejected", "invalid_ack"},
         socket' # "open", begin' \in {"none", "resolving", "asking"} => socket' = "none",
         UNCHANGED <<decoder, taken, sent, ended>>
  PROVE  ExchangeInv'
<1>1. ExchangeTypeOK'
  BY DEF ExchangeInv, ExchangeTypeOK
<1>2. DecodedOK' /\ SocketOK' /\ VerdictIsWhole'
  BY DEF DecodedOK, SocketOK, VerdictIsWhole
<1> QED
  BY <1>1, <1>2 DEF ExchangeInv

\* A step that neither settles nor reads.
LEMMA QuietKeeps ==
  ASSUME ExchangeInv, UNCHANGED <<verdict, decoder, taken, sent, ended>>,
         verdict # "none" => socket' # "open", begin' \in {"none", "resolving", "asking"} => socket' = "none"
  PROVE  ExchangeInv'
<1>1. ExchangeTypeOK' /\ VerdictIsWhole'
  BY DEF ExchangeInv, ExchangeTypeOK, VerdictIsWhole, Says
<1>2. DecodedOK'
  BY DEF ExchangeInv, DecodedOK, ReadSoFar, IsFrame
<1>3. SocketOK'
  BY DEF SocketOK
<1> QED
  BY <1>1, <1>2, <1>3 DEF ExchangeInv

\* One chunk arrives.
LEMMA OnDataKeeps ==
  ASSUME ExchangeInv, OnData
  PROVE  ExchangeInv'
<1>1. PICK n \in taken + 1 .. Len(sent) : taken' = n /\ decoder' = Push(decoder, SubSeq(sent, taken + 1, n))
  BY DEF OnData
<1>2. UNCHANGED <<begin, stopped, sent, ended>> /\ verdict = "none" /\ socket = "open"
  BY DEF OnData, peerVars
<1>3. /\ decoder' \in Decoder
      /\ decoder'.error # "none" => \A kind : ~Says(kind)
      /\ decoder'.error = "none" =>
           /\ ~decoder'.finished
           /\ decoder'.parsed = "none" => decoder'.buffer = SubSeq(sent, 1, n) /\ \A i \in 1..n : sent[i] # Newline
           /\ decoder'.parsed # "none" => IsFrame(SubSeq(sent, 1, n), decoder'.parsed)
  BY <1>1, <1>2, PushIsExact
<1>4. ExchangeTypeOK'
  <2>1. taken \in Nat /\ Len(sent) \in Nat /\ sent \in Seq(Byte) /\ ended \in BOOLEAN
    BY DEF ExchangeInv, ExchangeTypeOK
  <2>2. n \in 0..Len(sent)
    BY <2>1
  <2> QED
    BY <1>1, <1>2, <1>3, <2>1, <2>2 DEF ExchangeTypeOK
<1>5. CASE decoder'.error = "none"
  <2>1. UNCHANGED <<verdict, timers, socket>>
    BY <1>5 DEF OnData, Unsettled
  <2>2. DecodedOK'
    BY <1>1, <1>2, <1>3, <1>5 DEF DecodedOK, ReadSoFar, IsFrame
  <2>3. SocketOK' /\ VerdictIsWhole'
    BY <1>2, <2>1 DEF ExchangeInv, SocketOK, VerdictIsWhole
  <2> QED
    BY <1>4, <2>2, <2>3 DEF ExchangeInv
<1>6. CASE decoder'.error # "none"
  <2>1. SettleExchange("invalid_ack")
    BY <1>6 DEF OnData
  <2>2. verdict' = "invalid_ack" /\ socket' # "open" /\ (socket = "none" => socket' = "none")
    BY <2>1, SettledIsClosed
  <2>3. ~Says("accepted")' /\ ~Says("refused")'
    BY <1>2, <1>3, <1>6 DEF Says
  <2>4. VerdictIsWhole' /\ DecodedOK'
    BY <2>2, <2>3 DEF VerdictIsWhole, DecodedOK
  <2>5. SocketOK'
    BY <1>2, <2>2 DEF ExchangeInv, SocketOK
  <2> QED
    BY <1>4, <2>4, <2>5 DEF ExchangeInv
<1> QED
  BY <1>5, <1>6

\* The stream has ended: the whole of it was one acknowledgement or it was not.
LEMMA FinishAckKeeps ==
  ASSUME ExchangeInv, FinishAck
  PROVE  ExchangeInv'
<1>1. /\ UNCHANGED <<begin, stopped, taken, sent, ended>> /\ verdict = "none" /\ socket = "open" /\ ended = TRUE
      /\ taken = Len(sent) /\ decoder' = Finish(decoder)
  BY DEF FinishAck, peerVars, ExchangeInv, ExchangeTypeOK
<1>2. sent \in Seq(Byte) /\ decoder \in Decoder
  BY DEF ExchangeInv, ExchangeTypeOK
<1>3. ReadSoFar = sent
  BY <1>1, <1>2 DEF ReadSoFar
<1>4. /\ decoder.error = "none" /\ ~decoder.finished
      /\ decoder.parsed = "none" => \A i \in 1..Len(sent) : sent[i] # Newline
      /\ decoder.parsed # "none" => IsFrame(sent, decoder.parsed)
  BY <1>1, <1>3 DEF ExchangeInv, DecodedOK
<1> DEFINE over == [decoder EXCEPT !.finished = TRUE]
           answer == CASE decoder'.error # "none" \/ decoder'.parsed = "foreign" -> "invalid_ack"
                       [] decoder'.error = "none" /\ decoder'.parsed = "refused" -> "remote_rejected"
                       [] decoder'.error = "none" /\ decoder'.parsed = "accepted" -> "accepted"
<1>5. SettleExchange(answer)
  BY DEF FinishAck
<1>6. over \in Decoder /\ over.parsed = decoder.parsed /\ over.error = "none"
  BY <1>2, <1>4 DEF Decoder
<1>7. decoder' = IF decoder.parsed = "none" THEN Refused(over, "malformed") ELSE over
  BY <1>1, <1>4, <1>6 DEF Finish
<1> HIDE DEF over
<1>8. /\ answer # "none"
      /\ answer = "accepted" => Says("accepted")
      /\ answer = "remote_rejected" => Says("refused")
      /\ answer = "invalid_ack" => ~Says("accepted") /\ ~Says("refused")
      /\ decoder' \in Decoder
  <2>1. CASE decoder.parsed = "none"
    <3>1. Refused(over, "malformed") \in Decoder /\ Refused(over, "malformed").error = "malformed"
      BY <1>6 DEF Refused, Decoder, Code
    <3>2. decoder' \in Decoder /\ decoder'.error = "malformed"
      BY <1>7, <2>1, <3>1
    <3>3. answer = "invalid_ack"
      BY <3>2
    <3>4. \A kind : ~Says(kind)
      <4> SUFFICES ASSUME NEW kind, Says(kind) PROVE FALSE
        OBVIOUS
      <4>1. Len(sent) \in 1..Len(sent) /\ sent[Len(sent)] = Newline
        <5>1. PICK text \in DOMAIN FrameOf : Len(sent) = Len(text) + 1 /\ sent[Len(sent)] = Newline
          BY <1>2, FrameStreams
        <5>2. Len(text) \in Nat
          BY FramesAre
        <5> QED
          BY <5>1, <5>2
      <4> QED
        BY <1>4, <2>1, <4>1
    <3> HIDE DEF answer
    <3> QED
      BY <3>2, <3>3, <3>4
  <2>2. CASE decoder.parsed # "none"
    <3>1. decoder' = over /\ decoder'.error = "none" /\ decoder'.parsed = decoder.parsed /\ decoder' \in Decoder
      BY <1>6, <1>7, <2>2
    <3>2. decoder.parsed \in FrameKind /\ IsFrame(sent, decoder.parsed)
      BY <1>2, <1>4, <2>2 DEF Decoder
    <3>3. \A k : Says(k) => k = decoder.parsed
      BY <1>2, <3>2, OneFrame
    <3>4. Says(decoder.parsed)
      BY <3>2 DEF IsFrame, Says
    <3>5. CASE decoder.parsed = "foreign"
      <4>1. answer = "invalid_ack"
        BY <3>1, <3>5
      <4> HIDE DEF answer
      <4> QED
        BY <3>1, <3>3, <3>5, <4>1
    <3>6. CASE decoder.parsed = "refused"
      <4>1. answer = "remote_rejected"
        BY <3>1, <3>6
      <4> HIDE DEF answer
      <4> QED
        BY <3>1, <3>4, <3>6, <4>1
    <3>7. CASE decoder.parsed = "accepted"
      <4>1. answer = "accepted"
        BY <3>1, <3>7
      <4> HIDE DEF answer
      <4> QED
        BY <3>1, <3>4, <3>7, <4>1
    <3> QED
      BY <3>2, <3>5, <3>6, <3>7 DEF FrameKind
  <2> QED
    BY <2>1, <2>2
<1> HIDE DEF answer
<1>9. verdict' = answer /\ socket' # "open" /\ (socket = "none" => socket' = "none")
  BY <1>5, <1>8, SettledIsClosed
<1>10. ExchangeTypeOK'
  BY <1>1, <1>8 DEF ExchangeInv, ExchangeTypeOK
<1>11. VerdictIsWhole' /\ DecodedOK'
  BY <1>1, <1>8, <1>9 DEF VerdictIsWhole, DecodedOK, Says
<1>12. SocketOK'
  BY <1>1, <1>9 DEF ExchangeInv, SocketOK
<1> QED
  BY <1>10, <1>11, <1>12 DEF ExchangeInv

\* The peer writes only while nothing is settled, behind what was read.
LEMMA PeerWritesKeeps ==
  ASSUME ExchangeInv, PeerWrites
  PROVE  ExchangeInv'
<1>1. PICK b \in Byte : sent' = Append(sent, b)
  BY DEF PeerWrites
<1>2. UNCHANGED <<begin, verdict, socket, decoder, taken, ended>> /\ verdict = "none"
  BY DEF PeerWrites, ExchangeInv, SocketOK
<1>3. sent \in Seq(Byte) /\ taken \in 0..Len(sent)
  BY DEF ExchangeInv, ExchangeTypeOK
<1>4. /\ sent' \in Seq(Byte) /\ taken \in 0..Len(sent')
      /\ SubSeq(sent', 1, taken) = SubSeq(sent, 1, taken)
      /\ \A i \in 1..taken : sent'[i] = sent[i]
  BY <1>1, <1>3
<1>5. ExchangeTypeOK'
  BY <1>2, <1>4 DEF ExchangeInv, ExchangeTypeOK
<1>6. DecodedOK'
  BY <1>2, <1>4 DEF ExchangeInv, DecodedOK, ReadSoFar, IsFrame
<1>7. SocketOK' /\ VerdictIsWhole'
  BY <1>2 DEF ExchangeInv, SocketOK, VerdictIsWhole
<1> QED
  BY <1>5, <1>6, <1>7 DEF ExchangeInv

\* The peer ends the stream.
LEMMA PeerEndsKeeps ==
  ASSUME ExchangeInv, PeerEnds
  PROVE  ExchangeInv'
<1>1. UNCHANGED <<begin, verdict, socket, decoder, taken, sent>> /\ verdict = "none" /\ ended' = TRUE
  BY DEF PeerEnds, ExchangeInv, SocketOK
<1>2. ExchangeTypeOK'
  BY <1>1 DEF ExchangeInv, ExchangeTypeOK
<1>3. DecodedOK'
  BY <1>1 DEF ExchangeInv, DecodedOK, ReadSoFar, IsFrame
<1>4. SocketOK' /\ VerdictIsWhole'
  BY <1>1 DEF ExchangeInv, SocketOK, VerdictIsWhole
<1> QED
  BY <1>2, <1>3, <1>4 DEF ExchangeInv

\* Where begin() and the connection go: settled for a reason of the client, or on.
LEMMA ClientStepKeeps ==
  ASSUME ExchangeInv, SendNotification \/ Resolved \/ Asked \/ OnConnect \/ SocketFails \/ TimerFires \/ Aborts \/ CloseClient
  PROVE  ExchangeInv'
<1> DEFINE Plain == {"stale", "not_found", "io_error", "connect_timeout", "ack_timeout", "aborted", "closed", "self", "busy"}
<1>1. UNCHANGED <<decoder, taken, sent, ended>>
  BY DEF SendNotification, Resolved, Asked, OnConnect, SocketFails, TimerFires, Aborts, CloseClient, Reading, peerVars
<1>2. (verdict # "none" => socket # "open") /\ (begin \in {"none", "resolving", "asking"} => socket = "none")
  BY DEF ExchangeInv, SocketOK
<1>3. \A result \in Plain : SettleExchange(result) =>
        verdict = "none" /\ verdict' = result /\ socket' # "open" /\ (socket = "none" => socket' = "none")
  BY SettledIsClosed
<1>4. \A result \in Plain : result \notin {"none", "accepted", "remote_rejected", "invalid_ack"}
  OBVIOUS
<1>5. \/ /\ verdict = "none" /\ verdict' \in Plain /\ socket' # "open"
         /\ begin' \in {"none", "resolving", "asking"} => socket' = "none"
      \/ /\ UNCHANGED verdict /\ (verdict # "none" => socket' # "open")
         /\ begin' \in {"none", "resolving", "asking"} => socket' = "none"
  <2>1. CASE SendNotification
    BY <1>2, <2>1 DEF SendNotification, Unsettled
  <2>2. CASE Resolved
    BY <1>2, <1>3, <2>2 DEF Resolved, Unsettled
  <2>3. CASE Asked
    BY <1>2, <1>3, <2>3 DEF Asked, Unsettled, Connects
  <2>4. CASE OnConnect
    BY <1>2, <1>3, <2>4 DEF OnConnect
  <2>5. CASE SocketFails
    BY <1>2, <1>3, <2>5 DEF SocketFails
  <2>6. CASE TimerFires
    BY <1>2, <1>3, <2>6 DEF TimerFires
  <2>7. CASE Aborts
    BY <1>2, <1>3, <2>7 DEF Aborts
  <2>8. CASE CloseClient
    BY <1>2, <1>3, <2>8 DEF CloseClient, Unsettled
  <2> QED
    BY <2>1, <2>2, <2>3, <2>4, <2>5, <2>6, <2>7, <2>8
<1> HIDE DEF Plain
<1> QED
  BY <1>1, <1>4, <1>5, PlainSettleKeeps, QuietKeeps

\* Initially nothing was sent.
LEMMA ExchangeStarts == ExchangeInit => ExchangeInv
<1> SUFFICES ASSUME ExchangeInit PROVE ExchangeInv
  OBVIOUS
<1>1. sent = <<>> /\ taken = 0 /\ Len(sent) = 0 /\ sent \in Seq(Byte)
  BY DEF ExchangeInit
<1>2. ExchangeTypeOK
  <2>1. NewDecoder \in Decoder
    <3>1. <<>> \in Seq(Byte)
      OBVIOUS
    <3> QED
      BY <3>1 DEF NewDecoder, Decoder, Code
  <2>2. ended = FALSE /\ decoder = NewDecoder
    BY DEF ExchangeInit
  <2>3. taken \in 0..Len(sent)
    <3>1. 0 \in 0..0
      OBVIOUS
    <3> QED
      BY <1>1, <3>1, Zenon
  <2>4. sent \in Seq(Byte)
    BY <1>1
  <2>5. decoder \in Decoder /\ ended \in BOOLEAN
    BY <2>1, <2>2
  <2> QED
    BY <2>3, <2>4, <2>5 DEF ExchangeTypeOK
<1>3. DecodedOK
  <2>1. ReadSoFar = <<>>
    BY <1>1 DEF ReadSoFar
  <2>2. decoder.buffer = <<>> /\ decoder.parsed = "none" /\ ~decoder.finished /\ decoder.error = "none"
    BY DEF ExchangeInit, NewDecoder
  <2>3. \A i \in 1..taken : sent[i] # Newline
    BY <1>1
  <2> QED
    BY <2>1, <2>2, <2>3 DEF DecodedOK
<1>4. SocketOK /\ VerdictIsWhole
  BY DEF ExchangeInit, SocketOK, VerdictIsWhole
<1> QED
  BY <1>2, <1>3, <1>4 DEF ExchangeInv

\* Every step keeps the invariant.
LEMMA ExchangeKeeps == ExchangeInv /\ [ExchangeNext]_exchangeVars => ExchangeInv'
<1> SUFFICES ASSUME ExchangeInv, [ExchangeNext]_exchangeVars PROVE ExchangeInv'
  OBVIOUS
<1>1. CASE ExchangeNext
  BY <1>1, ClientStepKeeps, OnDataKeeps, FinishAckKeeps, PeerWritesKeeps, PeerEndsKeeps DEF ExchangeNext
<1>2. CASE UNCHANGED exchangeVars
  <2>1. UNCHANGED <<begin, verdict, socket, decoder, taken, sent, ended>>
    BY <1>2 DEF exchangeVars, peerVars
  <2> QED
    BY <2>1, QuietKeeps DEF ExchangeInv, SocketOK
<1> QED
  BY <1>1, <1>2

\* However the peer's bytes are cut into chunks, for any bytes, frames and
\* bounds: accepted or rejected is reported only of a stream that is exactly that
\* acknowledgement, invalid only of one that is neither (FrameDecoder, finishAck).
THEOREM VerdictsAreWhole == ExchangeSpec => []VerdictIsWhole
<1>1. ExchangeInv => VerdictIsWhole
  BY DEF ExchangeInv
<1> QED
  BY ExchangeStarts, ExchangeKeeps, <1>1, PTL DEF ExchangeSpec

-----------------------------------------------------------------------------
(* The tool policies.                                                      *)

SessionMode == {"tui", "headless", "rpc"}
CallState == {"idle", "preflight", "confirming", "running", "refused"}
InputKind == {"none", "bash", "path", "parentMessage", "write", "sdd", "fix", "writer"}
CallInput == SddDispatch \cup DirectWrite \cup [kind : InputKind]
Call == [pc : CallState, session : PiSession \cup {"none"}, input : CallInput,
         carried : {NoPrefs, "prompted", "defaults"},
         parts : SUBSET GuardAction, said : {"none", "yes", "no", "throws"}]
Blocker == {"choice", "questionnaire", "guarded", "none"}
Attention == [choice : BOOLEAN, questionnaire : BOOLEAN, pending : Nat, label : Blocker]
Dialogs == [choice : BOOLEAN, questionnaire : BOOLEAN]
Preflight == [prefs : {NoPrefs, "prompted", "defaults"}, flight : {"idle", "asking", "resolved"}]
Guardrails == [env : BOOLEAN, global : GuardFile, project : GuardFile]
Line == {"on", "off", "unknown"}
Outcome == {"unknown", "declined", "unavailable"}
Plan == [verifier : BOOLEAN, gated : BOOLEAN, closed : BOOLEAN]
RddState == [history : Seq({"on", "off"}), memo : [line : Line, until : Nat], asked : [LineRead -> Nat],
             served : [line : Line, at : Nat], outcomes : [Finding -> Outcome], plan : Plan]

\* Every variable the handlers decide on is well typed.
HandlersOK ==
    /\ mode \in [PiSession -> SessionMode]
    /\ guardrails \in Guardrails
    /\ preflight \in [PiSession -> Preflight]
    /\ saved \in {NoPrefs, "prompted", "defaults"} /\ answered \subseteq PiSession
    /\ toolCall \in [ToolCall -> Call]
    /\ attention \in [PiSession -> Attention]
    /\ dialogs \in [PiSession -> Dialogs]
    /\ rdd \in RddState

Confirming(s) == {c \in ToolCall : toolCall[c].pc = "confirming" /\ toolCall[c].session = s}

\* The host's view of a session: its causes are the dialogs that are open and the
\* number of confirmations that are awaited, and the label is theirs.
AttentionFollows ==
    \A s \in PiSession :
        /\ attention[s].choice = dialogs[s].choice
        /\ attention[s].questionnaire = dialogs[s].questionnaire
        /\ attention[s].pending = Cardinality(Confirming(s))
        /\ attention[s].label = Label(attention[s].choice, attention[s].questionnaire, attention[s].pending)

\* A call that was let in has a session; only a running call carries preferences.
CallsHoused ==
    \A c \in ToolCall : /\ toolCall[c].pc # "idle" => toolCall[c].session \in PiSession
                        /\ toolCall[c].pc # "running" => toolCall[c].carried = NoPrefs

\* Where a preflight stands: only an interactive session asks, and what is resolved
\* or kept as prompted there was confirmed by its own user.
PreflightsHeard ==
    /\ \A s \in PiSession :
          /\ preflight[s].flight = "asking" => mode[s] = "tui"
          /\ preflight[s].flight = "resolved" /\ mode[s] = "tui" => s \in answered
          /\ preflight[s].prefs = "prompted" => s \in answered
    /\ \A c \in ToolCall : toolCall[c].pc = "preflight" => mode[toolCall[c].session] # "rpc"

\* The memo outlives the moment its line was read by its lifetime at most.
MemoIsDated ==
    rdd.memo.line # "unknown" =>
        \E i \in 1..Clock : i + MemoTtl >= rdd.memo.until /\ rdd.history[i] = rdd.memo.line

HandlersInv ==
    /\ HandlersOK /\ AttentionFollows /\ CallsHoused /\ PreflightsHeard /\ MemoIsDated
    /\ DispatchIsConfirmed /\ LineIsRecent /\ VerifierKept

-----------------------------------------------------------------------------
\* The invariant holds initially.
LEMMA HandlersInitially == PolicyInit => HandlersInv
<1> SUFFICES ASSUME PolicyInit PROVE HandlersInv
  OBVIOUS
<1>1. NoCall \in Call
  <2>1. [kind |-> "none"] \in CallInput
    BY DEF CallInput, InputKind
  <2> QED
    BY <2>1 DEF NoCall, Call, CallState, NoPrefs
<1>2. \A c \in ToolCall : toolCall[c] = NoCall
  BY DEF PolicyInit
<1>3. \A c \in ToolCall : toolCall[c].pc = "idle" /\ toolCall[c].carried = "none"
  BY <1>2 DEF NoCall
<1>4. /\ rdd.history = <<"off">> /\ rdd.memo.line = "unknown" /\ rdd.served.line = "unknown"
      /\ rdd.plan.gated = FALSE
  BY DEF PolicyInit
<1>5. rdd \in RddState
  <2>1. <<"off">> \in Seq({"on", "off"})
    OBVIOUS
  <2> QED
    BY <2>1 DEF PolicyInit, RddState, Line, Outcome, Plan
<1>6. HandlersOK
  <2>1. toolCall \in [ToolCall -> Call]
    BY <1>1 DEF PolicyInit
  <2>2. attention \in [PiSession -> Attention] /\ dialogs \in [PiSession -> Dialogs] /\ preflight \in [PiSession -> Preflight]
    BY DEF PolicyInit, Attention, Dialogs, Preflight, Blocker, NoPrefs
  <2> QED
    BY <1>5, <2>1, <2>2 DEF PolicyInit, HandlersOK, SessionMode, Guardrails, NoPrefs
<1>7. AttentionFollows
  <2> SUFFICES ASSUME NEW s \in PiSession
               PROVE  /\ attention[s].choice = dialogs[s].choice
                      /\ attention[s].questionnaire = dialogs[s].questionnaire
                      /\ attention[s].pending = Cardinality(Confirming(s))
                      /\ attention[s].label = Label(attention[s].choice, attention[s].questionnaire, attention[s].pending)
    BY DEF AttentionFollows
  <2>1. Confirming(s) = {}
    BY <1>3 DEF Confirming
  <2>2. Cardinality(Confirming(s)) = 0
    BY <2>1, FS_EmptySet
  <2>3. attention[s] = [choice |-> FALSE, questionnaire |-> FALSE, pending |-> 0, label |-> "none"]
    BY DEF PolicyInit
  <2>4. dialogs[s] = [choice |-> FALSE, questionnaire |-> FALSE]
    BY DEF PolicyInit
  <2>5. attention[s].choice = FALSE /\ attention[s].questionnaire = FALSE /\ attention[s].pending = 0 /\ attention[s].label = "none"
    BY <2>3
  <2>6. dialogs[s].choice = FALSE /\ dialogs[s].questionnaire = FALSE
    BY <2>4
  <2>7. Label(FALSE, FALSE, 0) = "none"
    BY DEF Label
  <2> QED
    BY <2>2, <2>5, <2>6, <2>7
<1>8. CallsHoused /\ DispatchIsConfirmed
  BY <1>3 DEF CallsHoused, DispatchIsConfirmed, NoPrefs
<1>9. PreflightsHeard
  BY <1>3 DEF PreflightsHeard, PolicyInit, NoPrefs
<1>10. MemoIsDated /\ LineIsRecent /\ VerifierKept
  BY <1>4 DEF MemoIsDated, LineIsRecent, VerifierKept
<1> QED
  BY <1>6, <1>7, <1>8, <1>9, <1>10 DEF HandlersInv

-----------------------------------------------------------------------------
(* Each group of handlers disturbs a part of the state.                    *)

\* The line, the memo and the plan follow from the state of the reads alone.
LEMMA ReadsUntouched ==
  ASSUME MemoIsDated, LineIsRecent, VerifierKept, UNCHANGED rdd
  PROVE  MemoIsDated' /\ LineIsRecent' /\ VerifierKept'
BY DEF MemoIsDated, LineIsRecent, VerifierKept, Clock

\* The attention of a session follows from its dialogs and the calls that wait there.
LEMMA AttentionUntouched ==
  ASSUME AttentionFollows, UNCHANGED <<attention, dialogs>>,
         \A s \in PiSession : Confirming(s)' = Confirming(s)
  PROVE  AttentionFollows'
<1> SUFFICES ASSUME NEW s \in PiSession
             PROVE  /\ attention[s].choice = dialogs[s].choice
                    /\ attention[s].questionnaire = dialogs[s].questionnaire
                    /\ attention[s].pending = Cardinality(Confirming(s)')
                    /\ attention[s].label = Label(attention[s].choice, attention[s].questionnaire, attention[s].pending)
  BY DEF AttentionFollows
<1>1. Confirming(s)' = Confirming(s)
  OBVIOUS
<1> QED
  BY <1>1 DEF AttentionFollows

\* While no call moves, the same ones wait.
LEMMA CallsUntouched ==
  ASSUME UNCHANGED toolCall
  PROVE  \A s \in PiSession : Confirming(s)' = Confirming(s)
BY DEF Confirming

\* Nothing of a dispatch depends on anything else than calls, preflights and answers.
LEMMA DispatchUntouched ==
  ASSUME CallsHoused, PreflightsHeard, DispatchIsConfirmed, UNCHANGED <<mode, preflight, answered, toolCall>>
  PROVE  CallsHoused' /\ PreflightsHeard' /\ DispatchIsConfirmed'
BY DEF CallsHoused, PreflightsHeard, DispatchIsConfirmed

-----------------------------------------------------------------------------
(* The line and the plan.                                                  *)

\* The clock ticks: what was the mode stays the mode of its moment.
LEMMA TickKeeps ==
  ASSUME HandlersInv, NEW m \in {"on", "off"}, Tick(m)
  PROVE  HandlersInv'
<1>1. UNCHANGED <<mode, turn, guardrails, preflight, saved, answered, toolCall, attention, dialogs>>
      /\ rdd' = [rdd EXCEPT !.history = Append(@, m)]
  BY DEF Tick
<1>2. rdd \in RddState
  BY DEF HandlersInv, HandlersOK
<1>3. rdd.history \in Seq({"on", "off"}) /\ Append(rdd.history, m) \in Seq({"on", "off"})
  BY <1>2 DEF RddState
<1>4. /\ rdd' \in RddState /\ rdd'.history = Append(rdd.history, m)
      /\ rdd'.memo = rdd.memo /\ rdd'.served = rdd.served /\ rdd'.plan = rdd.plan
  BY <1>1, <1>2, <1>3 DEF RddState
<1>5. /\ Len(rdd'.history) = Len(rdd.history) + 1 /\ Len(rdd.history) \in Nat
      /\ \A i \in 1..Len(rdd.history) : rdd'.history[i] = rdd.history[i]
  BY <1>3, <1>4
<1>6. HandlersOK'
  BY <1>1, <1>4 DEF HandlersInv, HandlersOK
<1>7. MemoIsDated'
  <2> SUFFICES ASSUME rdd.memo.line # "unknown"
               PROVE  \E i \in 1..Len(rdd'.history) : i + MemoTtl >= rdd.memo.until /\ rdd'.history[i] = rdd.memo.line
    BY <1>4 DEF MemoIsDated, Clock
  <2>1. PICK i \in 1..Len(rdd.history) : i + MemoTtl >= rdd.memo.until /\ rdd.history[i] = rdd.memo.line
    BY DEF HandlersInv, MemoIsDated, Clock
  <2>2. i \in 1..Len(rdd'.history) /\ rdd'.history[i] = rdd.history[i]
    BY <1>5
  <2> QED
    BY <2>1, <2>2
<1>8. LineIsRecent'
  <2> SUFFICES ASSUME rdd.served.line # "unknown"
               PROVE  \E i \in 1..Len(rdd'.history) : i + MemoTtl > rdd.served.at /\ rdd'.history[i] = rdd.served.line
    BY <1>4 DEF LineIsRecent, Clock
  <2>1. PICK i \in 1..Len(rdd.history) : i + MemoTtl > rdd.served.at /\ rdd.history[i] = rdd.served.line
    BY DEF HandlersInv, LineIsRecent, Clock
  <2>2. i \in 1..Len(rdd'.history) /\ rdd'.history[i] = rdd.history[i]
    BY <1>5
  <2> QED
    BY <2>1, <2>2
<1>9. VerifierKept'
  BY <1>4 DEF HandlersInv, VerifierKept
<1>10. AttentionFollows'
  BY <1>1, CallsUntouched, AttentionUntouched DEF HandlersInv
<1>11. CallsHoused' /\ PreflightsHeard' /\ DispatchIsConfirmed'
  BY <1>1, DispatchUntouched DEF HandlersInv
<1> QED
  BY <1>6, <1>7, <1>8, <1>9, <1>10, <1>11 DEF HandlersInv

\* A memo that is still fresh is served: its line was read less than its lifetime ago.
LEMMA AskKeeps ==
  ASSUME HandlersInv, NEW r \in LineRead, AskRdd(r)
  PROVE  HandlersInv'
<1>1. UNCHANGED <<mode, turn, guardrails, preflight, saved, answered, toolCall, attention, dialogs>>
  BY DEF AskRdd
<1>2. rdd \in RddState
  BY DEF HandlersInv, HandlersOK
<1>3. Clock \in Nat
  BY <1>2 DEF Clock, RddState
<1>4. AttentionFollows'
  BY <1>1, CallsUntouched, AttentionUntouched DEF HandlersInv
<1>5. CallsHoused' /\ PreflightsHeard' /\ DispatchIsConfirmed'
  BY <1>1, DispatchUntouched DEF HandlersInv
<1>6. CASE rdd.memo.until > Clock
  <2> DEFINE shown == [line |-> rdd.memo.line, at |-> Clock]
  <2>1. rdd' = [rdd EXCEPT !.served = shown]
    BY <1>6 DEF AskRdd
  <2>2. shown \in [line : Line, at : Nat] /\ shown.line = rdd.memo.line /\ shown.at = Clock
    BY <1>2, <1>3 DEF RddState
  <2> HIDE DEF shown
  <2>3. /\ rdd' \in RddState /\ rdd'.history = rdd.history /\ rdd'.served = shown
        /\ rdd'.memo = rdd.memo /\ rdd'.plan = rdd.plan
    BY <1>2, <2>1, <2>2 DEF RddState
  <2>4. HandlersOK'
    BY <1>1, <2>3 DEF HandlersInv, HandlersOK
  <2>5. MemoIsDated' /\ VerifierKept'
    BY <2>3 DEF HandlersInv, MemoIsDated, VerifierKept, Clock
  <2>6. LineIsRecent'
    <3> SUFFICES ASSUME rdd.memo.line # "unknown"
                 PROVE  \E i \in 1..Clock : i + MemoTtl > Clock /\ rdd.history[i] = rdd.memo.line
      BY <2>2, <2>3 DEF LineIsRecent, Clock
    <3>1. PICK i \in 1..Clock : i + MemoTtl >= rdd.memo.until /\ rdd.history[i] = rdd.memo.line
      BY DEF HandlersInv, MemoIsDated
    <3>2. rdd.memo.until \in Nat
      BY <1>2 DEF RddState
    <3> QED
      BY <1>3, <1>6, <3>1, <3>2, ToolPolicyAssumption
  <2> QED
    BY <1>4, <1>5, <2>4, <2>5, <2>6 DEF HandlersInv
<1>7. CASE ~(rdd.memo.until > Clock)
  <2>1. rdd' = [rdd EXCEPT !.asked[r] = Clock]
    BY <1>7 DEF AskRdd
  <2>2. /\ rdd' \in RddState /\ rdd'.history = rdd.history /\ rdd'.served = rdd.served
        /\ rdd'.memo = rdd.memo /\ rdd'.plan = rdd.plan
    BY <1>2, <1>3, <2>1 DEF RddState
  <2>3. HandlersOK'
    BY <1>1, <2>2 DEF HandlersInv, HandlersOK
  <2>4. MemoIsDated' /\ LineIsRecent' /\ VerifierKept'
    BY <2>2 DEF HandlersInv, MemoIsDated, LineIsRecent, VerifierKept, Clock
  <2> QED
    BY <1>4, <1>5, <2>3, <2>4 DEF HandlersInv
<1> QED
  BY <1>6, <1>7

\* The native answer is served and remembered from the moment of the question.
LEMMA AnswerKeeps ==
  ASSUME HandlersInv, NEW r \in LineRead, NEW line \in Line, RddAnswers(r, line)
  PROVE  HandlersInv'
<1>1. UNCHANGED <<mode, turn, guardrails, preflight, saved, answered, toolCall, attention, dialogs>>
  BY DEF RddAnswers
<1>2. rdd \in RddState
  BY DEF HandlersInv, HandlersOK
<1>3. Clock \in Nat /\ rdd.asked[r] \in Nat
  BY <1>2 DEF Clock, RddState
<1> DEFINE kept == [line |-> line, until |-> MemoUntil(rdd.asked[r])]
           shown == [line |-> line, at |-> Clock]
<1>4. rdd' = [rdd EXCEPT !.asked[r] = 0, !.memo = kept, !.served = shown]
  BY DEF RddAnswers
<1>5. /\ kept \in [line : Line, until : Nat] /\ kept.line = line /\ kept.until = rdd.asked[r] + MemoTtl
      /\ shown \in [line : Line, at : Nat] /\ shown.line = line /\ shown.at = Clock
  BY <1>3, ToolPolicyAssumption DEF MemoUntil
<1> HIDE DEF kept, shown
<1>6. /\ rdd' \in RddState /\ rdd'.history = rdd.history /\ rdd'.served = shown
      /\ rdd'.memo = kept /\ rdd'.plan = rdd.plan
  BY <1>2, <1>4, <1>5 DEF RddState
<1>7. HandlersOK'
  BY <1>1, <1>6 DEF HandlersInv, HandlersOK
<1>8. VerifierKept'
  BY <1>6 DEF HandlersInv, VerifierKept
<1>9. line # "unknown" => \E i \in 1..Clock : /\ i + MemoTtl >= rdd.asked[r] + MemoTtl /\ i + MemoTtl > Clock
                                              /\ rdd.history[i] = line
  <2> SUFFICES ASSUME line # "unknown"
               PROVE  \E i \in 1..Clock : /\ i + MemoTtl >= rdd.asked[r] + MemoTtl /\ i + MemoTtl > Clock
                                          /\ rdd.history[i] = line
    OBVIOUS
  <2>1. line \in {rdd.history[i] : i \in rdd.asked[r]..Clock} /\ Clock - rdd.asked[r] <= ReadTimeout /\ rdd.asked[r] # 0
    BY DEF RddAnswers
  <2>2. PICK i \in rdd.asked[r]..Clock : rdd.history[i] = line
    BY <2>1
  <2>3. i \in 1..Clock /\ i + MemoTtl >= rdd.asked[r] + MemoTtl /\ i + MemoTtl > Clock
    BY <1>3, <2>1, <2>2, ToolPolicyAssumption
  <2> QED
    BY <2>2, <2>3
<1>10. MemoIsDated' /\ LineIsRecent'
  BY <1>5, <1>6, <1>9 DEF MemoIsDated, LineIsRecent, Clock
<1>11. AttentionFollows'
  BY <1>1, CallsUntouched, AttentionUntouched DEF HandlersInv
<1>12. CallsHoused' /\ PreflightsHeard' /\ DispatchIsConfirmed'
  BY <1>1, DispatchUntouched DEF HandlersInv
<1> QED
  BY <1>7, <1>8, <1>10, <1>11, <1>12 DEF HandlersInv

\* An outcome that is remembered is never that the review closed.
LEMMA OutcomeKeeps ==
  ASSUME HandlersInv, NEW x \in Finding, NEW o \in {"declined", "unavailable"}, RecordOutcome(x, o)
  PROVE  HandlersInv'
<1>1. UNCHANGED <<mode, turn, guardrails, preflight, saved, answered, toolCall, attention, dialogs>>
      /\ rdd' = [rdd EXCEPT !.outcomes[x] = o]
  BY DEF RecordOutcome
<1>2. rdd \in RddState
  BY DEF HandlersInv, HandlersOK
<1>3. /\ rdd' \in RddState /\ rdd'.history = rdd.history /\ rdd'.served = rdd.served
      /\ rdd'.memo = rdd.memo /\ rdd'.plan = rdd.plan
  BY <1>1, <1>2 DEF RddState, Outcome
<1>4. HandlersOK'
  BY <1>1, <1>3 DEF HandlersInv, HandlersOK
<1>5. MemoIsDated' /\ LineIsRecent' /\ VerifierKept'
  BY <1>3 DEF HandlersInv, MemoIsDated, LineIsRecent, VerifierKept, Clock
<1>6. AttentionFollows'
  BY <1>1, CallsUntouched, AttentionUntouched DEF HandlersInv
<1>7. CallsHoused' /\ PreflightsHeard' /\ DispatchIsConfirmed'
  BY <1>1, DispatchUntouched DEF HandlersInv
<1> QED
  BY <1>4, <1>5, <1>6, <1>7 DEF HandlersInv

\* Only what the caller states replaces the verifier.
LEMMA PlanKeeps ==
  ASSUME HandlersInv, NEW line \in Line, NEW risk \in Risk, NEW small \in BOOLEAN,
         NEW stated \in {"none", "closed", "declined", "unavailable", "unknown"},
         NEW candidates \in SUBSET Finding, AssessPlan(line, risk, small, stated, candidates)
  PROVE  HandlersInv'
<1> DEFINE derived == {rdd.outcomes[x] : x \in candidates} \ {"unknown"}
           outcome == IF stated # "none" THEN stated
                      ELSE IF derived = {} THEN "unknown" ELSE CHOOSE o \in derived : TRUE
           plan == [verifier |-> VerifierRuns(line, risk, small, outcome), gated |-> GatedVerifier(risk, small),
                    closed |-> stated = "closed"]
<1>1. UNCHANGED <<mode, turn, guardrails, preflight, saved, answered, toolCall, attention, dialogs>>
      /\ rdd' = [rdd EXCEPT !.plan = plan]
  BY DEF AssessPlan
<1>2. rdd \in RddState
  BY DEF HandlersInv, HandlersOK
<1>3. stated # "closed" => outcome # "closed"
  <2>1. \A o \in derived : o \in Outcome
    BY <1>2 DEF RddState
  <2>2. derived # {} => (CHOOSE o \in derived : TRUE) \in derived
    OBVIOUS
  <2> QED
    BY <2>1, <2>2 DEF Outcome
<1> HIDE DEF outcome
<1>4. plan \in Plan
  BY DEF Plan, VerifierRuns, GatedVerifier
<1>5. plan.gated /\ ~plan.closed => plan.verifier
  BY <1>3 DEF VerifierRuns
<1> HIDE DEF plan
<1>6. /\ rdd' \in RddState /\ rdd'.history = rdd.history /\ rdd'.served = rdd.served
      /\ rdd'.memo = rdd.memo /\ rdd'.plan = plan
  BY <1>1, <1>2, <1>4 DEF RddState
<1>7. HandlersOK'
  BY <1>1, <1>6 DEF HandlersInv, HandlersOK
<1>8. MemoIsDated' /\ LineIsRecent' /\ VerifierKept'
  BY <1>5, <1>6 DEF HandlersInv, MemoIsDated, LineIsRecent, VerifierKept, Clock
<1>9. AttentionFollows'
  BY <1>1, CallsUntouched, AttentionUntouched DEF HandlersInv
<1>10. CallsHoused' /\ PreflightsHeard' /\ DispatchIsConfirmed'
  BY <1>1, DispatchUntouched DEF HandlersInv
<1> QED
  BY <1>7, <1>8, <1>9, <1>10 DEF HandlersInv

-----------------------------------------------------------------------------
(* Guarded commands.                                                       *)

\* Whatever the guardrail files say, the action of a key is one of the three.
LEMMA ActionsAreActions ==
  ASSUME guardrails \in Guardrails, NEW key \in GuardKey
  PROVE  ActionOf(LoadGuardrails(guardrails), key) \in GuardAction
<1> DEFINE cfg == LoadGuardrails(guardrails)
<1>1. /\ guardrails.global \in GuardFile /\ guardrails.project \in GuardFile
      /\ guardrails.global.acts \in [GuardKey -> GuardAction \cup {"unset"}]
      /\ guardrails.project.acts \in [GuardKey -> GuardAction \cup {"unset"}]
  BY ToolPolicyAssumption DEF Guardrails
<1>2. Unset[key] = "unset"
  BY DEF Unset
<1>3. cfg.acts[key] \in GuardAction \cup {"unset"}
  BY <1>1, <1>2 DEF LoadGuardrails, SafeConfig
<1> HIDE DEF cfg
<1>4. AutoDefault[key] \in GuardAction
  BY ToolPolicyAssumption
<1>5. ActionOf(cfg, key) \in GuardAction
  BY <1>3, <1>4 DEF ActionOf, GuardAction
<1> QED
  BY <1>5 DEF cfg

\* So is the action of every part of a command.
LEMMA PartsAreActions ==
  ASSUME guardrails \in Guardrails, NEW in \in Bash
  PROVE  PartActions(in.cmd, LoadGuardrails(guardrails)) \subseteq GuardAction
<1> DEFINE cfg == LoadGuardrails(guardrails)
<1>1. in.cmd.denied \in BOOLEAN /\ \A i \in DOMAIN in.cmd.keys : in.cmd.keys[i] \in GuardKey
  BY DEF Bash, GuardedCommands
<1>2. \A i \in DOMAIN in.cmd.keys : ActionOf(cfg, in.cmd.keys[i]) \in GuardAction
  BY <1>1, ActionsAreActions
<1> HIDE DEF cfg
<1>3. "block" \in GuardAction
  BY DEF GuardAction
<1>4. PartActions(in.cmd, cfg) \subseteq GuardAction
  BY <1>2, <1>3 DEF PartActions
<1> QED
  BY <1>4 DEF cfg

\* A command is judged by the strictest of its parts.
LEMMA StrictestIsJudged ==
  ASSUME NEW cmd, NEW cfg
  PROVE  /\ "block" \in PartActions(cmd, cfg) => EvaluateGuarded(cmd, cfg) = "block"
         /\ "block" \notin PartActions(cmd, cfg) /\ "confirm" \in PartActions(cmd, cfg) => EvaluateGuarded(cmd, cfg) = "confirm"
<1> DEFINE acts == PartActions(cmd, cfg)
<1>1. EvaluateGuarded(cmd, cfg) =
        CASE "block" \in acts -> "block"
          [] "block" \notin acts /\ "confirm" \in acts -> "confirm"
          [] OTHER -> IF acts = {} THEN "not-guarded" ELSE "allow"
  BY DEF EvaluateGuarded
<1> HIDE DEF acts
<1>2. /\ "block" \in acts => EvaluateGuarded(cmd, cfg) = "block"
      /\ "block" \notin acts /\ "confirm" \in acts => EvaluateGuarded(cmd, cfg) = "confirm"
  BY <1>1
<1> QED
  BY <1>2 DEF acts

-----------------------------------------------------------------------------
(* What the host is shown.                                                 *)

\* One session's attention follows from its new causes, the others' are untouched.
LEMMA AttentionMoves ==
  ASSUME HandlersOK, AttentionFollows, NEW s \in PiSession, NEW a \in Attention, NEW d \in Dialogs,
         attention' = [attention EXCEPT ![s] = a], dialogs' = [dialogs EXCEPT ![s] = d],
         a.choice = d.choice, a.questionnaire = d.questionnaire, a.pending = Cardinality(Confirming(s)'),
         a.label = Label(a.choice, a.questionnaire, a.pending),
         \A t \in PiSession : t # s => Confirming(t)' = Confirming(t)
  PROVE  /\ AttentionFollows'
         /\ attention' \in [PiSession -> Attention] /\ dialogs' \in [PiSession -> Dialogs]
<1>1. attention \in [PiSession -> Attention] /\ dialogs \in [PiSession -> Dialogs]
  BY DEF HandlersOK
<1>2. attention' \in [PiSession -> Attention] /\ dialogs' \in [PiSession -> Dialogs]
  BY <1>1
<1>3. attention'[s] = a /\ dialogs'[s] = d /\ \A t \in PiSession : t # s => attention'[t] = attention[t] /\ dialogs'[t] = dialogs[t]
  BY <1>1
<1>4. AttentionFollows'
  <2> SUFFICES ASSUME NEW t \in PiSession
               PROVE  /\ attention'[t].choice = dialogs'[t].choice
                      /\ attention'[t].questionnaire = dialogs'[t].questionnaire
                      /\ attention'[t].pending = Cardinality(Confirming(t)')
                      /\ attention'[t].label = Label(attention'[t].choice, attention'[t].questionnaire, attention'[t].pending)
    BY DEF AttentionFollows
  <2>1. CASE t = s
    BY <1>3, <2>1
  <2>2. CASE t # s
    <3>1. attention'[t] = attention[t] /\ dialogs'[t] = dialogs[t] /\ Confirming(t)' = Confirming(t)
      BY <1>3, <2>2
    <3> QED
      BY <3>1 DEF AttentionFollows
  <2> QED
    BY <2>1, <2>2
<1> QED
  BY <1>2, <1>4

\* What is shown after a change of the causes.
LEMMA ShownIsLabelled ==
  ASSUME NEW a \in [choice : BOOLEAN, questionnaire : BOOLEAN, pending : Nat, label : Blocker]
  PROVE  /\ Shown(a) \in Attention
         /\ Shown(a).choice = a.choice /\ Shown(a).questionnaire = a.questionnaire /\ Shown(a).pending = a.pending
         /\ Shown(a).label = Label(a.choice, a.questionnaire, a.pending)
<1>1. Label(a.choice, a.questionnaire, a.pending) \in Blocker
  BY DEF Label, Blocker
<1> QED
  BY <1>1 DEF Shown, Attention

\* A dialog announces itself, perhaps twice.
LEMMA AnnounceKeeps ==
  ASSUME HandlersInv, NEW s \in PiSession, NEW kind \in {"choice", "questionnaire"}, NEW open \in BOOLEAN,
         Announce(s, kind, open)
  PROVE  HandlersInv'
<1>1. UNCHANGED <<mode, turn, guardrails, preflight, saved, answered, toolCall, rdd>>
  BY DEF Announce
<1>2. attention \in [PiSession -> Attention] /\ dialogs \in [PiSession -> Dialogs]
  BY DEF HandlersInv, HandlersOK
<1> DEFINE was == attention[s]
           a == [was EXCEPT ![kind] = open]
           d == [dialogs[s] EXCEPT ![kind] = open]
<1>3. attention' = [attention EXCEPT ![s] = Shown(a)] /\ dialogs' = [dialogs EXCEPT ![s] = d]
  BY <1>2 DEF Announce
<1>4. was \in Attention /\ dialogs[s] \in Dialogs
  BY <1>2
<1>5. /\ a \in Attention /\ d \in Dialogs /\ a.pending = was.pending
      /\ kind = "choice" => a.choice = open /\ d.choice = open /\ a.questionnaire = was.questionnaire
                            /\ d.questionnaire = dialogs[s].questionnaire
      /\ kind = "questionnaire" => a.questionnaire = open /\ d.questionnaire = open /\ a.choice = was.choice
                            /\ d.choice = dialogs[s].choice
  BY <1>4 DEF Attention, Dialogs
<1> HIDE DEF was, a, d
<1>6. /\ Shown(a) \in Attention /\ Shown(a).choice = a.choice /\ Shown(a).questionnaire = a.questionnaire
      /\ Shown(a).pending = a.pending /\ Shown(a).label = Label(a.choice, a.questionnaire, a.pending)
  BY <1>5, ShownIsLabelled DEF Attention
<1>7. /\ was.choice = dialogs[s].choice /\ was.questionnaire = dialogs[s].questionnaire
      /\ was.pending = Cardinality(Confirming(s))
  BY DEF HandlersInv, AttentionFollows, was
<1>8. \A t \in PiSession : Confirming(t)' = Confirming(t)
  BY <1>1, CallsUntouched
<1> DEFINE b == Shown(a)
<1>9. /\ b \in Attention /\ b.choice = d.choice /\ b.questionnaire = d.questionnaire
      /\ b.pending = Cardinality(Confirming(s)') /\ b.label = Label(b.choice, b.questionnaire, b.pending)
  <2>1. b.choice = d.choice /\ b.questionnaire = d.questionnaire
    BY <1>5, <1>6, <1>7
  <2>2. b.pending = Cardinality(Confirming(s)')
    BY <1>5, <1>6, <1>7, <1>8
  <2> QED
    BY <1>6, <2>1, <2>2
<1> HIDE DEF b
<1>10. attention' = [attention EXCEPT ![s] = b]
  BY <1>3 DEF b
<1>11. HandlersOK /\ AttentionFollows
  BY DEF HandlersInv
<1>12. AttentionFollows' /\ attention' \in [PiSession -> Attention] /\ dialogs' \in [PiSession -> Dialogs]
  BY <1>3, <1>5, <1>8, <1>9, <1>10, <1>11, AttentionMoves
<1>13. HandlersOK'
  BY <1>1, <1>12 DEF HandlersInv, HandlersOK
<1>14. CallsHoused' /\ PreflightsHeard' /\ DispatchIsConfirmed'
  BY <1>1, DispatchUntouched DEF HandlersInv
<1>15. MemoIsDated' /\ LineIsRecent' /\ VerifierKept'
  BY <1>1, ReadsUntouched DEF HandlersInv
<1> QED
  BY <1>12, <1>13, <1>14, <1>15 DEF HandlersInv

\* A confirmation that joins or leaves those that wait in its session.
LEMMA PendingMoves ==
  ASSUME HandlersOK, AttentionFollows, NEW s \in PiSession, NEW n \in Nat,
         attention' = [attention EXCEPT ![s] = Awaiting(@, n)], UNCHANGED dialogs,
         n = Cardinality(Confirming(s)'), \A t \in PiSession : t # s => Confirming(t)' = Confirming(t)
  PROVE  AttentionFollows' /\ attention' \in [PiSession -> Attention]
<1>1. attention \in [PiSession -> Attention] /\ dialogs \in [PiSession -> Dialogs]
  BY DEF HandlersOK
<1> DEFINE was == attention[s]
           a == [was EXCEPT !.pending = n]
           b == Shown(a)
<1>2. was \in Attention
  BY <1>1
<1>3. a \in Attention /\ a.pending = n /\ a.choice = was.choice /\ a.questionnaire = was.questionnaire
  BY <1>2 DEF Attention
<1>4. attention' = [attention EXCEPT ![s] = b]
  BY <1>1 DEF Awaiting
<1>5. was.choice = dialogs[s].choice /\ was.questionnaire = dialogs[s].questionnaire
  BY DEF AttentionFollows
<1> HIDE DEF was, a
<1>6. /\ b \in Attention /\ b.choice = a.choice /\ b.questionnaire = a.questionnaire
      /\ b.pending = a.pending /\ b.label = Label(a.choice, a.questionnaire, a.pending)
  BY <1>3, ShownIsLabelled DEF Attention
<1> HIDE DEF b
<1>7. /\ b.choice = dialogs[s].choice /\ b.questionnaire = dialogs[s].questionnaire
      /\ b.pending = Cardinality(Confirming(s)') /\ b.label = Label(b.choice, b.questionnaire, b.pending)
  BY <1>3, <1>5, <1>6
<1> DEFINE d == dialogs[s]
<1>8. dialogs' = [dialogs EXCEPT ![s] = d] /\ d \in Dialogs
  BY <1>1
<1>9. b.choice = d.choice /\ b.questionnaire = d.questionnaire
  BY <1>7
<1> HIDE DEF d
<1> QED
  BY <1>4, <1>6, <1>7, <1>8, <1>9, AttentionMoves

-----------------------------------------------------------------------------
(* Tool calls.                                                             *)

\* The calls that wait in a session are finitely many.
LEMMA ConfirmingFinite ==
  ASSUME NEW s
  PROVE  IsFiniteSet(Confirming(s)) /\ Cardinality(Confirming(s)) \in Nat
<1>1. IsFiniteSet(Confirming(s))
  BY ToolPolicyAssumption, FS_Subset DEF Confirming
<1> QED
  BY <1>1, FS_CardinalityType

\* One call becomes another one of its session; what depends on the other calls is
\* untouched, and only it may begin or end to wait.
LEMMA CallMoves ==
  ASSUME HandlersOK, NEW c \in ToolCall, NEW call \in Call, toolCall' = [toolCall EXCEPT ![c] = call]
  PROVE  /\ toolCall' \in [ToolCall -> Call] /\ toolCall'[c] = call
         /\ \A k \in ToolCall : k # c => toolCall'[k] = toolCall[k]
         /\ \A t \in PiSession :
              Confirming(t)' = IF call.pc = "confirming" /\ call.session = t
                               THEN Confirming(t) \cup {c} ELSE Confirming(t) \ {c}
<1>1. toolCall \in [ToolCall -> Call]
  BY DEF HandlersOK
<1>2. /\ toolCall' \in [ToolCall -> Call] /\ toolCall'[c] = call
      /\ \A k \in ToolCall : k # c => toolCall'[k] = toolCall[k]
  BY <1>1
<1>3. ASSUME NEW t \in PiSession
      PROVE  Confirming(t)' = IF call.pc = "confirming" /\ call.session = t
                              THEN Confirming(t) \cup {c} ELSE Confirming(t) \ {c}
  BY <1>2 DEF Confirming
<1> QED
  BY <1>2, <1>3

\* The calls that are there keep their housing when one changes.
LEMMA CallsStayHoused ==
  ASSUME CallsHoused, PreflightsHeard, DispatchIsConfirmed, NEW c \in ToolCall, NEW call \in Call,
         toolCall'[c] = call, \A k \in ToolCall : k # c => toolCall'[k] = toolCall[k],
         UNCHANGED <<mode, preflight, answered>>,
         call.pc # "idle" => call.session \in PiSession,
         call.pc # "running" => call.carried = NoPrefs,
         call.pc = "preflight" => mode[call.session] # "rpc",
         call.pc = "running" /\ call.carried # "none" =>
            /\ mode[call.session] # "rpc"
            /\ call.carried = "prompted" => call.session \in answered
            /\ mode[call.session] = "tui" => call.session \in answered
  PROVE  CallsHoused' /\ PreflightsHeard' /\ DispatchIsConfirmed'
<1>1. CallsHoused'
  <2> SUFFICES ASSUME NEW k \in ToolCall
               PROVE  /\ toolCall'[k].pc # "idle" => toolCall'[k].session \in PiSession
                      /\ toolCall'[k].pc # "running" => toolCall'[k].carried = NoPrefs
    BY DEF CallsHoused
  <2> QED
    BY DEF CallsHoused
<1>2. PreflightsHeard'
  <2>1. ASSUME NEW k \in ToolCall, toolCall'[k].pc = "preflight"
        PROVE  mode[toolCall'[k].session] # "rpc"
    BY <2>1 DEF PreflightsHeard
  <2> QED
    BY <2>1 DEF PreflightsHeard
<1>3. DispatchIsConfirmed'
  <2> SUFFICES ASSUME NEW k \in ToolCall, toolCall'[k].pc = "running" /\ toolCall'[k].carried # "none"
               PROVE  /\ mode[toolCall'[k].session] # "rpc"
                      /\ toolCall'[k].carried = "prompted" => toolCall'[k].session \in answered
                      /\ mode[toolCall'[k].session] = "tui" => toolCall'[k].session \in answered
    BY DEF DispatchIsConfirmed
  <2> QED
    BY DEF DispatchIsConfirmed
<1> QED
  BY <1>1, <1>2, <1>3

\* What the calls that were tried look like.
LEMMA InputsAreKinds ==
  ASSUME NEW in \in Bash \cup OtherInput \cup SddDispatch \cup FixDispatch \cup WriterDispatch \cup DirectWrite
  PROVE  /\ in.kind \in InputKind
         /\ in.kind \in {"write", "sdd"} => in \in CallInput
         /\ [kind |-> in.kind] \in CallInput
<1>1. CASE in \in Bash
  <2>1. in.kind = "bash"
    BY <1>1 DEF Bash
  <2> QED
    BY <2>1 DEF InputKind, CallInput
<1>2. CASE in \in OtherInput
  <2>1. in.kind \in {"path", "parentMessage"}
    BY <1>2 DEF OtherInput
  <2> QED
    BY <2>1 DEF InputKind, CallInput
<1>3. CASE in \in SddDispatch
  <2>1. in.kind = "sdd"
    BY <1>3 DEF SddDispatch
  <2> QED
    BY <1>3, <2>1 DEF InputKind, CallInput
<1>4. CASE in \in FixDispatch
  <2>1. in.kind = "fix"
    BY <1>4 DEF FixDispatch
  <2> QED
    BY <2>1 DEF InputKind, CallInput
<1>5. CASE in \in WriterDispatch
  <2>1. in.kind = "writer"
    BY <1>5 DEF WriterDispatch
  <2> QED
    BY <2>1 DEF InputKind, CallInput
<1>6. CASE in \in DirectWrite
  <2>1. in.kind = "write"
    BY <1>6 DEF DirectWrite
  <2> QED
    BY <1>6, <2>1 DEF InputKind, CallInput
<1> QED
  BY <1>1, <1>2, <1>3, <1>4, <1>5, <1>6

\* Only a command is one.
LEMMA OnlyBashIsBash ==
  ASSUME NEW in \in Bash \cup OtherInput \cup SddDispatch \cup FixDispatch \cup WriterDispatch \cup DirectWrite,
         in.kind = "bash"
  PROVE  in \in Bash
<1>1. in \notin OtherInput /\ in \notin SddDispatch /\ in \notin WriterDispatch /\ in \notin DirectWrite
  BY DEF OtherInput, SddDispatch, WriterDispatch, DirectWrite
<1>2. in \notin FixDispatch
  BY DEF FixDispatch
<1> QED
  BY <1>1, <1>2

\* What is kept of the parts of a call that arrives.
ArrivalParts(in) == IF in.kind = "bash" THEN PartActions(in.cmd, LoadGuardrails(guardrails)) ELSE {}

\* How the handler classifies a call that arrives.
ArrivalVerdict(s, in) ==
    LET judged == IF in.kind = "bash" THEN EvaluateGuarded(in.cmd, LoadGuardrails(guardrails)) ELSE "not-guarded"
    IN  CASE TurnedAway(s, in) -> "refused"
          [] ~TurnedAway(s, in) /\ in.kind = "sdd" ->
               IF in.single /\ mode[s] # "rpc" THEN "preflight" ELSE "refused"
          [] ~TurnedAway(s, in) /\ in.kind \in {"fix", "writer"} ->
               IF RejectsFix(in) \/ RejectsWriter(in) THEN "refused" ELSE "running"
          [] ~TurnedAway(s, in) /\ in.kind = "bash" ->
               CASE judged = "block" -> "refused"
                 [] judged = "confirm" -> IF mode[s] = "headless" THEN "refused" ELSE "confirming"
                 [] OTHER -> "running"
          [] OTHER -> "running"

\* Only a dispatch into a session that may ask begins to wait for a preflight.
LEMMA VerdictsAreStates ==
  ASSUME NEW s, NEW in
  PROVE  /\ ArrivalVerdict(s, in) \in {"preflight", "confirming", "running", "refused"}
         /\ ArrivalVerdict(s, in) = "preflight" => mode[s] # "rpc"
<1> DEFINE judged == IF in.kind = "bash" THEN EvaluateGuarded(in.cmd, LoadGuardrails(guardrails)) ELSE "not-guarded"
           dispatch == IF in.single /\ mode[s] # "rpc" THEN "preflight" ELSE "refused"
           carried == IF RejectsFix(in) \/ RejectsWriter(in) THEN "refused" ELSE "running"
           command == CASE judged = "block" -> "refused"
                        [] judged = "confirm" -> IF mode[s] = "headless" THEN "refused" ELSE "confirming"
                        [] OTHER -> "running"
           away == TurnedAway(s, in)
<1>1. ArrivalVerdict(s, in) = CASE away -> "refused"
                                [] ~away /\ in.kind = "sdd" -> dispatch
                                [] ~away /\ in.kind \in {"fix", "writer"} -> carried
                                [] ~away /\ in.kind = "bash" -> command
                                [] OTHER -> "running"
  BY DEF ArrivalVerdict
<1>2. dispatch \in {"preflight", "refused"} /\ (dispatch = "preflight" => mode[s] # "rpc")
  OBVIOUS
<1>3. carried \in {"refused", "running"}
  OBVIOUS
<1>4. command \in {"refused", "confirming", "running"}
  <2> HIDE DEF judged
  <2> QED
    OBVIOUS
<1> HIDE DEF judged, dispatch, carried, command, away
<1> QED
  BY <1>1, <1>2, <1>3, <1>4

\* A call arrives; one to be confirmed is counted in its session.
LEMMA ArriveKeeps ==
  ASSUME HandlersInv, NEW c \in ToolCall, NEW s \in PiSession,
         NEW in \in Bash \cup OtherInput \cup SddDispatch \cup FixDispatch \cup WriterDispatch \cup DirectWrite,
         ToolCallArrives(c, s, in)
  PROVE  HandlersInv'
<1> DEFINE state == ArrivalVerdict(s, in)
           input == IF in.kind \in {"write", "sdd"} THEN in ELSE [kind |-> in.kind]
           parts == ArrivalParts(in)
           call == [NoCall EXCEPT !.pc = state, !.session = s, !.input = input, !.parts = parts]
<1>1. /\ toolCall[c].pc = "idle" /\ toolCall' = [toolCall EXCEPT ![c] = call]
      /\ attention' = IF state = "confirming"
                      THEN [attention EXCEPT ![s] = Awaiting(@, attention[s].pending + 1)] ELSE attention
      /\ UNCHANGED <<mode, turn, guardrails, preflight, saved, answered, dialogs, rdd>>
  BY DEF ToolCallArrives, ArrivalVerdict, ArrivalParts
<1>2. state \in {"preflight", "confirming", "running", "refused"} /\ (state = "preflight" => mode[s] # "rpc")
  BY VerdictsAreStates
<1>3. input \in CallInput /\ parts \in SUBSET GuardAction
  <2>1. guardrails \in Guardrails
    BY DEF HandlersInv, HandlersOK
  <2>2. in.kind = "bash" => PartActions(in.cmd, LoadGuardrails(guardrails)) \subseteq GuardAction
    BY <2>1, OnlyBashIsBash, PartsAreActions
  <2> QED
    BY <2>2, InputsAreKinds DEF ArrivalParts
<1> HIDE DEF state, input, parts
<1>4. /\ call \in Call /\ call.pc = state /\ call.session = s /\ call.carried = "none"
  BY <1>2, <1>3 DEF NoCall, Call, CallState, NoPrefs
<1> HIDE DEF call
<1>5. HandlersOK /\ AttentionFollows /\ CallsHoused /\ PreflightsHeard /\ DispatchIsConfirmed
  BY DEF HandlersInv
<1>6. /\ toolCall' \in [ToolCall -> Call] /\ toolCall'[c] = call
      /\ \A k \in ToolCall : k # c => toolCall'[k] = toolCall[k]
      /\ \A t \in PiSession : Confirming(t)' = IF call.pc = "confirming" /\ call.session = t
                                               THEN Confirming(t) \cup {c} ELSE Confirming(t) \ {c}
  BY <1>1, <1>4, <1>5, CallMoves
<1>7. \A t \in PiSession : c \notin Confirming(t)
  BY <1>1 DEF Confirming
<1>8. AttentionFollows' /\ attention' \in [PiSession -> Attention]
  <2>1. CASE state = "confirming"
    <3> DEFINE n == attention[s].pending + 1
    <3>1. attention \in [PiSession -> Attention]
      BY <1>5 DEF HandlersOK
    <3>2. attention[s] \in Attention /\ attention[s].pending = Cardinality(Confirming(s)) /\ n \in Nat
      BY <1>5, <3>1 DEF AttentionFollows, Attention
    <3>3. attention' = [attention EXCEPT ![s] = Awaiting(@, n)]
      BY <1>1, <2>1
    <3>4. Confirming(s)' = Confirming(s) \cup {c} /\ \A t \in PiSession : t # s => Confirming(t)' = Confirming(t)
      <4>1. call.pc = "confirming" /\ call.session = s
        BY <1>4, <2>1
      <4>2. Confirming(s)' = Confirming(s) \cup {c}
        BY <1>6, <4>1
      <4>3. ASSUME NEW t \in PiSession, t # s
            PROVE  Confirming(t)' = Confirming(t)
        <5>1. Confirming(t)' = Confirming(t) \ {c}
          BY <1>6, <4>1, <4>3
        <5> QED
          BY <1>7, <5>1
      <4> QED
        BY <4>2, <4>3
    <3>5. Cardinality(Confirming(s)') = Cardinality(Confirming(s)) + 1
      BY <1>7, <3>4, ConfirmingFinite, FS_AddElement
    <3>6. n = Cardinality(Confirming(s)')
      BY <3>2, <3>5
    <3> HIDE DEF n
    <3> QED
      BY <1>1, <1>5, <3>2, <3>3, <3>4, <3>6, PendingMoves
  <2>2. CASE state # "confirming"
    <3>1. UNCHANGED <<attention, dialogs>> /\ \A t \in PiSession : Confirming(t)' = Confirming(t)
      BY <1>1, <1>4, <1>6, <1>7, <2>2
    <3> QED
      BY <1>5, <3>1, AttentionUntouched DEF HandlersOK
  <2> QED
    BY <2>1, <2>2
<1>9. HandlersOK'
  BY <1>1, <1>6, <1>8 DEF HandlersInv, HandlersOK
<1>10. CallsHoused' /\ PreflightsHeard' /\ DispatchIsConfirmed'
  BY <1>1, <1>2, <1>4, <1>5, <1>6, CallsStayHoused DEF NoPrefs
<1>11. MemoIsDated' /\ LineIsRecent' /\ VerifierKept'
  BY <1>1, ReadsUntouched DEF HandlersInv
<1> QED
  BY <1>8, <1>9, <1>10, <1>11 DEF HandlersInv

\* The confirmation settles: one less waits in the session of the call.
LEMMA SettleKeeps ==
  ASSUME HandlersInv, NEW c \in ToolCall, NEW answer \in {"yes", "no", "throws"}, ConfirmSettles(c, answer)
  PROVE  HandlersInv'
<1> DEFINE was == toolCall[c]
           state == IF answer = "yes" THEN "running" ELSE "refused"
           call == [was EXCEPT !.pc = state, !.said = answer]
<1>1. HandlersOK /\ AttentionFollows /\ CallsHoused /\ PreflightsHeard /\ DispatchIsConfirmed
  BY DEF HandlersInv
<1>2. toolCall \in [ToolCall -> Call] /\ was \in Call /\ state \in {"running", "refused"} /\ state \in CallState
  BY <1>1 DEF HandlersOK, CallState
<1>3. /\ was.pc = "confirming" /\ toolCall' = [toolCall EXCEPT ![c] = call]
      /\ attention' = [attention EXCEPT ![was.session] = Awaiting(@, IF attention[was.session].pending = 0 THEN 0
                                                                          ELSE attention[was.session].pending - 1)]
      /\ UNCHANGED <<mode, turn, guardrails, preflight, saved, answered, dialogs, rdd>>
  BY <1>2 DEF ConfirmSettles
<1>4. was.session \in PiSession /\ was.carried = NoPrefs
  BY <1>1, <1>3 DEF CallsHoused
<1>4a. PICK s \in PiSession : s = was.session
  BY <1>4
<1>5. call \in Call /\ call.pc = state /\ call.session = s /\ call.carried = NoPrefs
  <2>1. was \in Call /\ state \in CallState
    BY <1>2
  <2>2. call = [was EXCEPT !.pc = state, !.said = answer]
    OBVIOUS
  <2> HIDE DEF was, state, call
  <2>3. call \in Call /\ call.pc = state /\ call.session = was.session /\ call.carried = was.carried
    BY <2>1, <2>2 DEF Call
  <2> QED
    BY <2>3, <1>4, <1>4a
<1>6. c \in Confirming(s) /\ \A t \in PiSession : t # s => c \notin Confirming(t)
  BY <1>3, <1>4a DEF Confirming
<1> HIDE DEF state, call, was
<1>7. /\ toolCall' \in [ToolCall -> Call] /\ toolCall'[c] = call
      /\ \A k \in ToolCall : k # c => toolCall'[k] = toolCall[k]
      /\ \A t \in PiSession : Confirming(t)' = IF call.pc = "confirming" /\ call.session = t
                                               THEN Confirming(t) \cup {c} ELSE Confirming(t) \ {c}
  BY <1>1, <1>3, <1>5, CallMoves
<1>8. Confirming(s)' = Confirming(s) \ {c} /\ \A t \in PiSession : t # s => Confirming(t)' = Confirming(t)
  <2>1. call.pc # "confirming"
    BY <1>2, <1>5
  <2>2. \A t \in PiSession : Confirming(t)' = Confirming(t) \ {c}
    BY <1>7, <2>1
  <2> QED
    BY <1>6, <2>2
<1>9. AttentionFollows' /\ attention' \in [PiSession -> Attention]
  <2> DEFINE n == IF attention[s].pending = 0 THEN 0 ELSE attention[s].pending - 1
  <2>1. attention \in [PiSession -> Attention]
    BY <1>1 DEF HandlersOK
  <2>2. attention[s].pending = Cardinality(Confirming(s)) /\ attention[s].pending \in Nat
    BY <1>1, <2>1 DEF AttentionFollows, Attention
  <2>3. attention' = [attention EXCEPT ![s] = Awaiting(@, n)]
    BY <1>3, <1>4a, <2>1
  <2>4. Cardinality(Confirming(s)') = Cardinality(Confirming(s)) - 1 /\ Cardinality(Confirming(s)') \in Nat
    <3>1. IsFiniteSet(Confirming(s)) /\ IsFiniteSet(Confirming(s) \ {c})
      BY ConfirmingFinite, FS_RemoveElement
    <3> QED
      BY <1>6, <1>8, <3>1, FS_RemoveElement, FS_CardinalityType
  <2>5. n = Cardinality(Confirming(s)') /\ n \in Nat
    BY <2>2, <2>4
  <2> HIDE DEF n
  <2> QED
    BY <1>1, <1>3, <1>8, <2>3, <2>5, PendingMoves
<1>10. HandlersOK'
  BY <1>1, <1>3, <1>7, <1>9 DEF HandlersOK
<1>11. CallsHoused' /\ PreflightsHeard' /\ DispatchIsConfirmed'
  BY <1>1, <1>2, <1>3, <1>4, <1>5, <1>7, CallsStayHoused DEF NoPrefs
<1>12. MemoIsDated' /\ LineIsRecent' /\ VerifierKept'
  BY <1>3, ReadsUntouched DEF HandlersInv
<1> QED
  BY <1>9, <1>10, <1>11, <1>12 DEF HandlersInv

\* Nobody waits less or more when a call that did not wait becomes another that does not.
LEMMA QuietCallMoves ==
  ASSUME HandlersInv, NEW c \in ToolCall, NEW call \in Call, toolCall' = [toolCall EXCEPT ![c] = call],
         toolCall[c].pc # "confirming", call.pc # "confirming",
         UNCHANGED <<mode, guardrails, preflight, saved, answered, attention, dialogs, rdd>>,
         call.pc # "idle" => call.session \in PiSession,
         call.pc # "running" => call.carried = NoPrefs,
         call.pc = "preflight" => mode[call.session] # "rpc",
         call.pc = "running" /\ call.carried # "none" =>
            /\ mode[call.session] # "rpc"
            /\ call.carried = "prompted" => call.session \in answered
            /\ mode[call.session] = "tui" => call.session \in answered
  PROVE  HandlersInv'
<1>1. HandlersOK /\ AttentionFollows /\ CallsHoused /\ PreflightsHeard /\ DispatchIsConfirmed
  BY DEF HandlersInv
<1>2. /\ toolCall' \in [ToolCall -> Call] /\ toolCall'[c] = call
      /\ \A k \in ToolCall : k # c => toolCall'[k] = toolCall[k]
      /\ \A t \in PiSession : Confirming(t)' = IF call.pc = "confirming" /\ call.session = t
                                               THEN Confirming(t) \cup {c} ELSE Confirming(t) \ {c}
  BY <1>1, CallMoves
<1>3. \A t \in PiSession : Confirming(t)' = Confirming(t)
  <2>1. \A t \in PiSession : c \notin Confirming(t)
    BY DEF Confirming
  <2> QED
    BY <1>2, <2>1
<1>4. AttentionFollows'
  BY <1>1, <1>3, AttentionUntouched
<1>5. HandlersOK'
  BY <1>1, <1>2 DEF HandlersOK
<1>6. CallsHoused' /\ PreflightsHeard' /\ DispatchIsConfirmed'
  BY <1>1, <1>2, CallsStayHoused
<1>7. MemoIsDated' /\ LineIsRecent' /\ VerifierKept'
  BY ReadsUntouched DEF HandlersInv
<1> QED
  BY <1>4, <1>5, <1>6, <1>7 DEF HandlersInv

\* The tool has run or was refused, and the call is forgotten.
LEMMA ReturnKeeps ==
  ASSUME HandlersInv, NEW c \in ToolCall, NEW ok, ToolReturns(c, ok)
  PROVE  HandlersInv'
<1>1. /\ toolCall[c].pc \in {"running", "refused"} /\ toolCall' = [toolCall EXCEPT ![c] = NoCall]
      /\ UNCHANGED <<mode, guardrails, preflight, saved, answered, attention, dialogs, rdd>>
  BY DEF ToolReturns
<1>2. NoCall \in Call /\ NoCall.pc = "idle" /\ NoCall.carried = NoPrefs
  <2>1. [kind |-> "none"] \in CallInput
    BY DEF CallInput, InputKind
  <2> QED
    BY <2>1 DEF NoCall, Call, CallState, NoPrefs
<1> QED
  BY <1>1, <1>2, QuietCallMoves

\* The dispatch carries the preferences of its session.
LEMMA DispatchKeeps ==
  ASSUME HandlersInv, NEW c \in ToolCall, DispatchSdd(c)
  PROVE  HandlersInv'
<1> DEFINE was == toolCall[c]
           s == was.session
           prefs == preflight[s].prefs
           ok == ~(prefs = "defaults" /\ mode[s] = "tui") /\ was.input.context = "plain"
           state == IF ok THEN "running" ELSE "refused"
           carried == IF ok THEN prefs ELSE "none"
           call == [was EXCEPT !.pc = state, !.carried = carried]
<1>1. HandlersOK /\ CallsHoused /\ PreflightsHeard
  BY DEF HandlersInv
<1>2. toolCall \in [ToolCall -> Call] /\ was \in Call
  BY <1>1 DEF HandlersOK
<1>3. /\ was.pc = "preflight" /\ prefs # NoPrefs /\ toolCall' = [toolCall EXCEPT ![c] = call]
      /\ UNCHANGED <<mode, guardrails, preflight, saved, answered, attention, dialogs, rdd>>
  BY <1>2 DEF DispatchSdd
<1>4. s \in PiSession /\ mode[s] # "rpc"
  BY <1>1, <1>3 DEF CallsHoused, PreflightsHeard
<1>5. prefs \in {"prompted", "defaults"} /\ (prefs = "prompted" => s \in answered)
  BY <1>1, <1>3, <1>4 DEF HandlersOK, Preflight, PreflightsHeard, NoPrefs
<1>6. /\ state \in {"running", "refused"} /\ carried \in {"none", "prompted", "defaults"}
      /\ state # "running" => carried = "none"
      /\ carried = "prompted" => s \in answered
      /\ carried = "defaults" => mode[s] # "tui"
  BY <1>5
<1> HIDE DEF was, state, carried, prefs
<1>7. call \in Call /\ call.pc = state /\ call.session = s /\ call.carried = carried
  BY <1>2, <1>6 DEF Call, CallState, NoPrefs
<1> HIDE DEF call
<1>8. toolCall[c].pc # "confirming"
  BY <1>3 DEF was
<1>9. HandlersInv /\ call \in Call
  BY <1>7
<1>10. /\ call.pc # "confirming" /\ call.pc # "preflight" /\ call.session \in PiSession
       /\ call.pc # "running" => call.carried = NoPrefs
       /\ mode[call.session] # "rpc"
       /\ call.carried = "prompted" => call.session \in answered
       /\ call.carried # "none" /\ mode[call.session] = "tui" => call.session \in answered
  BY <1>4, <1>6, <1>7 DEF NoPrefs
<1> QED
  BY <1>3, <1>8, <1>9, <1>10, QuietCallMoves

-----------------------------------------------------------------------------
(* The preflight.                                                          *)

\* The preflight of one session moves on; only calls that wait for it may be refused.
LEMMA PreflightMoves ==
  ASSUME HandlersInv, NEW s \in PiSession, NEW p \in Preflight, preflight' = [preflight EXCEPT ![s] = p],
         toolCall' \in [ToolCall -> Call],
         \A c \in ToolCall : \/ toolCall'[c] = toolCall[c]
                             \/ /\ toolCall[c].pc = "preflight" /\ toolCall'[c].pc = "refused"
                                /\ toolCall'[c].session = toolCall[c].session
                                /\ toolCall'[c].carried = toolCall[c].carried,
         answered' \in {answered, answered \cup {s}}, saved' \in {NoPrefs, "prompted", "defaults"},
         UNCHANGED <<mode, guardrails, attention, dialogs, rdd>>,
         p.flight = "asking" => mode[s] = "tui",
         p.flight = "resolved" /\ mode[s] = "tui" => s \in answered',
         p.prefs = "prompted" => s \in answered'
  PROVE  HandlersInv'
<1>1. HandlersOK /\ AttentionFollows /\ CallsHoused /\ PreflightsHeard /\ DispatchIsConfirmed
  BY DEF HandlersInv
<1>2. preflight \in [PiSession -> Preflight] /\ answered \subseteq PiSession
  BY <1>1 DEF HandlersOK
<1>3. /\ preflight' \in [PiSession -> Preflight] /\ preflight'[s] = p
      /\ \A t \in PiSession : t # s => preflight'[t] = preflight[t]
  BY <1>2
<1>4. answered' \subseteq PiSession /\ answered \subseteq answered'
  BY <1>2
<1>5. HandlersOK'
  BY <1>1, <1>3, <1>4 DEF HandlersOK
<1>6. AttentionFollows'
  <2>1. \A t \in PiSession : Confirming(t)' = Confirming(t)
    <3> SUFFICES ASSUME NEW t \in PiSession, NEW c \in ToolCall
                 PROVE  /\ toolCall'[c].pc = "confirming" /\ toolCall'[c].session = t
                           <=> toolCall[c].pc = "confirming" /\ toolCall[c].session = t
      BY DEF Confirming
    <3>1. CASE toolCall'[c] = toolCall[c]
      BY <3>1
    <3>2. CASE toolCall[c].pc = "preflight" /\ toolCall'[c].pc = "refused"
      BY <3>2
    <3> QED
      BY <3>1, <3>2
  <2> QED
    BY <1>1, <2>1, AttentionUntouched
<1>7. CallsHoused'
  <2> SUFFICES ASSUME NEW c \in ToolCall
               PROVE  /\ toolCall'[c].pc # "idle" => toolCall'[c].session \in PiSession
                      /\ toolCall'[c].pc # "running" => toolCall'[c].carried = NoPrefs
    BY DEF CallsHoused
  <2>1. CASE toolCall'[c] = toolCall[c]
    BY <1>1, <2>1 DEF CallsHoused
  <2>2. CASE /\ toolCall[c].pc = "preflight" /\ toolCall'[c].session = toolCall[c].session
             /\ toolCall'[c].carried = toolCall[c].carried
    BY <1>1, <2>2 DEF CallsHoused
  <2> QED
    BY <2>1, <2>2
<1>8. PreflightsHeard'
  <2>1. ASSUME NEW t \in PiSession
        PROVE  /\ preflight'[t].flight = "asking" => mode[t] = "tui"
               /\ preflight'[t].flight = "resolved" /\ mode[t] = "tui" => t \in answered'
               /\ preflight'[t].prefs = "prompted" => t \in answered'
    <3>1. CASE t = s
      BY <1>3, <3>1
    <3>2. CASE t # s
      BY <1>1, <1>3, <1>4, <3>2 DEF PreflightsHeard
    <3> QED
      BY <3>1, <3>2
  <2>2. ASSUME NEW c \in ToolCall, toolCall'[c].pc = "preflight"
        PROVE  mode[toolCall'[c].session] # "rpc"
    <3>1. toolCall'[c] = toolCall[c]
      BY <2>2
    <3> QED
      BY <1>1, <2>2, <3>1 DEF PreflightsHeard
  <2> QED
    BY <2>1, <2>2 DEF PreflightsHeard
<1>9. DispatchIsConfirmed'
  <2> SUFFICES ASSUME NEW c \in ToolCall, toolCall'[c].pc = "running" /\ toolCall'[c].carried # "none"
               PROVE  /\ mode[toolCall'[c].session] # "rpc"
                      /\ toolCall'[c].carried = "prompted" => toolCall'[c].session \in answered'
                      /\ mode[toolCall'[c].session] = "tui" => toolCall'[c].session \in answered'
    BY DEF DispatchIsConfirmed
  <2>1. toolCall'[c] = toolCall[c]
    OBVIOUS
  <2> QED
    BY <1>1, <1>4, <2>1 DEF DispatchIsConfirmed
<1>10. MemoIsDated' /\ LineIsRecent' /\ VerifierKept'
  BY ReadsUntouched DEF HandlersInv
<1> QED
  BY <1>5, <1>6, <1>7, <1>8, <1>9, <1>10 DEF HandlersInv

\* Only an interactive session asks.
LEMMA BeginPreflightKeeps ==
  ASSUME HandlersInv, NEW c \in ToolCall, BeginPreflight(c)
  PROVE  HandlersInv'
<1>1. HandlersOK /\ CallsHoused
  BY DEF HandlersInv
<1>2. PICK s \in PiSession : s = toolCall[c].session
  BY <1>1 DEF CallsHoused, BeginPreflight
<1> DEFINE flight == IF mode[s] = "tui" THEN "asking" ELSE "resolved"
           p == [preflight[s] EXCEPT !.flight = flight]
<1>3. preflight \in [PiSession -> Preflight] /\ preflight[s] \in Preflight /\ toolCall \in [ToolCall -> Call]
      /\ saved \in {NoPrefs, "prompted", "defaults"}
  BY <1>1 DEF HandlersOK
<1>4. /\ preflight' = [preflight EXCEPT ![s] = p]
      /\ UNCHANGED <<mode, guardrails, saved, answered, toolCall, attention, dialogs, rdd>>
  BY <1>2, <1>3 DEF BeginPreflight
<1>5. preflight[s].prefs = NoPrefs
  BY <1>2 DEF BeginPreflight
<1>6. p \in Preflight /\ p.flight = flight /\ p.prefs = NoPrefs
  BY <1>3, <1>5 DEF Preflight
<1> HIDE DEF p
<1>7. p.prefs # "prompted" /\ (p.flight = "asking" => mode[s] = "tui") /\ ~(p.flight = "resolved" /\ mode[s] = "tui")
  BY <1>6 DEF NoPrefs
<1> QED
  BY <1>3, <1>4, <1>6, <1>7, PreflightMoves

\* The calls that wait for a preflight that came to nothing are refused.
LEMMA WaitersRefused ==
  ASSUME toolCall \in [ToolCall -> Call], NEW s, NEW P \in BOOLEAN,
         toolCall' = [c \in ToolCall |-> IF P /\ toolCall[c].session = s /\ toolCall[c].pc = "preflight"
                                         THEN [toolCall[c] EXCEPT !.pc = "refused"] ELSE toolCall[c]]
  PROVE  /\ toolCall' \in [ToolCall -> Call]
         /\ \A c \in ToolCall : \/ toolCall'[c] = toolCall[c]
                                \/ /\ toolCall[c].pc = "preflight" /\ toolCall'[c].pc = "refused"
                                   /\ toolCall'[c].session = toolCall[c].session
                                   /\ toolCall'[c].carried = toolCall[c].carried
<1>1. ASSUME NEW c \in ToolCall
      PROVE  /\ toolCall'[c] \in Call
             /\ \/ toolCall'[c] = toolCall[c]
                \/ /\ toolCall[c].pc = "preflight" /\ toolCall'[c].pc = "refused"
                   /\ toolCall'[c].session = toolCall[c].session
                   /\ toolCall'[c].carried = toolCall[c].carried
  <2> DEFINE call == [toolCall[c] EXCEPT !.pc = "refused"]
  <2>1. toolCall[c] \in Call
    OBVIOUS
  <2>2. call \in Call /\ call.pc = "refused" /\ call.session = toolCall[c].session /\ call.carried = toolCall[c].carried
    BY <2>1 DEF Call, CallState
  <2>3. toolCall'[c] = IF P /\ toolCall[c].session = s /\ toolCall[c].pc = "preflight" THEN call ELSE toolCall[c]
    OBVIOUS
  <2> HIDE DEF call
  <2>4. CASE P /\ toolCall[c].session = s /\ toolCall[c].pc = "preflight"
    BY <2>2, <2>3, <2>4
  <2>5. CASE ~(P /\ toolCall[c].session = s /\ toolCall[c].pc = "preflight")
    BY <2>1, <2>3, <2>5
  <2> QED
    BY <2>4, <2>5
<1>2. toolCall' \in [ToolCall -> Call]
  BY <1>1
<1> QED
  BY <1>1, <1>2

\* The user confirmed or cancelled.
LEMMA AnsweredKeeps ==
  ASSUME HandlersInv, NEW s \in PiSession, NEW yes \in BOOLEAN, PreflightAnswered(s, yes)
  PROVE  HandlersInv'
<1>1. HandlersOK /\ PreflightsHeard
  BY DEF HandlersInv
<1> DEFINE flight == IF yes THEN "resolved" ELSE "idle"
           p == [preflight[s] EXCEPT !.flight = flight]
<1>0. PICK P \in BOOLEAN : P = ~yes
  OBVIOUS
<1>2. preflight \in [PiSession -> Preflight] /\ preflight[s] \in Preflight /\ toolCall \in [ToolCall -> Call]
      /\ saved \in {NoPrefs, "prompted", "defaults"}
  BY <1>1 DEF HandlersOK
<1>3. /\ preflight' = [preflight EXCEPT ![s] = p]
      /\ answered' = IF yes THEN answered \cup {s} ELSE answered
      /\ toolCall' = [c \in ToolCall |-> IF P /\ toolCall[c].session = s /\ toolCall[c].pc = "preflight"
                                         THEN [toolCall[c] EXCEPT !.pc = "refused"] ELSE toolCall[c]]
      /\ UNCHANGED <<mode, guardrails, saved, attention, dialogs, rdd>>
  BY <1>0, <1>2 DEF PreflightAnswered
<1>4. p \in Preflight /\ p.flight = flight /\ p.prefs = preflight[s].prefs
  BY <1>2 DEF Preflight
<1>5. preflight[s].prefs = "prompted" => s \in answered
  BY <1>1 DEF PreflightsHeard
<1> HIDE DEF p
<1>7. /\ toolCall' \in [ToolCall -> Call]
      /\ \A c \in ToolCall : \/ toolCall'[c] = toolCall[c]
                             \/ /\ toolCall[c].pc = "preflight" /\ toolCall'[c].pc = "refused"
                                /\ toolCall'[c].session = toolCall[c].session
                                /\ toolCall'[c].carried = toolCall[c].carried
  BY <1>2, <1>3, WaitersRefused, Zenon
<1>8. /\ p.flight = "asking" => mode[s] = "tui"
      /\ p.flight = "resolved" /\ mode[s] = "tui" => s \in answered'
      /\ p.prefs = "prompted" => s \in answered'
      /\ answered' \in {answered, answered \cup {s}}
  BY <1>3, <1>4, <1>5
<1>9. saved' \in {NoPrefs, "prompted", "defaults"}
  BY <1>2, <1>3
<1> QED
  BY <1>3, <1>4, <1>7, <1>8, <1>9, PreflightMoves

\* The preferences are kept as prompted only where the user was asked.
LEMMA ResolvesKeeps ==
  ASSUME HandlersInv, NEW s \in PiSession, NEW failed \in BOOLEAN, PreflightResolves(s, failed)
  PROVE  HandlersInv'
<1>1. HandlersOK /\ PreflightsHeard
  BY DEF HandlersInv
<1> DEFINE prefs == IF failed THEN preflight[s].prefs ELSE IF PromptedOf(s) THEN "prompted" ELSE "defaults"
           p == [preflight[s] EXCEPT !.flight = "idle", !.prefs = prefs]
<1>2. preflight \in [PiSession -> Preflight] /\ preflight[s] \in Preflight /\ toolCall \in [ToolCall -> Call]
      /\ saved \in {NoPrefs, "prompted", "defaults"}
  BY <1>1 DEF HandlersOK
<1>3. /\ preflight[s].flight = "resolved"
      /\ saved' = IF failed THEN saved ELSE IF PromptedOf(s) THEN "prompted" ELSE "defaults"
      /\ toolCall' = [c \in ToolCall |-> IF failed /\ toolCall[c].session = s /\ toolCall[c].pc = "preflight"
                                         THEN [toolCall[c] EXCEPT !.pc = "refused"] ELSE toolCall[c]]
      /\ UNCHANGED <<mode, guardrails, answered, attention, dialogs, rdd>>
  BY DEF PreflightResolves
<1>4. preflight' = [preflight EXCEPT ![s] = p]
  BY <1>2 DEF PreflightResolves
<1>5. prefs \in {NoPrefs, "prompted", "defaults"}
  BY <1>2 DEF Preflight
<1>6. prefs = "prompted" => s \in answered
  BY <1>1, <1>3 DEF PreflightsHeard, PromptedOf
<1> HIDE DEF prefs
<1>7. p \in Preflight /\ p.flight = "idle" /\ p.prefs = prefs
  BY <1>2, <1>5 DEF Preflight
<1> HIDE DEF p
<1>8. /\ toolCall' \in [ToolCall -> Call]
      /\ \A c \in ToolCall : \/ toolCall'[c] = toolCall[c]
                             \/ /\ toolCall[c].pc = "preflight" /\ toolCall'[c].pc = "refused"
                                /\ toolCall'[c].session = toolCall[c].session
                                /\ toolCall'[c].carried = toolCall[c].carried
  BY <1>2, <1>3, WaitersRefused
<1>9. /\ p.flight # "asking" /\ p.flight # "resolved" /\ (p.prefs = "prompted" => s \in answered')
      /\ answered' \in {answered, answered \cup {s}}
  BY <1>3, <1>6, <1>7
<1>10. saved' \in {NoPrefs, "prompted", "defaults"}
  BY <1>2, <1>3
<1> QED
  BY <1>3, <1>4, <1>7, <1>8, <1>9, <1>10, PreflightMoves

\* Another process in the place of a session that has no call left knows of no answer.
LEMMA ReplaceKeeps ==
  ASSUME HandlersInv, NEW s \in PiSession, NEW m \in SessionMode, ReplaceSession(s, m)
  PROVE  HandlersInv'
<1>1. HandlersOK /\ AttentionFollows /\ CallsHoused /\ PreflightsHeard /\ DispatchIsConfirmed
  BY DEF HandlersInv
<1> DEFINE p == [preflight[s] EXCEPT !.prefs = NoPrefs]
<1>2. /\ mode \in [PiSession -> SessionMode] /\ preflight \in [PiSession -> Preflight] /\ preflight[s] \in Preflight
      /\ answered \subseteq PiSession
  BY <1>1 DEF HandlersOK
<1>3. /\ \A c \in ToolCall : toolCall[c].session # s
      /\ preflight[s].flight = "idle" /\ mode' = [mode EXCEPT ![s] = m]
      /\ answered' = answered \ {s} /\ preflight' = [preflight EXCEPT ![s] = p]
      /\ UNCHANGED <<guardrails, saved, toolCall, attention, dialogs, rdd>>
  BY <1>2 DEF ReplaceSession
<1>4. p \in Preflight /\ p.flight = "idle" /\ p.prefs = NoPrefs
  BY <1>2, <1>3 DEF Preflight, NoPrefs
<1> HIDE DEF p
<1>5. /\ mode' \in [PiSession -> SessionMode] /\ preflight' \in [PiSession -> Preflight] /\ preflight'[s] = p
      /\ \A t \in PiSession : t # s => preflight'[t] = preflight[t] /\ mode'[t] = mode[t]
  BY <1>2, <1>3, <1>4
<1>6. HandlersOK'
  BY <1>1, <1>2, <1>3, <1>5 DEF HandlersOK
<1>7. AttentionFollows'
  BY <1>1, <1>3, CallsUntouched, AttentionUntouched
<1>8. CallsHoused'
  BY <1>1, <1>3 DEF CallsHoused
<1>9. PreflightsHeard'
  <2>1. ASSUME NEW t \in PiSession
        PROVE  /\ preflight'[t].flight = "asking" => mode'[t] = "tui"
               /\ preflight'[t].flight = "resolved" /\ mode'[t] = "tui" => t \in answered'
               /\ preflight'[t].prefs = "prompted" => t \in answered'
    <3>1. CASE t = s
      BY <1>4, <1>5, <3>1 DEF NoPrefs
    <3>2. CASE t # s
      BY <1>1, <1>3, <1>5, <3>2 DEF PreflightsHeard
    <3> QED
      BY <3>1, <3>2
  <2>2. ASSUME NEW c \in ToolCall, toolCall'[c].pc = "preflight"
        PROVE  mode'[toolCall'[c].session] # "rpc"
    <3>1. toolCall[c].pc = "preflight" /\ toolCall'[c] = toolCall[c]
      BY <1>3, <2>2
    <3>2. toolCall[c].session \in PiSession /\ toolCall[c].session # s /\ mode[toolCall[c].session] # "rpc"
      BY <1>1, <1>3, <3>1 DEF CallsHoused, PreflightsHeard
    <3> QED
      BY <1>5, <3>1, <3>2
  <2> QED
    BY <2>1, <2>2 DEF PreflightsHeard
<1>10. DispatchIsConfirmed'
  <2> SUFFICES ASSUME NEW c \in ToolCall, toolCall'[c].pc = "running" /\ toolCall'[c].carried # "none"
               PROVE  /\ mode'[toolCall'[c].session] # "rpc"
                      /\ toolCall'[c].carried = "prompted" => toolCall'[c].session \in answered'
                      /\ mode'[toolCall'[c].session] = "tui" => toolCall'[c].session \in answered'
    BY DEF DispatchIsConfirmed
  <2>1. toolCall[c].pc = "running" /\ toolCall[c].carried # "none" /\ toolCall'[c] = toolCall[c]
    BY <1>3
  <2>2. toolCall[c].session \in PiSession /\ toolCall[c].session # s
    BY <1>1, <1>3, <2>1 DEF CallsHoused
  <2> QED
    BY <1>1, <1>3, <1>5, <2>1, <2>2 DEF DispatchIsConfirmed
<1>11. MemoIsDated' /\ LineIsRecent' /\ VerifierKept'
  BY <1>3, ReadsUntouched DEF HandlersInv
<1> QED
  BY <1>6, <1>7, <1>8, <1>9, <1>10, <1>11 DEF HandlersInv

-----------------------------------------------------------------------------
\* The start and the end of an agent's turn, and an edit of the guardrails, move nothing
\* the invariant is about.
LEMMA TurnsKeep ==
  ASSUME HandlersInv, guardrails' \in Guardrails,
         UNCHANGED <<mode, preflight, saved, answered, toolCall, attention, dialogs, rdd>>
  PROVE  HandlersInv'
<1>1. HandlersOK'
  BY DEF HandlersInv, HandlersOK
<1>2. AttentionFollows'
  BY CallsUntouched, AttentionUntouched DEF HandlersInv
<1>3. CallsHoused' /\ PreflightsHeard' /\ DispatchIsConfirmed'
  BY DispatchUntouched DEF HandlersInv
<1>4. MemoIsDated' /\ LineIsRecent' /\ VerifierKept'
  BY ReadsUntouched DEF HandlersInv
<1> QED
  BY <1>1, <1>2, <1>3, <1>4 DEF HandlersInv

\* One step of the handlers.
LEMMA HandlersStep == HandlersInv /\ [PolicyNext]_policyVars => HandlersInv'
<1> SUFFICES ASSUME HandlersInv, [PolicyNext]_policyVars PROVE HandlersInv'
  OBVIOUS
<1>1. guardrails \in Guardrails
  BY DEF HandlersInv, HandlersOK
<1>2. ASSUME PlanStep PROVE HandlersInv'
  <2>1. ASSUME NEW x \in Finding, NEW o \in {"declined", "unavailable"}, RecordOutcome(x, o) PROVE HandlersInv'
    BY <2>1, OutcomeKeeps
  <2>2. ASSUME NEW line \in {"on", "off", "unknown"}, NEW risk \in Risk,
               NEW candidates \in {{}} \cup {{x} : x \in Finding},
               NEW stated \in {"none", "closed", "declined", "unavailable", "unknown"},
               NEW model \in {"none", "mini", "large"}, NEW effort \in {"none", "low", "high"},
               AssessPlan(line, risk, IsSmallWriter(model, effort), stated, candidates)
        PROVE  HandlersInv'
    <3>1. IsSmallWriter(model, effort) \in BOOLEAN /\ candidates \in SUBSET Finding /\ line \in Line
      BY DEF IsSmallWriter, Line
    <3> QED
      BY <2>2, <3>1, PlanKeeps
  <2> QED
    BY <1>2, <2>1, <2>2 DEF PlanStep
<1>3. ASSUME GuardStep PROVE HandlersInv'
  <2>1. ASSUME NEW c \in ToolCall, NEW s \in PiSession, NEW in \in Bash \cup OtherInput, ToolCallArrives(c, s, in)
        PROVE  HandlersInv'
    BY <2>1, ArriveKeeps
  <2>2. ASSUME NEW c \in ToolCall, NEW a \in {"yes", "no", "throws"}, ConfirmSettles(c, a) PROVE HandlersInv'
    BY <2>2, SettleKeeps
  <2>3. ASSUME NEW c \in ToolCall, NEW ok, ToolReturns(c, ok) PROVE HandlersInv'
    BY <2>3, ReturnKeeps
  <2>4. ASSUME NEW s \in PiSession, NEW kind \in {"choice", "questionnaire"}, NEW open \in BOOLEAN, Announce(s, kind, open)
        PROVE  HandlersInv'
    BY <2>4, AnnounceKeeps
  <2>5. ASSUME NEW g \in [env : BOOLEAN, global : GuardFile, project : GuardFile], EditGuardrails(g) PROVE HandlersInv'
    BY <2>5, TurnsKeep DEF EditGuardrails, Guardrails
  <2> QED
    BY <1>3, <2>1, <2>2, <2>3, <2>4, <2>5 DEF GuardStep
<1>4. ASSUME DispatchStep PROVE HandlersInv'
  <2>1. ASSUME NEW c \in ToolCall, NEW s \in PiSession, NEW in \in SddDispatch, ToolCallArrives(c, s, in)
        PROVE  HandlersInv'
    BY <2>1, ArriveKeeps
  <2>2. ASSUME NEW c \in ToolCall, BeginPreflight(c) \/ DispatchSdd(c) \/ ToolReturns(c, TRUE) PROVE HandlersInv'
    BY <2>2, BeginPreflightKeeps, DispatchKeeps, ReturnKeeps
  <2>3. ASSUME NEW s \in PiSession, NEW b \in BOOLEAN, PreflightAnswered(s, b) \/ PreflightResolves(s, b) PROVE HandlersInv'
    BY <2>3, AnsweredKeeps, ResolvesKeeps
  <2>4. ASSUME NEW s \in PiSession, NEW m \in {"tui", "headless", "rpc"}, ReplaceSession(s, m) PROVE HandlersInv'
    BY <2>4, ReplaceKeeps DEF SessionMode
  <2> QED
    BY <1>4, <2>1, <2>2, <2>3, <2>4 DEF DispatchStep
<1>5. ASSUME AgentStep PROVE HandlersInv'
  <2>1. ASSUME NEW c \in ToolCall, NEW s \in PiSession,
               NEW in \in FixDispatch \cup WriterDispatch \cup DirectWrite \cup OtherInput, ToolCallArrives(c, s, in)
        PROVE  HandlersInv'
    BY <2>1, ArriveKeeps
  <2>2. ASSUME NEW c \in ToolCall, NEW ok, ToolReturns(c, ok) PROVE HandlersInv'
    BY <2>2, ReturnKeeps
  <2>3. ASSUME NEW s, NEW kind, NEW sel, NEW st, StartAgentTurn(s, kind, sel, st) PROVE HandlersInv'
    BY <1>1, <2>3, TurnsKeep DEF StartAgentTurn
  <2>4. ASSUME NEW s, EndAgentTurn(s) PROVE HandlersInv'
    BY <1>1, <2>4, TurnsKeep DEF EndAgentTurn
  <2> QED
    BY <1>5, <2>1, <2>2, <2>3, <2>4 DEF AgentStep
<1>6. ASSUME RddStep PROVE HandlersInv'
  <2>1. ASSUME NEW m \in {"on", "off"}, Tick(m) PROVE HandlersInv'
    BY <2>1, TickKeeps
  <2>2. ASSUME NEW r \in LineRead, AskRdd(r) PROVE HandlersInv'
    BY <2>2, AskKeeps
  <2>3. ASSUME NEW r \in LineRead, NEW line \in {"on", "off", "unknown"}, RddAnswers(r, line) PROVE HandlersInv'
    BY <2>3, AnswerKeeps DEF Line
  <2> QED
    BY <1>6, <2>1, <2>2, <2>3 DEF RddStep
<1>7. CASE UNCHANGED policyVars
  BY <1>1, <1>7, TurnsKeep DEF policyVars
<1> QED
  BY <1>2, <1>3, <1>4, <1>5, <1>6, <1>7 DEF PolicyNext

-----------------------------------------------------------------------------
(* What a command that runs was judged by.                                 *)

\* A call that may go on without a dialog has no part that forbids it, and one
\* that waits for its dialog waits in a session that can ask.
Answered(k, m) ==
  /\ k.pc = "preflight" => k.parts = {}
  /\ k.pc = "confirming" => "block" \notin k.parts /\ m # "headless"
  /\ k.pc = "running" => "block" \notin k.parts /\ ("confirm" \in k.parts => k.said = "yes" /\ m # "headless")

CallsAsked == \A c \in ToolCall : Answered(toolCall[c], mode[toolCall[c].session])

\* A call that moves alone.
LEMMA OneCallAsked ==
  ASSUME CallsAsked, NEW c \in ToolCall, NEW call, toolCall \in [ToolCall -> Call],
         toolCall' = [toolCall EXCEPT ![c] = call], UNCHANGED mode, Answered(call, mode[call.session])
  PROVE  CallsAsked'
<1>1. toolCall'[c] = call /\ \A d \in ToolCall : d # c => toolCall'[d] = toolCall[d]
  OBVIOUS
<1> QED
  BY <1>1 DEF CallsAsked

\* The verdict at arrival is that of the strictest part.
LEMMA ArrivalAsked ==
  ASSUME CallsAsked, HandlersInv, NEW c \in ToolCall, NEW s \in PiSession, NEW in, ToolCallArrives(c, s, in)
  PROVE  CallsAsked'
<1> DEFINE state == ArrivalVerdict(s, in)
           input == IF in.kind \in {"write", "sdd"} THEN in ELSE [kind |-> in.kind]
           parts == ArrivalParts(in)
           call == [NoCall EXCEPT !.pc = state, !.session = s, !.input = input, !.parts = parts]
           judged == EvaluateGuarded(in.cmd, LoadGuardrails(guardrails))
           command == CASE judged = "block" -> "refused"
                        [] judged = "confirm" -> IF mode[s] = "headless" THEN "refused" ELSE "confirming"
                        [] OTHER -> "running"
           away == TurnedAway(s, in)
<1>1. toolCall' = [toolCall EXCEPT ![c] = call] /\ UNCHANGED mode
  BY DEF ToolCallArrives, ArrivalVerdict, ArrivalParts
<1>2. in.kind = "bash" => state = IF away THEN "refused" ELSE command
  BY DEF ArrivalVerdict
<1>3. in.kind = "bash" => /\ "block" \in parts => judged = "block"
                          /\ "block" \notin parts /\ "confirm" \in parts => judged = "confirm"
  BY StrictestIsJudged DEF ArrivalParts
<1>4. in.kind # "bash" => parts = {} /\ state # "confirming"
  <2>1. ASSUME in.kind # "bash"
        PROVE  state \in {"refused", "preflight", "running"}
    <3> DEFINE dispatch == IF in.single /\ mode[s] # "rpc" THEN "preflight" ELSE "refused"
               carried == IF RejectsFix(in) \/ RejectsWriter(in) THEN "refused" ELSE "running"
    <3>1. state = CASE away -> "refused"
                    [] ~away /\ in.kind = "sdd" -> dispatch
                    [] ~away /\ in.kind \in {"fix", "writer"} -> carried
                    [] OTHER -> "running"
      BY <2>1 DEF ArrivalVerdict
    <3>2. dispatch \in {"refused", "preflight"} /\ carried \in {"refused", "running"}
      OBVIOUS
    <3> HIDE DEF dispatch, carried, state, away
    <3> QED
      BY <3>1, <3>2
  <2> QED
    BY <2>1 DEF ArrivalParts
<1> HIDE DEF judged
<1>5. in.kind = "bash" => state \in {"refused", "confirming", "running"}
  BY <1>2
<1>6. in.kind = "bash" /\ state = "confirming" => "block" \notin parts /\ mode[s] # "headless"
  BY <1>2, <1>3
<1>7. in.kind = "bash" /\ state = "running" => "block" \notin parts /\ "confirm" \notin parts
  BY <1>2, <1>3
<1> HIDE DEF state, parts, input, away, command
<1>8. call.pc = state /\ call.session = s /\ call.parts = parts
  BY DEF NoCall
<1> HIDE DEF call
<1>9. Answered(call, mode[call.session])
  BY <1>4, <1>5, <1>6, <1>7, <1>8 DEF Answered
<1> QED
  BY <1>1, <1>9, OneCallAsked DEF HandlersInv, HandlersOK

\* The answer is that of the dialog of this call.
LEMMA SettleAsked ==
  ASSUME CallsAsked, HandlersInv, NEW c \in ToolCall, NEW answer \in {"yes", "no", "throws"}, ConfirmSettles(c, answer)
  PROVE  CallsAsked'
<1> DEFINE was == toolCall[c]
           state == IF answer = "yes" THEN "running" ELSE "refused"
           call == [was EXCEPT !.pc = state, !.said = answer]
<1>1. toolCall \in [ToolCall -> Call] /\ was \in Call /\ state \in CallState
  BY DEF HandlersInv, HandlersOK, CallState
<1>2. was.pc = "confirming" /\ toolCall' = [toolCall EXCEPT ![c] = call] /\ UNCHANGED mode
  <2>1. toolCall' = [toolCall EXCEPT ![c].pc = state, ![c].said = answer] /\ was.pc = "confirming" /\ UNCHANGED mode
    BY DEF ConfirmSettles
  <2> QED
    BY <1>1, <2>1
<1>3. Answered(was, mode[was.session])
  BY DEF CallsAsked
<1>4. call = [was EXCEPT !.pc = state, !.said = answer] /\ (state = "running" => answer = "yes")
      /\ state \in {"running", "refused"}
  OBVIOUS
<1> HIDE DEF was, call, state
<1>4a. call.pc = state /\ call.session = was.session /\ call.parts = was.parts /\ call.said = answer
  BY <1>1, <1>4 DEF Call
<1>5. Answered(call, mode[call.session])
  BY <1>2, <1>3, <1>4, <1>4a DEF Answered
<1> QED
  BY <1>1, <1>2, <1>5, OneCallAsked

\* A dispatch holds no command.
LEMMA DispatchAsked ==
  ASSUME CallsAsked, HandlersInv, NEW c \in ToolCall, DispatchSdd(c)
  PROVE  CallsAsked'
<1> DEFINE was == toolCall[c]
           s == was.session
           ok == ~(preflight[s].prefs = "defaults" /\ mode[s] = "tui") /\ was.input.context = "plain"
           state == IF ok THEN "running" ELSE "refused"
           carried == IF ok THEN preflight[s].prefs ELSE "none"
           call == [was EXCEPT !.pc = state, !.carried = carried]
<1>1. toolCall \in [ToolCall -> Call] /\ was \in Call
  BY DEF HandlersInv, HandlersOK
<1>2. was.pc = "preflight" /\ toolCall' = [toolCall EXCEPT ![c] = call] /\ UNCHANGED mode
  BY <1>1 DEF DispatchSdd
<1>3. was.parts = {}
  BY <1>2 DEF CallsAsked, Answered
<1>4. state \in {"running", "refused"}
  OBVIOUS
<1> HIDE DEF state, carried
<1>5. call.pc = state /\ call.parts = was.parts
  BY <1>1 DEF Call
<1> HIDE DEF was, call
<1>6. Answered(call, mode[call.session])
  BY <1>3, <1>4, <1>5 DEF Answered
<1> QED
  BY <1>1, <1>2, <1>6, OneCallAsked

\* Calls that are refused or stay as they are, in the sessions they are in.
LEMMA RefusedAsked ==
  ASSUME CallsAsked, \A c \in ToolCall : toolCall'[c] = toolCall[c] \/ toolCall'[c].pc = "refused", UNCHANGED mode
  PROVE  CallsAsked'
<1> SUFFICES ASSUME NEW c \in ToolCall PROVE Answered(toolCall'[c], mode[toolCall'[c].session])
  BY DEF CallsAsked
<1>1. CASE toolCall'[c] = toolCall[c]
  BY <1>1 DEF CallsAsked
<1>2. CASE toolCall'[c].pc = "refused"
  BY <1>2 DEF Answered
<1> QED
  BY <1>1, <1>2

\* A session that is replaced has no call left.
LEMMA ReplaceAsked ==
  ASSUME CallsAsked, HandlersInv, NEW s \in PiSession, NEW m, ReplaceSession(s, m)
  PROVE  CallsAsked'
<1>1. mode \in [PiSession -> SessionMode] /\ mode' = [mode EXCEPT ![s] = m] /\ toolCall' = toolCall
  BY DEF HandlersInv, HandlersOK, ReplaceSession
<1> SUFFICES ASSUME NEW c \in ToolCall PROVE Answered(toolCall[c], mode'[toolCall[c].session])
  BY <1>1 DEF CallsAsked
<1>2. CASE toolCall[c].pc = "idle"
  BY <1>2 DEF Answered
<1>3. CASE toolCall[c].pc # "idle"
  <2>1. toolCall[c].session \in PiSession /\ toolCall[c].session # s
    BY <1>3 DEF HandlersInv, CallsHoused, ReplaceSession
  <2>2. mode'[toolCall[c].session] = mode[toolCall[c].session]
    BY <1>1, <2>1
  <2> QED
    BY <2>2 DEF CallsAsked
<1> QED
  BY <1>2, <1>3

\* One step of the handlers asks whom it must.
LEMMA AskedStep == HandlersInv /\ CallsAsked /\ [PolicyNext]_policyVars => CallsAsked'
<1> SUFFICES ASSUME HandlersInv, CallsAsked, [PolicyNext]_policyVars PROVE CallsAsked'
  OBVIOUS
<1>0. toolCall \in [ToolCall -> Call]
  BY DEF HandlersInv, HandlersOK
<1>1. ASSUME UNCHANGED <<toolCall, mode>> PROVE CallsAsked'
  BY <1>1 DEF CallsAsked
<1>2. ASSUME NEW c \in ToolCall, NEW ok, ToolReturns(c, ok) PROVE CallsAsked'
  <2>1. toolCall' = [toolCall EXCEPT ![c] = NoCall] /\ UNCHANGED mode
    BY <1>2 DEF ToolReturns
  <2>2. Answered(NoCall, mode[NoCall.session])
    BY DEF Answered, NoCall
  <2> QED
    BY <1>0, <2>1, <2>2, OneCallAsked
<1>3. ASSUME NEW s \in PiSession, NEW b \in BOOLEAN, PreflightAnswered(s, b) \/ PreflightResolves(s, b) PROVE CallsAsked'
  <2>1. PICK P \in BOOLEAN :
          toolCall' = [c \in ToolCall |-> IF P /\ toolCall[c].session = s /\ toolCall[c].pc = "preflight"
                                          THEN [toolCall[c] EXCEPT !.pc = "refused"] ELSE toolCall[c]]
    <3>1. PICK N \in BOOLEAN : N = ~b
      OBVIOUS
    <3> QED
      BY <1>3, <3>1 DEF PreflightAnswered, PreflightResolves
  <2>2. \A c \in ToolCall : toolCall'[c] = toolCall[c] \/ toolCall'[c].pc = "refused"
    BY <1>0, <2>1, WaitersRefused
  <2>3. UNCHANGED mode
    BY <1>3 DEF PreflightAnswered, PreflightResolves
  <2> QED
    BY <2>2, <2>3, RefusedAsked
<1>4. ASSUME PlanStep PROVE CallsAsked'
  BY <1>1, <1>4 DEF PlanStep, RecordOutcome, AssessPlan
<1>5. ASSUME GuardStep PROVE CallsAsked'
  BY <1>1, <1>2, <1>5, ArrivalAsked, SettleAsked DEF GuardStep, Announce, EditGuardrails
<1>6. ASSUME DispatchStep PROVE CallsAsked'
  BY <1>1, <1>2, <1>3, <1>6, ArrivalAsked, DispatchAsked, ReplaceAsked DEF DispatchStep, BeginPreflight
<1>7. ASSUME AgentStep PROVE CallsAsked'
  BY <1>1, <1>2, <1>7, ArrivalAsked DEF AgentStep, StartAgentTurn, EndAgentTurn
<1>8. ASSUME RddStep PROVE CallsAsked'
  <2>1. UNCHANGED toolCall /\ UNCHANGED mode
    BY <1>8, Zenon DEF RddStep, Tick, AskRdd, RddAnswers
  <2> QED
    BY <2>1, <1>1
<1>9. CASE UNCHANGED policyVars
  BY <1>1, <1>9 DEF policyVars
<1> QED
  BY <1>4, <1>5, <1>6, <1>7, <1>8, <1>9 DEF PolicyNext

\* What stands between a tool call and its effect stands there however calls, dialogs, reads and
\* edits of the guardrail files overlap, for any sessions, calls, keys, files, lines and bounds
\* (the tool_call handler and the RDD status line of gentle-ai.ts).
THEOREM PolicyStaysKept == PolicySpec => []PolicyIsKept
<1>1. HandlersInv /\ CallsAsked => PolicyIsKept
  <2> SUFFICES ASSUME HandlersInv, CallsAsked PROVE PolicyIsKept
    OBVIOUS
  <2>1. AttentionIsTrue
    <3> SUFFICES ASSUME NEW s \in PiSession
                 PROVE  attention[s].label = Label(dialogs[s].choice, dialogs[s].questionnaire, Cardinality(Confirming(s)))
      BY DEF AttentionIsTrue, Confirming
    <3> QED
      BY DEF HandlersInv, AttentionFollows
  <2>2. StrictestPartRules
    BY DEF CallsAsked, Answered, StrictestPartRules
  <2> QED
    BY <2>1, <2>2 DEF HandlersInv, PolicyIsKept
<1>2. PolicyInit => CallsAsked
  BY DEF PolicyInit, CallsAsked, Answered, NoCall
<1>3. HandlersInv /\ CallsAsked /\ [PolicyNext]_policyVars => HandlersInv' /\ CallsAsked'
  BY HandlersStep, AskedStep
<1> QED
  BY <1>1, <1>2, <1>3, HandlersInitially, PTL DEF PolicySpec


-----------------------------------------------------------------------------
(* The host of the agents.                                                 *)

HostStatuses == ActiveStatus \cup {"absent", "finished", "stored"}
TaskTable ==
  [HostTask -> [status : HostStatuses, session : HostSession \cup {NoHost}, created : Nat, ended : Nat, thread : Nat]]
PublisherState ==
  [session : HostSession \cup {NoHost}, tracked : SUBSET HostTask, timer : BOOLEAN, failed : BOOLEAN]
Savers == [HostTask -> [pc : {"idle", "save", "list", "prune"}, list : SUBSET HostTask]]

HostTypes ==
    /\ hostTask \in TaskTable /\ hostClock \in Nat /\ \A t \in HostTask : hostTask[t].created <= hostClock
    /\ hostSession \in HostSession \cup {NoHost} /\ owned \subseteq HostTask
    /\ publisher \in PublisherState /\ persisting \in Savers
    /\ history \subseteq HostTask /\ everSaved \subseteq HostTask

\* A task that exists goes on existing, and was created when it was.
Keeps(h, g) == \A t \in HostTask : h[t].status # "absent" => g[t].status # "absent" /\ g[t].created = h[t].created

(* Some number of a set of numbers is the least; the latest of some tasks. *)
LEMMA LeastNumber ==
  ASSUME NEW T \in SUBSET Nat, T # {}
  PROVE  \E m \in T : \A k \in T : m <= k
<1> DEFINE R == {ss \in Nat \X Nat : ss[1] < ss[2]}
<1>1. IsWellFoundedOn(R, Nat)
  BY NatLessThanWellFounded DEF OpToRel
<1> HIDE DEF R
<1>2. PICK m \in T : \A k \in T : <<k, m>> \notin R
  BY <1>1, WFMin, Zenon
<1>3. ASSUME NEW k \in T PROVE m <= k
  <2>1. k \in Nat /\ m \in Nat
    OBVIOUS
  <2>2. k < m => <<k, m>> \in R
    BY <2>1 DEF R
  <2> QED BY <1>2, <2>1, <2>2
<1> QED BY <1>3

\* Among the tasks created so far one was created last.
LEMMA LatestTask ==
  ASSUME NEW h \in TaskTable, NEW now \in Nat, \A t \in HostTask : h[t].created <= now,
         NEW B \in SUBSET HostTask, B # {}
  PROVE  \E u \in B : \A v \in B : h[v].created <= h[u].created
<1> DEFINE T == {now - h[t].created : t \in B}
<1>1. T \in SUBSET Nat /\ T # {}
  BY DEF TaskTable
<1>2. PICK m \in T : \A k \in T : m <= k
  BY <1>1, LeastNumber
<1>3. PICK u \in B : m = now - h[u].created
  BY <1>2
<1>4. ASSUME NEW v \in B PROVE h[v].created <= h[u].created
  <2>1. now - h[v].created \in T
    OBVIOUS
  <2>2. now - h[u].created <= now - h[v].created
    BY <1>2, <1>3, <2>1
  <2>3. h[v].created \in Nat /\ h[u].created \in Nat
    BY DEF TaskTable
  <2> QED BY <2>2, <2>3
<1> QED BY <1>4

-----------------------------------------------------------------------------
(* The history.                                                            *)

Newer(h, L, t) == {u \in L \ HistoricTask : h[u].created > h[t].created}
NewestOf(h, L) == {t \in L : t \in HistoricTask \/ Cardinality(Newer(h, L, t)) < HistoryMax}

\* A finished task that is not the newest any more awaits the saver that will
\* remove it.
HistorySound(h, e, y, p) ==
    /\ y \subseteq e /\ NewestOf(h, e) \subseteq y
    /\ \A t \in HostTask : p[t].list \subseteq e
    /\ \A t \in HostTask : p[t].pc # "idle" \/ t \in e => h[t].status # "absent"
    /\ \A x \in y \ NewestOf(h, e) : \E w \in HostTask :
          \/ p[w].pc \in {"save", "list"}
          \/ p[w].pc = "prune" /\ x \in p[w].list \ NewestOf(h, p[w].list)

HistoryInv == HistorySound(hostTask, everSaved, history, persisting)

\* A longer list of tasks has at least as many that are newer than t.
LEMMA NewerGrows ==
  ASSUME HostAssumption, NEW h \in TaskTable, NEW L \in SUBSET HostTask, NEW M \in SUBSET L, NEW t \in HostTask
  PROVE  /\ Newer(h, M, t) \subseteq Newer(h, L, t)
         /\ Cardinality(Newer(h, M, t)) \in Nat /\ Cardinality(Newer(h, L, t)) \in Nat
         /\ Cardinality(Newer(h, M, t)) <= Cardinality(Newer(h, L, t))
<1>1. Newer(h, M, t) \subseteq Newer(h, L, t) /\ Newer(h, L, t) \subseteq HostTask
  BY DEF Newer
<1>2. IsFiniteSet(Newer(h, L, t))
  BY <1>1, FS_Subset DEF HostAssumption
<1>3. IsFiniteSet(Newer(h, M, t)) /\ Cardinality(Newer(h, M, t)) <= Cardinality(Newer(h, L, t))
  BY <1>1, <1>2, FS_Subset
<1> QED BY <1>1, <1>2, <1>3, FS_CardinalityType

(* What is among the newest of a listing stays so when less is listed.     *)
LEMMA NewestShrinks ==
  ASSUME HostAssumption, NEW h \in TaskTable, NEW L \in SUBSET HostTask, NEW M \in SUBSET L
  PROVE  NewestOf(h, L) \cap M \subseteq NewestOf(h, M)
<1> SUFFICES ASSUME NEW t \in NewestOf(h, L), t \in M, t \notin HistoricTask
             PROVE  Cardinality(Newer(h, M, t)) < HistoryMax
  BY DEF NewestOf
<1>1. Cardinality(Newer(h, L, t)) < HistoryMax
  BY DEF NewestOf
<1>2. t \in HostTask /\ HistoryMax \in Nat
  BY DEF HostAssumption
<1>3. /\ Cardinality(Newer(h, M, t)) \in Nat /\ Cardinality(Newer(h, L, t)) \in Nat
      /\ Cardinality(Newer(h, M, t)) <= Cardinality(Newer(h, L, t))
  BY <1>2, NewerGrows
<1> QED BY <1>1, <1>2, <1>3

(* A listing that has all the newest has enough of them to condemn what is *)
(* too old.                                                                *)
LEMMA ListingCondemns ==
  ASSUME HostAssumption, NEW h \in TaskTable, NEW now \in Nat, \A t \in HostTask : h[t].created <= now,
         NEW e \in SUBSET HostTask, NEW y \in SUBSET e, NewestOf(h, e) \subseteq y,
         NEW x \in y, x \notin NewestOf(h, e)
  PROVE  x \notin NewestOf(h, y)
<1> DEFINE N == Newer(h, e, x)
<1>1. x \in HostTask /\ x \notin HistoricTask /\ ~(Cardinality(N) < HistoryMax)
  BY DEF NewestOf
<1>2. SUFFICES ~(Cardinality(Newer(h, y, x)) < HistoryMax)
  BY <1>1 DEF NewestOf
<1>3. CASE N \subseteq y
  <2>1. Newer(h, y, x) = N
    BY <1>3 DEF Newer
  <2> QED BY <1>1, <2>1
<1>4. CASE ~(N \subseteq y)
  <2> DEFINE B == N \ y
  <2>1. B \in SUBSET HostTask /\ B # {}
    BY <1>4 DEF Newer
  <2>2. PICK u \in B : \A v \in B : h[v].created <= h[u].created
    BY <2>1, LatestTask
  <2>3. u \in e /\ u \in HostTask /\ u \notin HistoricTask /\ u \notin y /\ h[u].created > h[x].created
    BY DEF Newer
  <2>4. ~(Cardinality(Newer(h, e, u)) < HistoryMax)
    BY <2>3 DEF NewestOf
  <2>5. ASSUME NEW v \in Newer(h, e, u) PROVE v \in Newer(h, y, x)
    <3>1. v \in e \ HistoricTask /\ v \in HostTask /\ h[v].created > h[u].created
      BY DEF Newer
    <3>2. h[v].created \in Nat /\ h[u].created \in Nat /\ h[x].created \in Nat
      BY <1>1, <2>3, <3>1 DEF TaskTable
    <3>3. h[v].created > h[x].created
      BY <2>3, <3>1, <3>2
    <3>4. v \in N
      BY <3>1, <3>3 DEF Newer
    <3>5. v \in y
      BY <2>2, <3>1, <3>2, <3>4
    <3> QED BY <3>1, <3>3, <3>5 DEF Newer
  <2>6. Newer(h, y, x) \subseteq HostTask
    BY DEF Newer
  <2>7. IsFiniteSet(Newer(h, y, x))
    BY <2>6, FS_Subset DEF HostAssumption
  <2>8. Cardinality(Newer(h, e, u)) <= Cardinality(Newer(h, y, x)) /\ IsFiniteSet(Newer(h, e, u))
    BY <2>5, <2>7, FS_Subset
  <2>9. Cardinality(Newer(h, e, u)) \in Nat /\ Cardinality(Newer(h, y, x)) \in Nat
    BY <2>7, <2>8, FS_CardinalityType
  <2> QED BY <2>4, <2>8, <2>9 DEF HostAssumption
<1> QED BY <1>3, <1>4

(* A task table that keeps what exists keeps what is newest.               *)
LEMMA NewestIsKept ==
  ASSUME NEW h, NEW g, Keeps(h, g), NEW L \in SUBSET HostTask, \A t \in L : h[t].status # "absent"
  PROVE  NewestOf(g, L) = NewestOf(h, L)
<1>1. ASSUME NEW t \in L PROVE Newer(g, L, t) = Newer(h, L, t)
  BY DEF Newer, Keeps
<1> QED BY <1>1 DEF NewestOf

\* The history stays sound when tasks only move on and some of them begin to be saved.
LEMMA HistoryFrame ==
  ASSUME NEW h, NEW g, Keeps(h, g), NEW e \in SUBSET HostTask, NEW y, NEW p \in Savers, NEW q \in Savers,
         HistorySound(h, e, y, p),
         \A t \in HostTask : \/ q[t] = p[t]
                             \/ q[t] = [pc |-> "save", list |-> {}] /\ g[t].status # "absent"
  PROVE  HistorySound(g, e, y, q)
<1>1. \A t \in e : h[t].status # "absent"
  BY DEF HistorySound
<1>2. NewestOf(g, e) = NewestOf(h, e)
  BY <1>1, NewestIsKept
<1>3. \A t \in HostTask : q[t].list \subseteq e
  BY DEF HistorySound
<1>4. \A t \in HostTask : q[t].pc # "idle" \/ t \in e => g[t].status # "absent"
  BY DEF HistorySound, Keeps
<1>5. ASSUME NEW x \in y, x \notin NewestOf(h, e)
      PROVE  \E w \in HostTask :
          \/ q[w].pc \in {"save", "list"}
          \/ q[w].pc = "prune" /\ x \in q[w].list \ NewestOf(g, q[w].list)
  <2>1. PICK w \in HostTask :
          \/ p[w].pc \in {"save", "list"}
          \/ p[w].pc = "prune" /\ x \in p[w].list \ NewestOf(h, p[w].list)
    BY <1>5 DEF HistorySound
  <2>2. CASE q[w] = p[w]
    <3>1. p[w].list \subseteq e
      BY DEF HistorySound
    <3>2. NewestOf(g, p[w].list) = NewestOf(h, p[w].list)
      BY <1>1, <3>1, NewestIsKept
    <3> QED BY <2>1, <2>2, <3>2
  <2>3. CASE q[w] = [pc |-> "save", list |-> {}]
    BY <2>3
  <2> QED BY <2>2, <2>3
<1> QED BY <1>2, <1>3, <1>4, <1>5 DEF HistorySound

\* saveTask: the file of a settled task appears and is remembered as saved.
LEMMA SavingKeepsHistory ==
  ASSUME HostAssumption, NEW h \in TaskTable, NEW e \in SUBSET HostTask, NEW y, NEW p \in Savers,
         HistorySound(h, e, y, p), NEW t \in HostTask, p[t].pc = "save"
  PROVE  HistorySound(h, e \cup {t}, y \cup {t}, [p EXCEPT ![t].pc = "list"])
<1> DEFINE e2 == e \cup {t}  y2 == y \cup {t}  q == [p EXCEPT ![t].pc = "list"]
<1>1. y2 \subseteq e2
  BY DEF HistorySound
<1>2. NewestOf(h, e2) \subseteq y2
  <2>1. NewestOf(h, e2) \cap e \subseteq NewestOf(h, e)
    BY NewestShrinks
  <2>2. NewestOf(h, e2) \subseteq e2 /\ NewestOf(h, e) \subseteq y
    BY DEF NewestOf, HistorySound
  <2> QED BY <2>1, <2>2
<1>3. \A u \in HostTask : q[u].list = p[u].list /\ (u # t => q[u].pc = p[u].pc)
  BY DEF Savers
<1>4. q[t].pc = "list"
  BY DEF Savers
<1>5. \A u \in HostTask : q[u].list \subseteq e2
  BY <1>3 DEF HistorySound
<1>6. \A u \in HostTask : q[u].pc # "idle" \/ u \in e2 => h[u].status # "absent"
  BY <1>3 DEF HistorySound
<1> HIDE DEF e2, y2, q
<1>7. HistorySound(h, e2, y2, q)
  BY <1>1, <1>2, <1>4, <1>5, <1>6 DEF HistorySound
<1> QED BY <1>7 DEF e2, y2, q

\* pruneHistory reads the directory.
LEMMA ListingKeepsHistory ==
  ASSUME HostAssumption, NEW h \in TaskTable, NEW now \in Nat, \A t \in HostTask : h[t].created <= now,
         NEW e \in SUBSET HostTask, NEW y, NEW p \in Savers, HistorySound(h, e, y, p),
         NEW t \in HostTask, p[t].pc = "list"
  PROVE  HistorySound(h, e, y, [p EXCEPT ![t] = [pc |-> "prune", list |-> y]])
<1> DEFINE q == [p EXCEPT ![t] = [pc |-> "prune", list |-> y]]
<1>1. y \subseteq e /\ NewestOf(h, e) \subseteq y
  BY DEF HistorySound
<1>2. q[t].pc = "prune" /\ q[t].list = y /\ \A u \in HostTask : u # t => q[u] = p[u]
  BY DEF Savers
<1>3. \A u \in HostTask : q[u].list \subseteq e
  BY <1>1, <1>2 DEF HistorySound
<1>4. \A u \in HostTask : q[u].pc # "idle" \/ u \in e => h[u].status # "absent"
  BY <1>2 DEF HistorySound
<1>5. ASSUME NEW x \in y, x \notin NewestOf(h, e) PROVE x \notin NewestOf(h, y)
  BY <1>1, <1>5, ListingCondemns
<1> HIDE DEF q
<1>6. HistorySound(h, e, y, q)
  BY <1>1, <1>2, <1>3, <1>4, <1>5 DEF HistorySound
<1> QED BY <1>6 DEF q

\* pruneHistory deletes what its listing puts beyond the newest ones it keeps.
LEMMA PruningKeepsHistory ==
  ASSUME HostAssumption, NEW h \in TaskTable, NEW e \in SUBSET HostTask, NEW y, NEW p \in Savers,
         HistorySound(h, e, y, p), NEW t \in HostTask, p[t].pc = "prune"
  PROVE  HistorySound(h, e, y \ (p[t].list \ NewestOf(h, p[t].list)), [p EXCEPT ![t] = [pc |-> "idle", list |-> {}]])
<1> DEFINE gone == p[t].list \ NewestOf(h, p[t].list)  q == [p EXCEPT ![t] = [pc |-> "idle", list |-> {}]]
<1>1. p[t].list \subseteq e /\ y \subseteq e /\ NewestOf(h, e) \subseteq y
  BY DEF HistorySound
<1>2. NewestOf(h, e) \cap gone = {}
  BY <1>1, NewestShrinks
<1>3. q[t].pc = "idle" /\ q[t].list = {} /\ \A u \in HostTask : u # t => q[u] = p[u]
  BY DEF Savers
<1>4. \A u \in HostTask : q[u].list \subseteq e
  BY <1>3 DEF HistorySound
<1>5. \A u \in HostTask : q[u].pc # "idle" \/ u \in e => h[u].status # "absent"
  BY <1>3 DEF HistorySound
<1>6. ASSUME NEW x \in y, x \notin gone, x \notin NewestOf(h, e)
      PROVE  \E w \in HostTask :
          \/ q[w].pc \in {"save", "list"}
          \/ q[w].pc = "prune" /\ x \in q[w].list \ NewestOf(h, q[w].list)
  <2>1. PICK w \in HostTask :
          \/ p[w].pc \in {"save", "list"}
          \/ p[w].pc = "prune" /\ x \in p[w].list \ NewestOf(h, p[w].list)
    BY <1>6 DEF HistorySound
  <2>2. w # t
    BY <1>6, <2>1
  <2> QED BY <1>3, <2>1, <2>2
<1> HIDE DEF q, gone
<1>7. HistorySound(h, e, y \ gone, q)
  BY <1>1, <1>2, <1>3, <1>4, <1>5, <1>6 DEF HistorySound
<1> QED BY <1>7 DEF q, gone

-----------------------------------------------------------------------------
(* The activity publisher.                                                 *)

Entries(P) == \A e \in P : DOMAIN e = {"id", "status", "ended", "thread", "kept"}
Shows(P, t, s, n) == \E e \in P : e.id = t /\ e.status = s /\ e.thread = n

\* Every task of the publisher's session is subscribed to, and what was pushed
\* is how things are.
PublisherInv ==
    /\ publisher.session # NoHost => SyncTasks(hostTask, publisher.session) \subseteq publisher.tracked
    /\ ShownIsCurrent

\* halveThreadItems keeps what a payload shows of every task.
LEMMA HalvingShows ==
  ASSUME NEW P, Entries(P), NEW k
  PROVE  /\ Entries(HalveThreadItems(P, k))
         /\ \A t, s, n : Shows(P, t, s, n) => Shows(HalveThreadItems(P, k), t, s, n)
<1> DEFINE d(e) == [e EXCEPT !.kept = Halved(e.kept, k)]
<1>1. ASSUME NEW e \in P
      PROVE  /\ DOMAIN d(e) = DOMAIN e
             /\ d(e).id = e.id /\ d(e).status = e.status /\ d(e).thread = e.thread
  BY DEF Entries
<1>2. HalveThreadItems(P, k) = {d(e) : e \in P}
  BY DEF HalveThreadItems
<1> HIDE DEF d
<1> QED BY <1>1, <1>2 DEF Entries, Shows

\* Emptying threads keeps what a payload shows of every task.
LEMMA EmptyingShows ==
  ASSUME NEW P, Entries(P)
  PROVE  /\ Entries(EmptyThread(P)) /\ Entries(EmptyFinishedThread(P))
         /\ \A t, s, n : Shows(P, t, s, n) => Shows(EmptyThread(P), t, s, n) /\ Shows(EmptyFinishedThread(P), t, s, n)
<1> DEFINE d(e) == [e EXCEPT !.kept = 0]
<1>0. ASSUME NEW e \in P
      PROVE  /\ DOMAIN d(e) = DOMAIN e
             /\ d(e).id = e.id /\ d(e).status = e.status /\ d(e).thread = e.thread
  BY DEF Entries
<1>1. Entries(EmptyThread(P)) /\ \A t, s, n : Shows(P, t, s, n) => Shows(EmptyThread(P), t, s, n)
  <2>1. EmptyThread(P) = {d(e) : e \in P}
    BY DEF EmptyThread
  <2> HIDE DEF d
  <2> QED BY <1>0, <2>1 DEF Entries, Shows
<1>a. EmptyFinishedThread(P) = {IF Finished(e) THEN d(e) ELSE e : e \in P}
  BY DEF EmptyFinishedThread
<1> HIDE DEF d
<1>2. Entries(EmptyFinishedThread(P))
  BY <1>0, <1>a DEF Entries
<1>3. ASSUME NEW e \in P
      PROVE  \E x \in EmptyFinishedThread(P) : x.id = e.id /\ x.status = e.status /\ x.thread = e.thread
  BY <1>0, <1>a
<1> QED BY <1>1, <1>2, <1>3 DEF Shows

\* Dropping the oldest finished task keeps what a payload shows of the others.
LEMMA DroppingShows ==
  ASSUME NEW P, Entries(P), NEW k
  PROVE  /\ Entries(DropOldestFinished(P, k))
         /\ \A t, n : \A s \in ActiveStatus : Shows(P, t, s, n) => Shows(DropOldestFinished(P, k), t, s, n)
BY DEF Entries, Shows, DropOldestFinished, Finished

(* However much a push gives up, it shows every active task as it is.      *)
LEMMA PayloadShows ==
  ASSUME NEW P, Entries(P), NEW i, NEW t, NEW n, NEW s \in ActiveStatus, Shows(P, t, s, n)
  PROVE  Shows(Payload(P, i), t, s, n)
<1> DEFINE bare == EmptyFinishedThread(HalveThreadItems(P, MaxThread))
<1>1. Shows(HalveThreadItems(P, i - 1), t, s, n)
  BY HalvingShows
<1>2. Entries(HalveThreadItems(P, MaxThread)) /\ Shows(HalveThreadItems(P, MaxThread), t, s, n)
  BY HalvingShows
<1>3. Entries(bare) /\ Shows(bare, t, s, n)
  BY <1>2, EmptyingShows
<1> HIDE DEF bare
<1>4. \A k : Entries(DropOldestFinished(bare, k)) /\ Shows(DropOldestFinished(bare, k), t, s, n)
  BY <1>3, DroppingShows
<1>5. Shows(EmptyThread(DropOldestFinished(bare, Cardinality(HostTask))), t, s, n)
  BY <1>4, EmptyingShows
<1> QED BY <1>1, <1>4, <1>5 DEF Payload, bare

\* What the publisher pushes shows every active task of its session as it is now.
LEMMA PushShows ==
  ASSUME HostTypes, NEW s \in HostSession
  PROVE  \A t \in HostTask : hostTask[t].session = s /\ hostTask[t].status \in ActiveStatus =>
            Shows(EncodeActivityLines(ProjectRpcActivity(hostTask, s)), t, hostTask[t].status, hostTask[t].thread)
<1> SUFFICES ASSUME NEW t \in HostTask, hostTask[t].session = s, hostTask[t].status \in ActiveStatus
             PROVE  Shows(EncodeActivityLines(ProjectRpcActivity(hostTask, s)), t, hostTask[t].status, hostTask[t].thread)
  OBVIOUS
<1> DEFINE P == ProjectRpcActivity(hostTask, s)
<1>1. Entries(P)
  BY DEF Entries, ProjectRpcActivity
<1>2. t \in {u \in InStore(hostTask) : hostTask[u].session = s}
  BY DEF InStore, ActiveStatus
<1>3. Shows(P, t, hostTask[t].status, hostTask[t].thread)
  <2> DEFINE e == [id |-> t, status |-> hostTask[t].status, ended |-> hostTask[t].ended, thread |-> hostTask[t].thread,
                   kept |-> hostTask[t].thread]
  <2>1. e \in P
    BY <1>2 DEF ProjectRpcActivity
  <2>2. e.id = t /\ e.status = hostTask[t].status /\ e.thread = hostTask[t].thread
    OBVIOUS
  <2> HIDE DEF e, P
  <2> QED BY <2>1, <2>2 DEF Shows
<1> HIDE DEF P
<1>4. \A i : Shows(Payload(P, i), t, hostTask[t].status, hostTask[t].thread)
  BY <1>1, <1>3, PayloadShows
<1>5. Shows(EncodeActivityLines(P), t, hostTask[t].status, hostTask[t].thread)
  BY <1>4 DEF EncodeActivityLines
<1> QED BY <1>5 DEF P

(* A summary notification puts the publisher right whatever came before.   *)
LEMMA SummaryPublishes ==
  ASSUME HostTypes, hostTask' \in TaskTable, NotifySummary(hostTask')
  PROVE  publisher' \in PublisherState /\ PublisherInv'
<1>1. SyncTasks(hostTask', publisher.session) \subseteq HostTask
  BY DEF SyncTasks, InStore
<1>2. publisher' \in PublisherState /\ publisher'.session = publisher.session
  BY <1>1 DEF NotifySummary, HostTypes, PublisherState
<1>3. publisher.session # NoHost =>
        publisher'.timer /\ SyncTasks(hostTask', publisher.session) \subseteq publisher'.tracked
  BY DEF NotifySummary, HostTypes, PublisherState
<1>4. SyncTasks(hostTask', publisher'.session) = SyncTasks(hostTask', publisher.session)
  BY <1>2
<1> QED BY <1>2, <1>3, <1>4 DEF PublisherInv, ShownIsCurrent

(* A task's own notification does, too, when only its thread has grown.    *)
LEMMA TaskPublishes ==
  ASSUME HostTypes, PublisherInv, NEW t \in HostTask, hostTask[t].status = "running",
         hostTask' = [hostTask EXCEPT ![t].thread = @ + 1], NotifyTask(t), pushed' = pushed
  PROVE  publisher' \in PublisherState /\ PublisherInv'
<1>1. publisher' \in PublisherState /\ publisher'.session = publisher.session /\ publisher'.tracked = publisher.tracked
      /\ (publisher'.failed = publisher.failed) /\ (publisher'.timer = publisher.timer \/ publisher'.timer)
      /\ (t \in publisher.tracked => publisher'.timer)
  BY DEF NotifyTask, HostTypes, PublisherState
<1>2. \A u \in HostTask : /\ hostTask'[u].session = hostTask[u].session /\ hostTask'[u].status = hostTask[u].status
                          /\ u # t => hostTask'[u] = hostTask[u]
  BY DEF HostTypes, TaskTable
<1>3. SyncTasks(hostTask', publisher'.session) = SyncTasks(hostTask, publisher.session)
  BY <1>1, <1>2 DEF SyncTasks, InStore
<1>4. publisher.session # NoHost /\ ~publisher'.timer => hostTask[t].session # publisher.session
  BY <1>1 DEF PublisherInv, SyncTasks, InStore
<1> QED BY <1>1, <1>2, <1>3, <1>4 DEF PublisherInv, ShownIsCurrent

-----------------------------------------------------------------------------
(* Remediation.                                                            *)

RemState ==
  [pc : {"idle", "confirm", "child"}, session : HostSession \cup {NoHost}, plan : Seq(HostCommand),
   files : SUBSET HostFile, left : Seq(HostCommand), used : SUBSET CallId, ran : Seq(HostCommand),
   wrote : SUBSET HostFile]

\* What was run and what may still be run is what was confirmed.
RemInv ==
    /\ rem \in RemState
    /\ rem.pc # "child" => rem.ran = <<>> /\ rem.wrote = {}
    /\ rem.wrote \subseteq rem.files
    /\ rem.pc = "child" => \A c \in HostCommand : Times(rem.ran, c) + Times(rem.left, c) = Times(rem.plan, c)

\* A command is in a list a number of times.
LEMMA TimesIsNat ==
  ASSUME NEW s \in Seq(HostCommand), NEW c
  PROVE  IsFiniteSet({i \in DOMAIN s : s[i] = c}) /\ Times(s, c) \in Nat
<1>1. IsFiniteSet(1..Len(s))
  BY FS_Interval
<1>2. DOMAIN s = 1..Len(s)
  OBVIOUS
<1>3. IsFiniteSet({i \in DOMAIN s : s[i] = c})
  BY <1>1, <1>2, FS_Subset
<1> QED BY <1>3, FS_CardinalityType DEF Times

\* The empty list holds no command.
LEMMA TimesOfEmpty ==
  ASSUME NEW c
  PROVE  Times(<<>>, c) = 0
<1>1. {i \in DOMAIN <<>> : <<>>[i] = c} = {}
  OBVIOUS
<1> QED BY <1>1, FS_EmptySet DEF Times

\* One more command in a list counts once.
LEMMA TimesAppended ==
  ASSUME NEW s \in Seq(HostCommand), NEW c \in HostCommand, NEW d \in HostCommand
  PROVE  Times(Append(s, c), d) = Times(s, d) + IF c = d THEN 1 ELSE 0
<1> DEFINE I == {i \in DOMAIN s : s[i] = d}  J == {i \in DOMAIN Append(s, c) : Append(s, c)[i] = d}
<1>1. IsFiniteSet(I) /\ Cardinality(I) = Times(s, d) /\ Times(s, d) \in Nat
  BY TimesIsNat DEF Times
<1>2. J = IF c = d THEN I \cup {Len(s) + 1} ELSE I
  OBVIOUS
<1>3. Len(s) + 1 \notin I
  OBVIOUS
<1>4. Cardinality(I \cup {Len(s) + 1}) = Cardinality(I) + 1
  BY <1>1, <1>3, FS_AddElement
<1>5. Times(Append(s, c), d) = Cardinality(J)
  BY DEF Times
<1> HIDE DEF I, J
<1> QED BY <1>1, <1>2, <1>4, <1>5

\* What is left of a list when its k-th command is taken out.
LEMMA WithoutAtType ==
  ASSUME NEW s \in Seq(HostCommand), NEW k \in DOMAIN s
  PROVE  /\ WithoutAt(s, k) \in Seq(HostCommand)
         /\ Len(WithoutAt(s, k)) = Len(s) - 1
         /\ \A j \in 1..(Len(s) - 1) : WithoutAt(s, k)[j] = IF j < k THEN s[j] ELSE s[j + 1]
<1>1. k \in 1..Len(s) /\ Len(s) \in Nat
  OBVIOUS
<1>2. SubSeq(s, 1, k - 1) \in Seq(HostCommand) /\ SubSeq(s, k + 1, Len(s)) \in Seq(HostCommand)
  BY <1>1
<1>3. Len(SubSeq(s, 1, k - 1)) = k - 1 /\ Len(SubSeq(s, k + 1, Len(s))) = Len(s) - k
  BY <1>1
<1>4. \A j \in 1..(k - 1) : SubSeq(s, 1, k - 1)[j] = s[j]
  BY <1>1
<1>5. \A j \in 1..(Len(s) - k) : SubSeq(s, k + 1, Len(s))[j] = s[k + j]
  BY <1>1
<1> DEFINE a == SubSeq(s, 1, k - 1)  b == SubSeq(s, k + 1, Len(s))
<1>a. a \in Seq(HostCommand) /\ b \in Seq(HostCommand) /\ Len(a) = k - 1 /\ Len(b) = Len(s) - k
  BY <1>2, <1>3
<1> HIDE DEF a, b
<1>6. a \o b \in Seq(HostCommand) /\ Len(a \o b) = Len(s) - 1
  BY <1>1, <1>a
<1>7. \A j \in 1..(Len(s) - 1) : (a \o b)[j] = IF j < k THEN a[j] ELSE b[j - (k - 1)]
  BY <1>1, <1>a
<1>8. ASSUME NEW j \in 1..(Len(s) - 1) PROVE (a \o b)[j] = IF j < k THEN s[j] ELSE s[j + 1]
  <2>1. CASE j < k
    BY <1>1, <1>4, <1>7, <2>1 DEF a
  <2>2. CASE ~(j < k)
    <3>1. j - (k - 1) \in 1..(Len(s) - k) /\ k + (j - (k - 1)) = j + 1
      BY <1>1, <2>2
    <3> QED BY <1>5, <1>7, <2>2, <3>1 DEF b
  <2> QED BY <2>1, <2>2
<1> QED BY <1>6, <1>8 DEF WithoutAt, a, b

(* Spending a slot takes one occurrence of its command and no other.       *)
LEMMA TimesWithout ==
  ASSUME NEW s \in Seq(HostCommand), NEW k \in DOMAIN s, NEW d \in HostCommand
  PROVE  Times(s, d) = Times(WithoutAt(s, k), d) + IF s[k] = d THEN 1 ELSE 0
<1> DEFINE w == WithoutAt(s, k)
           I == {i \in DOMAIN s : s[i] = d}  J == {j \in DOMAIN w : w[j] = d}
           g == [j \in J |-> IF j < k THEN j ELSE j + 1]
<1>1. w \in Seq(HostCommand) /\ Len(w) = Len(s) - 1 /\ k \in 1..Len(s) /\ Len(s) \in Nat
  BY WithoutAtType
<1>2. \A j \in 1..(Len(s) - 1) : w[j] = IF j < k THEN s[j] ELSE s[j + 1]
  BY WithoutAtType
<1>3. IsFiniteSet(J) /\ Cardinality(J) = Times(w, d) /\ Times(w, d) \in Nat
  BY <1>1, TimesIsNat DEF Times
<1>4. IsFiniteSet(I) /\ Cardinality(I) = Times(s, d) /\ Times(s, d) \in Nat
  BY TimesIsNat DEF Times
<1> HIDE DEF w
<1>5. DOMAIN w = 1..(Len(s) - 1)
  BY <1>1
<1>6. g \in Bijection(J, I \ {k})
  <2>1. \A j \in J : g[j] \in I \ {k}
    BY <1>1, <1>2, <1>5
  <2>2. \A j, l \in J : g[j] = g[l] => j = l
    BY <1>1, <1>5
  <2>3. ASSUME NEW i \in I \ {k} PROVE \E j \in J : g[j] = i
    <3>1. i \in 1..Len(s) /\ i # k /\ s[i] = d
      OBVIOUS
    <3>2. CASE i < k
      <4>1. i \in 1..(Len(s) - 1) /\ w[i] = d
        BY <1>1, <1>2, <3>1, <3>2
      <4>2. i \in J /\ g[i] = i
        BY <1>5, <3>2, <4>1
      <4> QED BY <4>2
    <3>3. CASE i > k
      <4>1. i - 1 \in 1..(Len(s) - 1) /\ ~(i - 1 < k) /\ i - 1 + 1 = i
        BY <1>1, <3>1, <3>3
      <4>2. w[i - 1] = d
        BY <1>2, <3>1, <4>1
      <4>3. i - 1 \in J /\ g[i - 1] = i
        BY <1>5, <4>1, <4>2
      <4> QED BY <4>3
    <3>4. i < k \/ i > k
      BY <1>1, <3>1
    <3> QED BY <3>2, <3>3, <3>4
  <2>4. g \in [J -> I \ {k}]
    BY <2>1
  <2> HIDE DEF g
  <2> QED BY <2>2, <2>3, <2>4 DEF Bijection, Injection, Surjection, IsInjective
<1>7. Cardinality(I \ {k}) = Cardinality(J)
  BY <1>3, <1>6, FS_Bijection DEF ExistsBijection
<1>8. Cardinality(I \ {k}) = IF k \in I THEN Cardinality(I) - 1 ELSE Cardinality(I)
  BY <1>4, FS_RemoveElement
<1>9. k \in I <=> s[k] = d
  BY <1>1
<1> QED BY <1>3, <1>4, <1>7, <1>8, <1>9 DEF w

-----------------------------------------------------------------------------
(* The host's steps.                                                       *)

HostInv == HostTypes /\ PublisherInv /\ HistoryInv /\ RemInv

\* What a step on the tasks of this process does, whichever it is.
StoreStep ==
    /\ hostTask' \in TaskTable /\ Keeps(hostTask, hostTask') /\ NotifySummary(hostTask')
    /\ persisting' \in Savers
    /\ \A t \in HostTask : \/ persisting'[t] = persisting[t]
                           \/ persisting'[t] = [pc |-> "save", list |-> {}] /\ hostTask'[t].status # "absent"
    /\ \A t \in HostTask : hostTask'[t].created <= hostClock'
    /\ hostClock' \in Nat /\ hostSession' \in HostSession \cup {NoHost} /\ owned' \subseteq HostTask
    /\ UNCHANGED <<history, everSaved, rem>>

\* The history invariant under a step that saves nothing and deletes nothing.
LEMMA KeptHistory ==
  ASSUME HostInv, hostTask' \in TaskTable, Keeps(hostTask, hostTask'), persisting' \in Savers,
         \A t \in HostTask : \/ persisting'[t] = persisting[t]
                             \/ persisting'[t] = [pc |-> "save", list |-> {}] /\ hostTask'[t].status # "absent",
         history' = history, everSaved' = everSaved
  PROVE  HistoryInv'
<1>1. HistorySound(hostTask', everSaved, history, persisting')
  BY HistoryFrame DEF HostInv, HostTypes, HistoryInv
<1> QED BY <1>1 DEF HistoryInv

\* The steps of the task store.
LEMMA StoreStepKeeps ==
  ASSUME HostInv, StoreStep
  PROVE  HostInv'
<1>1. publisher' \in PublisherState /\ PublisherInv'
  BY SummaryPublishes DEF HostInv, StoreStep
<1>2. HistoryInv'
  BY KeptHistory DEF StoreStep
<1>3. RemInv'
  BY DEF HostInv, StoreStep, RemInv
<1>4. HostTypes'
  BY <1>1 DEF HostInv, HostTypes, StoreStep
<1> QED BY <1>1, <1>2, <1>3, <1>4 DEF HostInv

\* Tasks of the host settle: each is saved from now on.
LEMMA FinishingSteps ==
  ASSUME HostAssumption, HostInv, NEW T \in SUBSET owned, Finishing(T), hostClock' \in Nat, hostClock' >= hostClock,
         hostSession' = hostSession, UNCHANGED <<history, everSaved, rem>>
  PROVE  HostInv'
<1>1. T \subseteq HostTask
  BY DEF HostInv, HostTypes
<1>2. hostTask' \in TaskTable /\ \A t \in HostTask :
        hostTask'[t].created = hostTask[t].created /\ (t \in T => hostTask'[t].status = "finished")
        /\ (t \notin T => hostTask'[t] = hostTask[t])
  BY DEF Finishing, HostInv, HostTypes, TaskTable, HostStatuses
<1>3. Keeps(hostTask, hostTask')
  BY <1>2 DEF Keeps
<1>4. persisting' \in Savers
  BY DEF Finishing, HostInv, HostTypes, Savers
<1>5. \A t \in HostTask : \/ persisting'[t] = persisting[t]
                          \/ persisting'[t] = [pc |-> "save", list |-> {}] /\ hostTask'[t].status # "absent"
  BY <1>2 DEF Finishing
<1>6. \A t \in HostTask : hostTask'[t].created <= hostClock'
  <2>1. \A t \in HostTask : hostTask[t].created \in Nat /\ hostTask[t].created <= hostClock /\ hostClock \in Nat
    BY DEF HostInv, HostTypes, TaskTable
  <2> QED BY <1>2, <2>1
<1>7. StoreStep
  BY <1>2, <1>3, <1>4, <1>5, <1>6 DEF StoreStep, Finishing, HostInv, HostTypes
<1> QED BY <1>7, StoreStepKeeps

(* The thread of a running task grows by an item.                          *)
LEMMA ThreadStepKeeps ==
  ASSUME HostInv, NEW t \in HostTask, hostTask[t].status = "running",
         hostTask' = [hostTask EXCEPT ![t].thread = @ + 1], NotifyTask(t), pushed' = pushed,
         UNCHANGED <<hostClock, hostSession, owned, persisting, history, everSaved, rem>>
  PROVE  HostInv'
<1>1. hostTask \in TaskTable
  BY DEF HostInv, HostTypes
<1>2. hostTask' \in TaskTable
      /\ \A u \in HostTask : hostTask'[u].created = hostTask[u].created /\ hostTask'[u].status = hostTask[u].status
  BY <1>1 DEF TaskTable
<1>3. publisher' \in PublisherState /\ PublisherInv'
  BY TaskPublishes DEF HostInv
<1>4. HostTypes'
  BY <1>2, <1>3 DEF HostInv, HostTypes
<1>5. HistoryInv'
  BY <1>2, KeptHistory DEF Keeps, HostInv, HostTypes
<1>6. RemInv'
  BY DEF HostInv, RemInv
<1> QED BY <1>3, <1>4, <1>5, <1>6 DEF HostInv

\* The steps of the tasks.
LEMMA AgentTaskStepKeeps ==
  ASSUME HostAssumption, HostInv, AgentTaskStep
  PROVE  HostInv'
<1>0. hostTask \in TaskTable /\ hostClock \in Nat /\ \A t \in HostTask : hostTask[t].created <= hostClock
  BY DEF HostInv, HostTypes
<1>1. ASSUME NEW t \in HostTask, HostLaunch(t) PROVE HostInv'
  <2>1. hostClock' = hostClock + 1 /\ hostClock' \in Nat
    BY <1>0, <1>1 DEF HostLaunch, NextEvent
  <2>2. hostTask' \in TaskTable /\ hostTask'[t].status = "queued" /\ hostTask'[t].created = hostClock
        /\ \A u \in HostTask : u # t => hostTask'[u] = hostTask[u]
    BY <1>0, <1>1 DEF HostLaunch, TaskTable, HostStatuses, ActiveStatus, AbsentTask, HostInv, HostTypes
  <2>3. Keeps(hostTask, hostTask')
    BY <1>1, <2>2 DEF Keeps, HostLaunch
  <2>4. \A u \in HostTask : hostTask'[u].created <= hostClock'
    <3>1. \A u \in HostTask : hostTask[u].created \in Nat
      BY <1>0 DEF TaskTable
    <3> QED BY <1>0, <2>1, <2>2, <3>1
  <2>5. StoreStep
    BY <1>1, <2>1, <2>2, <2>3, <2>4 DEF StoreStep, HostLaunch, historyVars, HostInv, HostTypes
  <2> QED BY <2>5, StoreStepKeeps
<1>2. ASSUME NEW t \in HostTask, NEW s \in {"running", "waiting"}, HostStatus(t, s) PROVE HostInv'
  <2>1. hostTask' \in TaskTable /\ hostTask'[t].status = s
        /\ \A u \in HostTask : hostTask'[u].created = hostTask[u].created /\ (u # t => hostTask'[u] = hostTask[u])
    BY <1>0, <1>2 DEF HostStatus, TaskTable, HostStatuses, ActiveStatus
  <2>2. Keeps(hostTask, hostTask')
    BY <2>1 DEF Keeps
  <2>3. StoreStep
    BY <1>0, <1>2, <2>1, <2>2 DEF StoreStep, HostStatus, historyVars, HostInv, HostTypes
  <2> QED BY <2>3, StoreStepKeeps
<1>3. ASSUME NEW t \in HostTask, HostFinish(t) PROVE HostInv'
  <2>1. {t} \in SUBSET owned /\ Finishing({t}) /\ hostClock' = hostClock + 1
        /\ hostSession' = hostSession /\ UNCHANGED <<history, everSaved, rem>>
    BY <1>3 DEF HostFinish, NextEvent
  <2>2. hostClock' \in Nat /\ hostClock' >= hostClock
    BY <1>0, <2>1
  <2> QED BY <2>1, <2>2, FinishingSteps
<1>4. ASSUME NEW t \in HostTask, HostApply(t) PROVE HostInv'
  BY <1>4, ThreadStepKeeps DEF HostApply, storeVars, stopVars, historyVars, publisherVars
<1> QED BY <1>1, <1>2, <1>3, <1>4 DEF AgentTaskStep

\* A step of the parts the invariant does not read.
LEMMA HostQuiet ==
  ASSUME HostInv, UNCHANGED <<hostTask, hostClock, hostSession, owned, publisher, pushed, persisting, history, everSaved, rem>>
  PROVE  HostInv'
<1>1. HostTypes'
  BY DEF HostInv, HostTypes
<1>2. PublisherInv'
  BY DEF HostInv, PublisherInv, ShownIsCurrent
<1>3. HistoryInv' /\ RemInv'
  BY DEF HostInv, HistoryInv, RemInv
<1> QED BY <1>1, <1>2, <1>3 DEF HostInv

\* onSuccessfulMutation: a child's mutation is relayed, or one note says why not.
LEMMA RelayStepKeeps ==
  ASSUME HostInv, RelayStep
  PROVE  HostInv'
<1> PICK t \in HostTask, g \in {"none", "root-mismatch"} : RelayMutation(t, g)
  BY DEF RelayStep
<1>1. CASE hostTask' = [hostTask EXCEPT ![t].thread = @ + 1] /\ NotifyTask(t)
  <2>1. /\ hostTask[t].status = "running" /\ pushed' = pushed
        /\ UNCHANGED <<hostClock, hostSession, owned, persisting, history, everSaved, rem>>
    BY DEF RelayMutation, historyVars
  <2> QED BY <1>1, <2>1, ThreadStepKeeps
<1>2. CASE UNCHANGED <<hostTask, publisher>>
  BY <1>2, HostQuiet DEF RelayMutation, historyVars
<1> QED BY <1>1, <1>2 DEF RelayMutation

\* The panel stops a task.
LEMMA PanelStopKeeps ==
  ASSUME HostAssumption, HostInv, PanelStop
  PROVE  HostInv'
<1>0. hostClock \in Nat /\ hostClock >= hostClock
  BY DEF HostInv, HostTypes
<1>1. ASSUME NEW t \in HostTask, StopSelected(t) PROVE HostInv'
  <2>1. CASE Finishing({t})
    <3>1. {t} \in SUBSET owned /\ hostClock' = hostClock /\ hostSession' = hostSession
          /\ UNCHANGED <<history, everSaved, rem>>
      BY <1>1 DEF StopSelected
    <3> QED BY <1>0, <2>1, <3>1, FinishingSteps
  <2>2. CASE UNCHANGED <<hostTask, owned, persisting, publisher>>
    BY <1>1, <2>2, HostQuiet DEF StopSelected
  <2> QED BY <1>1, <2>1, <2>2 DEF StopSelected
<1>2. ASSUME NEW t \in HostTask, NEW yes \in BOOLEAN, AnswerStop(t, yes) PROVE HostInv'
  <2>1. CASE yes /\ t \in owned
    <3>1. {t} \in SUBSET owned /\ Finishing({t}) /\ hostClock' = hostClock /\ hostSession' = hostSession
          /\ UNCHANGED <<history, everSaved, rem>>
      BY <1>2, <2>1 DEF AnswerStop
    <3> QED BY <1>0, <3>1, FinishingSteps
  <2>2. CASE ~(yes /\ t \in owned)
    BY <1>2, <2>2, HostQuiet DEF AnswerStop
  <2> QED BY <2>1, <2>2
<1>3. CASE StopAll
  BY <1>3, HostQuiet DEF StopAll, storeVars, publisherVars, historyVars
<1>4. ASSUME NEW yes \in BOOLEAN, AnswerStopAll(yes) PROVE HostInv'
  <2>1. CASE yes
    <3>1. (stopAllList \cap owned) \in SUBSET owned /\ Finishing(stopAllList \cap owned) /\ hostClock' = hostClock
          /\ hostSession' = hostSession /\ UNCHANGED <<history, everSaved, rem>>
      BY <1>4, <2>1 DEF AnswerStopAll
    <3> QED BY <1>0, <3>1, FinishingSteps
  <2>2. CASE ~yes
    BY <1>4, <2>2, HostQuiet DEF AnswerStopAll
  <2> QED BY <2>1, <2>2
<1> QED BY <1>1, <1>2, <1>3, <1>4 DEF PanelStop

\* Restored tasks land in the host.
LEMMA LandingKeeps ==
  ASSUME HostInv, NEW T, LandRestored(T), pushed' = pushed,
         UNCHANGED <<hostSession, hostClock, owned, persisting, history, everSaved, rem>>
  PROVE  HostInv'
<1>1. hostTask \in TaskTable
  BY DEF HostInv, HostTypes
<1>2. hostTask' \in TaskTable
      /\ \A u \in HostTask : hostTask'[u].created = hostTask[u].created
                             /\ (hostTask[u].status # "absent" => hostTask'[u].status # "absent")
  BY <1>1 DEF TaskTable, LandRestored, HostStatuses
<1>3. CASE T = {}
  <2>1. hostTask' = hostTask
    BY <1>1, <1>3 DEF LandRestored, TaskTable
  <2> QED BY <1>3, <2>1, HostQuiet DEF LandRestored
<1>4. CASE T # {}
  <2>1. StoreStep
    BY <1>2, <1>4 DEF StoreStep, LandRestored, Keeps, HostInv, HostTypes
  <2> QED BY <2>1, StoreStepKeeps
<1> QED BY <1>3, <1>4

\* The steps that write, list, prune and restore the history.
LEMMA HistoryStepKeeps ==
  ASSUME HostAssumption, HostInv, HistoryStep
  PROVE  HostInv'
<1>0. /\ hostTask \in TaskTable /\ hostClock \in Nat /\ (\A t \in HostTask : hostTask[t].created <= hostClock)
      /\ everSaved \in SUBSET HostTask /\ persisting \in Savers
      /\ HistorySound(hostTask, everSaved, history, persisting)
  BY DEF HostInv, HostTypes, HistoryInv
<1>a. ASSUME UNCHANGED <<storeVars, publisherVars, rem>>, HistoryInv',
             persisting' \in Savers, history' \subseteq HostTask, everSaved' \subseteq HostTask
      PROVE  HostInv'
  <2>1. HostTypes'
    BY <1>a DEF HostInv, HostTypes, storeVars, publisherVars
  <2>2. PublisherInv'
    BY <1>a DEF HostInv, PublisherInv, ShownIsCurrent, storeVars, publisherVars
  <2>3. RemInv'
    BY <1>a DEF HostInv, RemInv
  <2> QED BY <1>a, <2>1, <2>2, <2>3 DEF HostInv
<1>1. ASSUME NEW t \in HostTask, SaveTask(t) PROVE HostInv'
  <2>1. HistorySound(hostTask, everSaved \cup {t}, history \cup {t}, [persisting EXCEPT ![t].pc = "list"])
    BY <1>0, <1>1, SavingKeepsHistory DEF SaveTask
  <2>2. HistoryInv'
    BY <1>1, <2>1 DEF SaveTask, HistoryInv, storeVars
  <2>3. persisting' \in Savers /\ history' \subseteq HostTask /\ everSaved' \subseteq HostTask
    BY <1>1 DEF SaveTask, HostInv, HostTypes, Savers
  <2> QED BY <1>1, <1>a, <2>2, <2>3 DEF SaveTask
<1>2. ASSUME NEW t \in HostTask, ListHistory(t) PROVE HostInv'
  <2>1. HistorySound(hostTask, everSaved, history, [persisting EXCEPT ![t] = [pc |-> "prune", list |-> history]])
    BY <1>0, <1>2, ListingKeepsHistory DEF ListHistory
  <2>2. HistoryInv'
    BY <1>2, <2>1 DEF ListHistory, HistoryInv, storeVars
  <2>3. persisting' \in Savers /\ history' \subseteq HostTask /\ everSaved' \subseteq HostTask
    BY <1>2 DEF ListHistory, HostInv, HostTypes, Savers
  <2> QED BY <1>2, <1>a, <2>2, <2>3 DEF ListHistory
<1>3. ASSUME NEW t \in HostTask, PruneHistory(t) PROVE HostInv'
  <2>1. Pruned(persisting[t].list) = persisting[t].list \ NewestOf(hostTask, persisting[t].list)
    BY DEF Pruned, Newest, NewestOf, Newer
  <2>2. HistorySound(hostTask, everSaved, history \ Pruned(persisting[t].list),
                     [persisting EXCEPT ![t] = [pc |-> "idle", list |-> {}]])
    BY <1>0, <1>3, <2>1, PruningKeepsHistory DEF PruneHistory
  <2>3. HistoryInv'
    BY <1>3, <2>2 DEF PruneHistory, HistoryInv, storeVars
  <2>4. persisting' \in Savers /\ history' \subseteq HostTask /\ everSaved' \subseteq HostTask
    BY <1>3 DEF PruneHistory, HostInv, HostTypes, Savers
  <2> QED BY <1>3, <1>a, <2>3, <2>4 DEF PruneHistory
<1>4. ASSUME NEW t \in HostTask, ResolveTask(t) PROVE HostInv'
  <2>1. LandRestored({t}) /\ pushed' = pushed
        /\ UNCHANGED <<hostSession, hostClock, owned, persisting, history, everSaved, rem>>
    BY <1>4 DEF ResolveTask, historyVars
  <2> QED BY <2>1, LandingKeeps
<1>5. CASE RestoreSessionHistory
  <2> DEFINE T == IF restoring.session # hostSession THEN {}
                  ELSE {t \in restoring.list : hostTask[t].session = hostSession /\ hostTask[t].status = "stored"}
  <2>1. LandRestored(T) /\ pushed' = pushed
        /\ UNCHANGED <<hostSession, hostClock, owned, persisting, history, everSaved, rem>>
    BY <1>5 DEF RestoreSessionHistory
  <2> HIDE DEF T
  <2> QED BY <2>1, LandingKeeps
<1> QED BY <1>1, <1>2, <1>3, <1>4, <1>5 DEF HistoryStep

\* The steps that open and close a session of the host.
LEMMA SessionStepKeeps ==
  ASSUME HostAssumption, HostInv, AgentSessionStep
  PROVE  HostInv'
<1>0. hostTask \in TaskTable /\ hostClock \in Nat /\ \A t \in HostTask : hostTask[t].created <= hostClock
  BY DEF HostInv, HostTypes
<1>a. \A t \in HostTask : hostTask[t].created \in Nat
  BY <1>0 DEF TaskTable
<1>1. ASSUME NEW s \in HostSession, NEW rpc \in BOOLEAN, NEW resume \in BOOLEAN, HostSessionStart(s, rpc, resume)
      PROVE  HostInv'
  <2>1. publisher' \in PublisherState
        /\ (publisher'.session # NoHost => publisher'.timer /\ publisher'.session = s
              /\ publisher'.tracked = SyncTasks(hostTask, s))
    BY <1>1 DEF HostSessionStart, StartPublisher, NoPublisher, PublisherState, SyncTasks, InStore
  <2>2. HostTypes'
    BY <1>0, <1>1, <1>a, <2>1 DEF HostSessionStart, NextEvent, HostInv, HostTypes
  <2>3. PublisherInv'
    BY <1>1, <2>1 DEF HostSessionStart, PublisherInv, ShownIsCurrent
  <2>4. HistoryInv' /\ RemInv'
    BY <1>1 DEF HostSessionStart, HostInv, HistoryInv, RemInv
  <2> QED BY <2>2, <2>3, <2>4 DEF HostInv
<1>2. CASE HostSessionShutdown
  <2>1. publisher' \in PublisherState /\ publisher'.session = NoHost
    <3>1. publisher \in PublisherState /\ NoPublisher \in PublisherState /\ NoPublisher.session = NoHost
      BY DEF NoPublisher, PublisherState, HostInv, HostTypes
    <3>2. publisher' = NoPublisher \/ (publisher' = publisher /\ publisher.session = NoHost)
      BY <1>2, <3>1 DEF HostSessionShutdown, PublishNow, publisherVars
    <3> QED BY <3>1, <3>2
  <2>2. hostTask' \in TaskTable /\ \A t \in HostTask :
          hostTask'[t].created = hostTask[t].created /\ (t \in owned => hostTask'[t].status = "finished")
          /\ (t \notin owned => hostTask'[t] = hostTask[t])
    BY <1>0, <1>2 DEF HostSessionShutdown, TaskTable, HostStatuses
  <2>3. persisting' \in Savers /\ \A t \in HostTask :
          \/ persisting'[t] = persisting[t]
          \/ persisting'[t] = [pc |-> "save", list |-> {}] /\ hostTask'[t].status # "absent"
    BY <1>2, <2>2 DEF HostSessionShutdown, HostInv, HostTypes, Savers
  <2>4. Keeps(hostTask, hostTask')
    BY <2>2 DEF Keeps
  <2>5. HistoryInv'
    BY <1>2, <2>2, <2>3, <2>4, KeptHistory DEF HostSessionShutdown
  <2>6. HostTypes'
    BY <1>0, <1>2, <2>1, <2>2, <2>3 DEF HostSessionShutdown, HostInv, HostTypes
  <2>7. PublisherInv' /\ RemInv'
    BY <1>2, <2>1 DEF HostSessionShutdown, PublisherInv, ShownIsCurrent, HostInv, RemInv
  <2> QED BY <2>5, <2>6, <2>7 DEF HostInv
<1>3. CASE HostRestart
  <2>1. hostTask' \in TaskTable /\ \A t \in HostTask :
          /\ hostTask'[t].created = hostTask[t].created /\ hostTask'[t].session = hostTask[t].session
          /\ hostTask'[t].thread = hostTask[t].thread
          /\ (hostTask[t].status = "finished" => hostTask'[t].status = "stored")
          /\ (hostTask[t].status # "finished" => hostTask'[t].status = hostTask[t].status)
    BY <1>0, <1>3 DEF HostRestart, TaskTable, HostStatuses
  <2>2. Keeps(hostTask, hostTask')
    BY <2>1 DEF Keeps
  <2>3. HistoryInv'
    BY <1>3, <2>1, <2>2, KeptHistory DEF HostRestart, HostInv, HostTypes
  <2>4. HostTypes'
    BY <1>0, <1>3, <1>a, <2>1 DEF HostRestart, NextEvent, HostInv, HostTypes, publisherVars
  <2>5. PublisherInv'
    <3>1. publisher' = publisher /\ pushed' = pushed
      BY <1>3 DEF HostRestart, publisherVars
    <3>2. SyncTasks(hostTask', publisher.session) \subseteq SyncTasks(hostTask, publisher.session)
      BY <2>1 DEF SyncTasks, InStore
    <3>3. \A t \in HostTask : hostTask'[t].status \in ActiveStatus => hostTask'[t].status = hostTask[t].status
      BY <2>1 DEF ActiveStatus
    <3> QED BY <2>1, <3>1, <3>2, <3>3 DEF HostInv, PublisherInv, ShownIsCurrent
  <2>6. RemInv'
    BY <1>3 DEF HostRestart, HostInv, RemInv
  <2> QED BY <2>3, <2>4, <2>5, <2>6 DEF HostInv
<1> QED BY <1>1, <1>2, <1>3 DEF AgentSessionStep

\* The publisher flushes.
LEMMA FlushKeeps ==
  ASSUME HostAssumption, HostInv, FlushActivity
  PROVE  HostInv'
<1>1. publisher \in PublisherState /\ HostTypes
  BY DEF HostInv, HostTypes
<1> DEFINE next == [publisher EXCEPT !.timer = FALSE, !.failed = FALSE]
<1>2. next \in PublisherState /\ next.session = publisher.session /\ next.tracked = publisher.tracked
  BY <1>1 DEF PublisherState
<1>3. publisher' \in PublisherState /\ publisher'.session = publisher.session
      /\ publisher'.tracked = publisher.tracked
  <2>1. [next EXCEPT !.failed = TRUE] \in PublisherState /\ [next EXCEPT !.failed = TRUE].session = next.session
        /\ [next EXCEPT !.failed = TRUE].tracked = next.tracked
    BY <1>2 DEF PublisherState
  <2> HIDE DEF next
  <2>2. publisher' = next \/ publisher' = [next EXCEPT !.failed = TRUE]
    BY DEF FlushActivity, PublishNow, next
  <2> QED BY <1>2, <2>1, <2>2
<1>4. hostTask' = hostTask
  BY DEF FlushActivity, storeVars
<1>5. PublisherInv'
  <2>1. SyncTasks(hostTask', publisher'.session) = SyncTasks(hostTask, publisher.session)
    BY <1>3, <1>4
  <2>2. CASE publisher.session = NoHost
    BY <1>3, <2>2 DEF PublisherInv, ShownIsCurrent
  <2>3. CASE publisher.session # NoHost /\ publisher'.failed
    BY <1>3, <2>1, <2>3 DEF PublisherInv, ShownIsCurrent, HostInv
  <2>4. CASE publisher.session # NoHost /\ ~publisher'.failed
    <3>1. publisher.session \in HostSession
      BY <1>1, <2>4 DEF PublisherState
    <3>2. pushed' = [session |-> publisher.session,
                     tasks |-> EncodeActivityLines(ProjectRpcActivity(hostTask, publisher.session))]
      <4>1. [next EXCEPT !.failed = TRUE].failed
        BY <1>2 DEF PublisherState
      <4> QED BY <1>2, <2>4, <4>1 DEF FlushActivity, PublishNow
    <3> DEFINE shows == EncodeActivityLines(ProjectRpcActivity(hostTask, publisher.session))
    <3>3. \A t \in HostTask : hostTask[t].session = publisher.session /\ hostTask[t].status \in ActiveStatus =>
            Shows(shows, t, hostTask[t].status, hostTask[t].thread)
      BY <1>1, <3>1, PushShows
    <3>4. pushed'.session = publisher.session /\ pushed'.tasks = shows
      BY <3>2
    <3> HIDE DEF shows
    <3>5. ShownIsCurrent'
      BY <1>3, <1>4, <3>3, <3>4 DEF ShownIsCurrent, Shows
    <3> QED BY <1>3, <2>1, <3>5 DEF HostInv, PublisherInv
  <2> QED BY <2>2, <2>3, <2>4
<1>6. HostTypes'
  BY <1>3 DEF FlushActivity, storeVars, historyVars, HostInv, HostTypes
<1>7. HistoryInv' /\ RemInv'
  BY DEF FlushActivity, storeVars, historyVars, HostInv, HistoryInv, RemInv
<1> QED BY <1>5, <1>6, <1>7 DEF HostInv

\* The steps of a remediation.
LEMMA RemediationStepKeeps ==
  ASSUME HostInv, RemediationStep
  PROVE  HostInv'
<1>0. rem \in RemState /\ RemInv
  BY DEF HostInv, RemInv
<1>a. ASSUME RemInv', UNCHANGED <<storeVars, publisherVars, stopVars, historyVars>> PROVE HostInv'
  <2>1. HostTypes'
    BY <1>a DEF HostInv, HostTypes, storeVars, publisherVars, historyVars
  <2>2. PublisherInv'
    BY <1>a DEF HostInv, PublisherInv, ShownIsCurrent, storeVars, publisherVars
  <2>3. HistoryInv'
    BY <1>a DEF HostInv, HistoryInv, storeVars, historyVars
  <2> QED BY <1>a, <2>1, <2>2, <2>3 DEF HostInv
<1>b. NoPlan \in RemState /\ NoPlan.pc = "idle" /\ NoPlan.ran = <<>> /\ NoPlan.wrote = {}
  BY DEF NoPlan, RemState
<1>c. ASSUME rem' = NoPlan PROVE RemInv'
  BY <1>b, <1>c DEF RemInv
<1>1. ASSUME NEW plan \in UNION {[1..n -> HostCommand] : n \in 1..2}, NEW files \in SUBSET HostFile,
             AdmitRemediation(plan, files)
      PROVE  HostInv'
  <2>1. hostSession \in HostSession
    BY <1>1 DEF AdmitRemediation, HostInv, HostTypes
  <2>2. plan \in Seq(HostCommand)
    <3> PICK n \in 1..2 : plan \in [1..n -> HostCommand]
      OBVIOUS
    <3> QED OBVIOUS
  <2>3. rem' \in RemState /\ rem'.pc = "confirm" /\ rem'.ran = <<>> /\ rem'.wrote = {}
    <3>1. rem' = [NoPlan EXCEPT !.pc = "confirm", !.session = hostSession, !.plan = plan, !.files = files]
      BY <1>1 DEF AdmitRemediation
    <3>2. rem' = [pc |-> "confirm", session |-> hostSession, plan |-> plan, files |-> files,
                  left |-> <<>>, used |-> {}, ran |-> <<>>, wrote |-> {}]
      BY <3>1 DEF NoPlan
    <3>3. <<>> \in Seq(HostCommand)
      OBVIOUS
    <3> QED BY <2>1, <2>2, <3>2, <3>3 DEF RemState
  <2>4. RemInv'
    BY <2>3 DEF RemInv
  <2> QED BY <1>1, <1>a, <2>4 DEF AdmitRemediation
<1>2. ASSUME NEW yes \in BOOLEAN, NEW moved \in BOOLEAN, ConfirmRemediation(yes, moved) PROVE HostInv'
  <2>1. CASE yes /\ ~moved /\ rem.session = hostSession
    <3>1. rem' = [rem EXCEPT !.pc = "child", !.left = rem.plan] /\ rem.ran = <<>> /\ rem.wrote = {}
      BY <1>0, <1>2, <2>1 DEF ConfirmRemediation, RemInv
    <3>2. rem' \in RemState /\ rem'.ran = <<>> /\ rem'.wrote = {} /\ rem'.left = rem'.plan
      BY <1>0, <3>1 DEF RemState
    <3>3. \A c \in HostCommand : Times(rem'.ran, c) + Times(rem'.left, c) = Times(rem'.plan, c)
      <4>1. \A c \in HostCommand : Times(rem'.plan, c) \in Nat
        BY <3>2, TimesIsNat DEF RemState
      <4>2. \A c \in HostCommand : Times(rem'.ran, c) = 0
        BY <3>2, TimesOfEmpty
      <4> QED BY <3>2, <4>1, <4>2
    <3>4. RemInv'
      BY <3>2, <3>3 DEF RemInv
    <3> QED BY <1>2, <1>a, <3>4 DEF ConfirmRemediation
  <2>2. CASE ~(yes /\ ~moved /\ rem.session = hostSession)
    BY <1>2, <1>a, <1>c, <2>2 DEF ConfirmRemediation
  <2> QED BY <2>1, <2>2
<1>3. ASSUME NEW c \in HostCommand, NEW id \in CallId, RemediationBash(c, id) PROVE HostInv'
  <2>1. PICK slot \in DOMAIN rem.left :
          /\ rem.left[slot] = c
          /\ rem' = [rem EXCEPT !.left = SlotSpent(slot), !.used = @ \cup {id}, !.ran = Append(@, c)]
    BY <1>3 DEF RemediationBash
  <2>2. rem.pc = "child" /\ rem.left \in Seq(HostCommand) /\ rem.ran \in Seq(HostCommand)
    BY <1>0, <1>3 DEF RemediationBash, RemState
  <2>3. WithoutAt(rem.left, slot) \in Seq(HostCommand) /\ Append(rem.ran, c) \in Seq(HostCommand)
    BY <2>2, WithoutAtType
  <2>4. rem' \in RemState /\ rem'.left = WithoutAt(rem.left, slot) /\ rem'.ran = Append(rem.ran, c)
        /\ rem'.plan = rem.plan /\ rem'.pc = "child" /\ rem'.wrote = rem.wrote /\ rem'.files = rem.files
    BY <1>0, <2>1, <2>2, <2>3 DEF RemState, SlotSpent
  <2>5. ASSUME NEW d \in HostCommand PROVE Times(rem'.ran, d) + Times(rem'.left, d) = Times(rem'.plan, d)
    <3>1. Times(rem.ran, d) + Times(rem.left, d) = Times(rem.plan, d)
      BY <1>0, <2>2 DEF RemInv
    <3>2. Times(rem.left, d) = Times(rem'.left, d) + IF c = d THEN 1 ELSE 0
      BY <2>1, <2>2, <2>4, TimesWithout
    <3>3. Times(rem'.ran, d) = Times(rem.ran, d) + IF c = d THEN 1 ELSE 0
      BY <2>2, <2>4, TimesAppended
    <3>4. Times(rem.ran, d) \in Nat /\ Times(rem'.left, d) \in Nat
      BY <2>2, <2>3, <2>4, TimesIsNat
    <3>5. rem'.plan = rem.plan
      BY <2>4
    <3> QED BY <3>1, <3>2, <3>3, <3>4, <3>5
  <2>6. RemInv'
    BY <1>0, <2>2, <2>4, <2>5 DEF RemInv
  <2> QED BY <1>3, <1>a, <2>6 DEF RemediationBash
<1>4. ASSUME NEW f \in HostFile, RemediationEdit(f) PROVE HostInv'
  <2>1. rem' \in RemState /\ rem'.pc = "child" /\ rem.pc = "child" /\ rem'.files = rem.files
        /\ rem'.wrote = rem.wrote \cup {f} /\ f \in rem.files
        /\ rem'.ran = rem.ran /\ rem'.left = rem.left /\ rem'.plan = rem.plan
    BY <1>0, <1>4 DEF RemediationEdit, RemediationToolAllowed, RemState
  <2>2. RemInv'
    BY <1>0, <2>1 DEF RemInv
  <2> QED BY <1>4, <1>a, <2>2 DEF RemediationEdit
<1>5. CASE RemediationEnds
  BY <1>5, <1>a, <1>c DEF RemediationEnds
<1> QED BY <1>1, <1>2, <1>3, <1>4, <1>5 DEF RemediationStep

\* The invariant holds when the host starts.
LEMMA HostInitSound ==
  ASSUME HostAssumption, HostInit
  PROVE  HostInv
<1>1. HostTypes
  BY DEF HostInit, HostTypes, TaskTable, AbsentTask, HostStatuses, ActiveStatus, PublisherState, NoPublisher, Savers
<1>2. PublisherInv
  BY DEF HostInit, PublisherInv, ShownIsCurrent, NoPublisher
<1>3. HistoryInv
  BY DEF HostInit, HistoryInv, HistorySound, NewestOf
<1>4. RemInv
  BY DEF HostInit, RemInv, NoPlan, RemState
<1> QED BY <1>1, <1>2, <1>3, <1>4 DEF HostInv

\* The invariant is what HostKeepsFaith asks for.
LEMMA HostInvSuffices ==
  ASSUME HostInv
  PROVE  HostKeepsFaith
<1>1. ShownIsCurrent
  BY DEF HostInv, PublisherInv
<1>2. HistoryIsNewest
  <2>1. Newest(everSaved) = NewestOf(hostTask, everSaved)
    BY DEF Newest, NewestOf, Newer
  <2> SUFFICES ASSUME \A t \in HostTask : persisting[t].pc = "idle" PROVE history = Newest(everSaved)
    BY DEF HistoryIsNewest
  <2> QED BY <2>1 DEF HostInv, HistoryInv, HistorySound
<1>3. RemediationIsAuthorized
  <2>1. rem \in RemState /\ RemInv
    BY DEF HostInv, RemInv
  <2>2. \A c \in HostCommand : Times(rem.plan, c) \in Nat /\ Times(rem.left, c) \in Nat /\ Times(rem.ran, c) \in Nat
    BY <2>1, TimesIsNat DEF RemState
  <2>3. CASE rem.pc = "child"
    BY <2>1, <2>2, <2>3 DEF RemInv, RemediationIsAuthorized
  <2>4. CASE rem.pc # "child"
    <3>1. \A c \in HostCommand : Times(rem.ran, c) = 0
      BY <2>1, <2>4, TimesOfEmpty DEF RemInv
    <3> QED BY <2>1, <2>2, <3>1 DEF RemInv, RemediationIsAuthorized
  <2> QED BY <2>3, <2>4
<1> QED BY <1>1, <1>2, <1>3 DEF HostKeepsFaith

(* In every run of the host, with any tasks, sessions, commands and files  *)
(* and whatever the bounds: a push that is not due shows every active task *)
(* as it is, the history on disk is the newest tasks once its savers are   *)
(* done, and a remediation child does what was confirmed                   *)
(* (agents-rpc-publisher.ts, agents-history.ts, gentle-agents.ts:99-175).  *)
THEOREM HostStaysFaithful == HostAssumption => (HostSpec => []HostKeepsFaith)
<1> SUFFICES ASSUME HostAssumption PROVE HostSpec => []HostKeepsFaith
  OBVIOUS
<1>1. HostInit => HostInv
  BY HostInitSound
<1>2. HostInv /\ [HostNext]_agentHostVars => HostInv'
  <2> SUFFICES ASSUME HostInv, [HostNext]_agentHostVars PROVE HostInv'
    OBVIOUS
  <2>1. CASE UNCHANGED agentHostVars
    BY <2>1, HostQuiet DEF agentHostVars, storeVars, publisherVars, historyVars
  <2> QED BY <2>1, AgentTaskStepKeeps, RelayStepKeeps, PanelStopKeeps, HistoryStepKeeps, SessionStepKeeps,
             RemediationStepKeeps, FlushKeeps DEF HostNext
<1>3. HostInv => HostKeepsFaith
  BY HostInvSuffices
<1> QED BY <1>1, <1>2, <1>3, PTL DEF HostSpec

-----------------------------------------------------------------------------
(* The evidence of a session.  What a log restores, and which mutations a  *)
(* branch holds, is computed by recursion on its length; each recursion    *)
(* has one solution, found by the least length at which it would fail.     *)

Receipt ==
  [kind : {"mutation"}, id : WriteCall] \cup
  [kind : {"nudged", "acknowledged"}, asked : SUBSET WriteCall, through : WriteCall]

\* The stores restored from the first n entries of a log.
Stores(f, id, log, n) ==
  f = [k \in 0..n |->
         IF k = 0 THEN EmptyChanges
         ELSE IF log[k].session = id THEN Taken(f[k - 1], log[k].evidence) ELSE f[k - 1]]

\* Two sequences begin with the same n entries.
Alike(s, t, n) == \A k \in 1..n : s[k] = t[k]

\* The mutations among the first n receipts of a branch.
Founds(f, b, n) ==
  f = [k \in 0..n |->
         IF k = 0 THEN <<>>
         ELSE IF b[k].kind = "mutation" THEN Append(f[k - 1], b[k]) ELSE f[k - 1]]

\* The restoring of n entries extends to one more.
LEMMA StoresMore ==
  ASSUME NEW id, NEW log, NEW n \in Nat, NEW g, Stores(g, id, log, n)
  PROVE  \E f : Stores(f, id, log, n + 1)
<1> DEFINE f == [k \in 0..n + 1 |-> IF k <= n THEN g[k]
                                    ELSE IF log[k].session = id THEN Taken(g[k - 1], log[k].evidence) ELSE g[k - 1]]
           h == [k \in 0..n + 1 |-> IF k = 0 THEN EmptyChanges
                                    ELSE IF log[k].session = id THEN Taken(f[k - 1], log[k].evidence) ELSE f[k - 1]]
<1>1. \A k \in 0..n : g[k] = IF k = 0 THEN EmptyChanges
                            ELSE IF log[k].session = id THEN Taken(g[k - 1], log[k].evidence) ELSE g[k - 1]
  BY DEF Stores
<1>2. ASSUME NEW k \in 0..n + 1 PROVE f[k] = h[k]
  <2>1. CASE k <= n
    <3>1. f[k] = g[k] /\ (k # 0 => k - 1 \in 0..n + 1 /\ k - 1 <= n)
      BY <2>1
    <3>2. k # 0 => f[k - 1] = g[k - 1]
      BY <3>1
    <3> QED BY <2>1, <3>1, <3>2, <1>1
  <2>2. CASE ~(k <= n)
    <3>1. k - 1 \in 0..n + 1 /\ k - 1 <= n /\ k # 0
      BY <2>2
    <3>2. f[k - 1] = g[k - 1]
      BY <3>1
    <3> QED BY <2>2, <3>1, <3>2
  <2> QED BY <2>1, <2>2
<1>3. f = h
  BY <1>2
<1>4. Stores(f, id, log, n + 1)
  BY <1>3 DEF Stores
<1> QED BY <1>4

\* The recursion of Restored has a solution for every length ...
LEMMA StoresSome ==
  ASSUME NEW id, NEW log, NEW n \in Nat
  PROVE  \E f : Stores(f, id, log, n)
<1> DEFINE Bad == {k \in Nat : ~\E f : Stores(f, id, log, k)}
<1>1. SUFFICES ASSUME Bad # {} PROVE FALSE
  OBVIOUS
<1>2. PICK m \in Bad : \A k \in Bad : m <= k
  BY <1>1, LeastNumber
<1>3. CASE m = 0
  <2> DEFINE f == [k \in 0..0 |-> EmptyChanges]
  <2>1. f = [k \in 0..0 |-> IF k = 0 THEN EmptyChanges
                            ELSE IF log[k].session = id THEN Taken(f[k - 1], log[k].evidence) ELSE f[k - 1]]
    OBVIOUS
  <2>2. Stores(f, id, log, 0)
    BY <2>1 DEF Stores
  <2> QED BY <1>3, <2>2
<1>4. CASE m # 0
  <2>1. m - 1 \in Nat /\ ~(m <= m - 1) /\ m - 1 + 1 = m
    BY <1>4
  <2>2. PICK g : Stores(g, id, log, m - 1)
    BY <1>2, <2>1
  <2>3. \E f : Stores(f, id, log, m - 1 + 1)
    BY <2>1, <2>2, StoresMore
  <2> QED BY <1>2, <2>1, <2>3
<1> QED BY <1>3, <1>4

\* ... and Restored is its last value.
LEMMA RestoredIs ==
  ASSUME NEW id, NEW log, Len(log) \in Nat
  PROVE  \E f : Stores(f, id, log, Len(log)) /\ Restored(id, log) = f[Len(log)]
<1> DEFINE f == CHOOSE g : Stores(g, id, log, Len(log))
<1>1. Stores(f, id, log, Len(log))
  BY StoresSome
<1>2. Restored(id, log) = f[Len(log)]
  BY DEF Restored, Stores
<1> QED BY <1>1, <1>2

\* Two logs that begin alike restore alike.
LEMMA StoresAgree ==
  ASSUME NEW id, NEW log, NEW log2, NEW n \in Nat, NEW m \in Nat, n <= m, Alike(log, log2, n),
         NEW f, NEW g, Stores(f, id, log, n), Stores(g, id, log2, m)
  PROVE  \A k \in 0..n : f[k] = g[k]
<1> DEFINE Bad == {k \in 0..n : f[k] # g[k]}
<1>1. SUFFICES ASSUME Bad # {} PROVE FALSE
  OBVIOUS
<1>b. Bad \in SUBSET Nat
  OBVIOUS
<1>2. PICK x \in Bad : \A k \in Bad : x <= k
  BY <1>1, <1>b, LeastNumber
<1>3. x \in 0..n /\ x \in 0..m /\ f[x] # g[x]
  BY <1>2
<1>4. CASE x = 0
  BY <1>3, <1>4 DEF Stores
<1>5. CASE x # 0
  <2>1. x - 1 \in 0..n /\ ~(x <= x - 1) /\ x \in 1..n
    BY <1>3, <1>5
  <2>2. f[x - 1] = g[x - 1]
    BY <2>1, <1>2
  <2>3. log[x] = log2[x]
    BY <2>1 DEF Alike
  <2>4. f[x] = IF log[x].session = id THEN Taken(f[x - 1], log[x].evidence) ELSE f[x - 1]
    BY <1>3, <1>5 DEF Stores
  <2>5. g[x] = IF log2[x].session = id THEN Taken(g[x - 1], log2[x].evidence) ELSE g[x - 1]
    BY <1>3, <1>5 DEF Stores
  <2> QED BY <2>2, <2>3, <2>4, <2>5, <1>3
<1> QED BY <1>4, <1>5

\* Nothing is restored from an empty log ...
LEMMA RestoredEmpty ==
  ASSUME NEW id
  PROVE  Restored(id, <<>>) = EmptyChanges
<1>1. Len(<<>>) = 0
  OBVIOUS
<1>2. PICK h : Stores(h, id, <<>>, 0) /\ Restored(id, <<>>) = h[0]
  BY <1>1, RestoredIs
<1> QED BY <1>2 DEF Stores

\* ... and one more entry is taken in last.
LEMMA RestoredAppended ==
  ASSUME NEW id, NEW E, NEW log \in Seq(E), NEW e \in E
  PROVE  Restored(id, Append(log, e)) =
              IF e.session = id THEN Taken(Restored(id, log), e.evidence) ELSE Restored(id, log)
<1> DEFINE n == Len(log)
           log2 == Append(log, e)
<1>1. n \in Nat /\ Len(log2) = n + 1 /\ log2[n + 1] = e /\ \A k \in 1..n : log[k] = log2[k]
  OBVIOUS
<1>2. PICK f : Stores(f, id, log, n) /\ Restored(id, log) = f[n]
  BY <1>1, RestoredIs
<1> HIDE DEF log2, n
<1>3. PICK g : Stores(g, id, log2, n + 1) /\ Restored(id, log2) = g[n + 1]
  <2>1. Len(log2) \in Nat
    BY <1>1
  <2>2. PICK g : Stores(g, id, log2, Len(log2)) /\ Restored(id, log2) = g[Len(log2)]
    BY <2>1, RestoredIs
  <2>3. Stores(g, id, log2, n + 1) /\ Restored(id, log2) = g[n + 1]
    BY <2>2, <1>1
  <2> QED BY <2>3
<1>4. f[n] = g[n]
  <2>0. n \in Nat /\ n + 1 \in Nat /\ n <= n + 1 /\ Alike(log, log2, n)
    BY <1>1 DEF Alike
  <2>1. \A k \in 0..n : f[k] = g[k]
    BY <2>0, <1>2, <1>3, StoresAgree
  <2> QED BY <2>1, <1>1
<1>5. g[n + 1] = IF e.session = id THEN Taken(g[n], e.evidence) ELSE g[n]
  <2>1. n + 1 \in 0..(n + 1) /\ n + 1 # 0 /\ n + 1 - 1 = n
    BY <1>1
  <2>2. \A k \in 0..(n + 1) : k # 0 => g[k] = IF log2[k].session = id THEN Taken(g[k - 1], log2[k].evidence) ELSE g[k - 1]
    BY <1>3 DEF Stores
  <2> QED BY <2>1, <2>2, <1>1
<1> QED BY <1>2, <1>3, <1>4, <1>5 DEF log2, n

\* The search of n receipts extends to one more.
LEMMA FoundsMore ==
  ASSUME NEW b, NEW n \in Nat, NEW g, Founds(g, b, n)
  PROVE  \E f : Founds(f, b, n + 1)
<1> DEFINE f == [k \in 0..n + 1 |-> IF k <= n THEN g[k]
                                    ELSE IF b[k].kind = "mutation" THEN Append(g[k - 1], b[k]) ELSE g[k - 1]]
           h == [k \in 0..n + 1 |-> IF k = 0 THEN <<>>
                                    ELSE IF b[k].kind = "mutation" THEN Append(f[k - 1], b[k]) ELSE f[k - 1]]
<1>1. \A k \in 0..n : g[k] = IF k = 0 THEN <<>>
                            ELSE IF b[k].kind = "mutation" THEN Append(g[k - 1], b[k]) ELSE g[k - 1]
  BY DEF Founds
<1>2. ASSUME NEW k \in 0..n + 1 PROVE f[k] = h[k]
  <2>1. CASE k <= n
    <3>1. f[k] = g[k] /\ (k # 0 => k - 1 \in 0..n + 1 /\ k - 1 <= n)
      BY <2>1
    <3>2. k # 0 => f[k - 1] = g[k - 1]
      BY <3>1
    <3> QED BY <2>1, <3>1, <3>2, <1>1
  <2>2. CASE ~(k <= n)
    <3>1. k - 1 \in 0..n + 1 /\ k - 1 <= n /\ k # 0
      BY <2>2
    <3>2. f[k - 1] = g[k - 1]
      BY <3>1
    <3> QED BY <2>2, <3>1, <3>2
  <2> QED BY <2>1, <2>2
<1>3. f = h
  BY <1>2
<1>4. Founds(f, b, n + 1)
  BY <1>3 DEF Founds
<1> QED BY <1>4

\* The recursion of Mutations has a solution for every length ...
LEMMA FoundsSome ==
  ASSUME NEW b, NEW n \in Nat
  PROVE  \E f : Founds(f, b, n)
<1> DEFINE Bad == {k \in Nat : ~\E f : Founds(f, b, k)}
<1>1. SUFFICES ASSUME Bad # {} PROVE FALSE
  OBVIOUS
<1>2. PICK m \in Bad : \A k \in Bad : m <= k
  BY <1>1, LeastNumber
<1>3. CASE m = 0
  <2> DEFINE f == [k \in 0..0 |-> <<>>]
  <2>1. f = [k \in 0..0 |-> IF k = 0 THEN <<>>
                            ELSE IF b[k].kind = "mutation" THEN Append(f[k - 1], b[k]) ELSE f[k - 1]]
    OBVIOUS
  <2>2. Founds(f, b, 0)
    BY <2>1 DEF Founds
  <2> QED BY <1>3, <2>2
<1>4. CASE m # 0
  <2>1. m - 1 \in Nat /\ ~(m <= m - 1) /\ m - 1 + 1 = m
    BY <1>4
  <2>2. PICK g : Founds(g, b, m - 1)
    BY <1>2, <2>1
  <2>3. \E f : Founds(f, b, m - 1 + 1)
    BY <2>1, <2>2, FoundsMore
  <2> QED BY <1>2, <2>1, <2>3
<1> QED BY <1>3, <1>4

\* ... and Mutations is its last value.
LEMMA MutationsIs ==
  ASSUME NEW b, Len(b) \in Nat
  PROVE  \E f : Founds(f, b, Len(b)) /\ Mutations(b) = f[Len(b)]
<1> DEFINE f == CHOOSE g : Founds(g, b, Len(b))
<1>1. Founds(f, b, Len(b))
  BY FoundsSome
<1>2. Mutations(b) = f[Len(b)]
  BY DEF Mutations, Founds
<1> QED BY <1>1, <1>2

\* Two branches that begin alike hold the same first mutations.
LEMMA FoundsAgree ==
  ASSUME NEW b, NEW b2, NEW n \in Nat, NEW m \in Nat, n <= m, Alike(b, b2, n),
         NEW f, NEW g, Founds(f, b, n), Founds(g, b2, m)
  PROVE  \A k \in 0..n : f[k] = g[k]
<1> DEFINE Bad == {k \in 0..n : f[k] # g[k]}
<1>1. SUFFICES ASSUME Bad # {} PROVE FALSE
  OBVIOUS
<1>b. Bad \in SUBSET Nat
  OBVIOUS
<1>2. PICK x \in Bad : \A k \in Bad : x <= k
  BY <1>1, <1>b, LeastNumber
<1>3. x \in 0..n /\ x \in 0..m /\ f[x] # g[x]
  BY <1>2
<1>4. CASE x = 0
  BY <1>3, <1>4 DEF Founds
<1>5. CASE x # 0
  <2>1. x - 1 \in 0..n /\ ~(x <= x - 1) /\ x \in 1..n
    BY <1>3, <1>5
  <2>2. f[x - 1] = g[x - 1]
    BY <2>1, <1>2
  <2>3. b[x] = b2[x]
    BY <2>1 DEF Alike
  <2>4. f[x] = IF b[x].kind = "mutation" THEN Append(f[x - 1], b[x]) ELSE f[x - 1]
    BY <1>3, <1>5 DEF Founds
  <2>5. g[x] = IF b2[x].kind = "mutation" THEN Append(g[x - 1], b2[x]) ELSE g[x - 1]
    BY <1>3, <1>5 DEF Founds
  <2> QED BY <2>2, <2>3, <2>4, <2>5, <1>3
<1> QED BY <1>4, <1>5

\* What a branch holds, entry by entry: a mutation record per mutation.
MutationRecord == [kind : {"mutation"}, id : WriteCall]

\* A receipt of that kind is such a record.
LEMMA ReceiptKinds ==
  ASSUME NEW r \in Receipt, r.kind = "mutation"
  PROVE  r \in MutationRecord
BY DEF Receipt, MutationRecord

\* Every prefix holds a sequence of mutations.
LEMMA FoundsType ==
  ASSUME NEW b \in Seq(Receipt), NEW n \in 0..Len(b), NEW f, Founds(f, b, Len(b))
  PROVE  f[n] \in Seq(MutationRecord)
<1> DEFINE Bad == {k \in 0..Len(b) : f[k] \notin Seq(MutationRecord)}
<1>1. SUFFICES ASSUME Bad # {} PROVE FALSE
  OBVIOUS
<1>b. Bad \in SUBSET Nat
  OBVIOUS
<1>2. PICK x \in Bad : \A k \in Bad : x <= k
  BY <1>1, <1>b, LeastNumber
<1>3. x \in 0..Len(b) /\ f[x] \notin Seq(MutationRecord)
  BY <1>2
<1>4. CASE x = 0
  <2>1. f[0] = <<>>
    BY <1>3, <1>4 DEF Founds
  <2>2. <<>> \in Seq(MutationRecord)
    OBVIOUS
  <2>3. f[x] = <<>>
    BY <2>1, <1>4
  <2> QED BY <2>2, <2>3, <1>3
<1>5. CASE x # 0
  <2>1. x - 1 \in 0..Len(b) /\ ~(x <= x - 1) /\ x \in 1..Len(b)
    BY <1>3, <1>5
  <2>2. f[x - 1] \in Seq(MutationRecord)
    BY <2>1, <1>2
  <2>3. f[x] = IF b[x].kind = "mutation" THEN Append(f[x - 1], b[x]) ELSE f[x - 1]
    BY <1>3, <1>5 DEF Founds
  <2>4. b[x] \in Receipt
    BY <2>1
  <2>5. b[x].kind = "mutation" => b[x] \in MutationRecord
    BY <2>4, ReceiptKinds
  <2> QED BY <2>2, <2>3, <2>5, <1>3
<1> QED BY <1>4, <1>5

\* s is how t begins.
Begins(s, t) == Len(s) <= Len(t) /\ \A i \in 1..Len(s) : s[i] = t[i]

\* A longer sequence begins as before.
LEMMA BeginsAppended ==
  ASSUME NEW D, NEW s \in Seq(D), NEW t \in Seq(D), NEW e \in D, Begins(s, t)
  PROVE  Begins(s, Append(t, e))
BY DEF Begins

\* A shorter prefix holds the first mutations of a longer one.
LEMMA FoundsGrow ==
  ASSUME NEW b \in Seq(Receipt), NEW n \in 0..Len(b), NEW f, Founds(f, b, Len(b)), NEW m \in n..Len(b)
  PROVE  Begins(f[n], f[m])
<1> DEFINE Bad == {k \in n..Len(b) : ~Begins(f[n], f[k])}
<1>1. SUFFICES ASSUME Bad # {} PROVE FALSE
  OBVIOUS
<1>b. Bad \in SUBSET Nat
  OBVIOUS
<1>2. PICK x \in Bad : \A k \in Bad : x <= k
  BY <1>1, <1>b, LeastNumber
<1>3. x \in n..Len(b) /\ ~Begins(f[n], f[x]) /\ x \in 0..Len(b) /\ n \in Nat /\ x \in Nat
  BY <1>2
<1>t. \A k \in 0..Len(b) : f[k] \in Seq(MutationRecord)
  BY FoundsType
<1>4. CASE x = n
  <2>1. Len(f[n]) \in Nat
    BY <1>t
  <2> QED BY <2>1, <1>3, <1>4 DEF Begins
<1>5. CASE x # n
  <2>1. x - 1 \in n..Len(b) /\ ~(x <= x - 1) /\ x \in 1..Len(b) /\ x # 0 /\ x - 1 \in 0..Len(b)
    BY <1>3, <1>5
  <2>2. Begins(f[n], f[x - 1])
    BY <2>1, <1>2
  <2>3. f[x] = IF b[x].kind = "mutation" THEN Append(f[x - 1], b[x]) ELSE f[x - 1]
    BY <1>3, <2>1 DEF Founds
  <2>4. b[x] \in Receipt
    BY <2>1
  <2>5. b[x].kind = "mutation" => b[x] \in MutationRecord
    BY <2>4, ReceiptKinds
  <2>6. f[n] \in Seq(MutationRecord) /\ f[x - 1] \in Seq(MutationRecord)
    BY <1>t, <2>1
  <2>7. b[x].kind = "mutation" => Begins(f[n], Append(f[x - 1], b[x]))
    BY <2>2, <2>5, <2>6, BeginsAppended
  <2> QED BY <2>2, <2>3, <2>7, <1>3
<1> QED BY <1>4, <1>5

\* The mutations of a branch are mutations.
LEMMA MutationsType ==
  ASSUME NEW b \in Seq(Receipt)
  PROVE  Mutations(b) \in Seq(MutationRecord)
<1>1. PICK f : Founds(f, b, Len(b)) /\ Mutations(b) = f[Len(b)]
  BY MutationsIs
<1> QED BY <1>1, FoundsType

\* An empty branch holds none ...
LEMMA MutationsEmpty == Mutations(<<>>) = <<>>
<1>1. Len(<<>>) = 0
  OBVIOUS
<1>2. PICK h : Founds(h, <<>>, 0) /\ Mutations(<<>>) = h[0]
  BY <1>1, MutationsIs
<1> QED BY <1>2 DEF Founds

\* ... one more receipt adds itself or none ...
LEMMA MutationsAppended ==
  ASSUME NEW b \in Seq(Receipt), NEW r \in Receipt
  PROVE  Mutations(Append(b, r)) = IF r.kind = "mutation" THEN Append(Mutations(b), r) ELSE Mutations(b)
<1> DEFINE n == Len(b)
           b2 == Append(b, r)
<1>1. n \in Nat /\ Len(b2) = n + 1 /\ b2[n + 1] = r /\ \A k \in 1..n : b[k] = b2[k]
  OBVIOUS
<1>2. PICK f : Founds(f, b, n) /\ Mutations(b) = f[n]
  BY <1>1, MutationsIs
<1> HIDE DEF b2, n
<1>3. PICK g : Founds(g, b2, n + 1) /\ Mutations(b2) = g[n + 1]
  <2>1. Len(b2) \in Nat
    BY <1>1
  <2>2. PICK g : Founds(g, b2, Len(b2)) /\ Mutations(b2) = g[Len(b2)]
    BY <2>1, MutationsIs
  <2>3. Founds(g, b2, n + 1) /\ Mutations(b2) = g[n + 1]
    BY <2>2, <1>1
  <2> QED BY <2>3
<1>4. f[n] = g[n]
  <2>0. n \in Nat /\ n + 1 \in Nat /\ n <= n + 1 /\ Alike(b, b2, n)
    BY <1>1 DEF Alike
  <2>1. \A k \in 0..n : f[k] = g[k]
    BY <2>0, <1>2, <1>3, FoundsAgree
  <2> QED BY <2>1, <1>1
<1>5. g[n + 1] = IF r.kind = "mutation" THEN Append(g[n], r) ELSE g[n]
  <2>1. n + 1 \in 0..(n + 1) /\ n + 1 # 0 /\ n + 1 - 1 = n
    BY <1>1
  <2>2. \A k \in 0..(n + 1) : k # 0 => g[k] = IF b2[k].kind = "mutation" THEN Append(g[k - 1], b2[k]) ELSE g[k - 1]
    BY <1>3 DEF Founds
  <2> QED BY <2>1, <2>2, <1>1
<1> QED BY <1>2, <1>3, <1>4, <1>5 DEF b2, n

\* ... and a branch that was cut keeps the first of them.
LEMMA MutationsCut ==
  ASSUME NEW b \in Seq(Receipt), NEW n \in 0..Len(b)
  PROVE  SubSeq(b, 1, n) \in Seq(Receipt) /\ Begins(Mutations(SubSeq(b, 1, n)), Mutations(b))
<1> DEFINE c == SubSeq(b, 1, n)
<1>1. c \in Seq(Receipt) /\ Len(c) = n /\ \A k \in 1..n : c[k] = b[k]
  OBVIOUS
<1> HIDE DEF c
<1>2. PICK f : Founds(f, b, Len(b)) /\ Mutations(b) = f[Len(b)]
  BY MutationsIs
<1>3. PICK g : Founds(g, c, n) /\ Mutations(c) = g[n]
  BY <1>1, MutationsIs
<1>4. Len(b) \in Nat /\ n \in Nat /\ n <= Len(b) /\ n \in 0..n /\ Alike(c, b, n) /\ Len(b) \in n..Len(b)
  BY <1>1 DEF Alike
<1>5. g[n] = f[n]
  BY <1>2, <1>3, <1>4, FoundsAgree
<1>6. Begins(f[n], f[Len(b)])
  BY <1>2, <1>4, FoundsGrow
<1> QED BY <1>1, <1>2, <1>3, <1>5, <1>6 DEF c

\* The calls whose mutation a branch holds, those up to the mutation of m, and
\* that no call is there twice.
Ids(b) == {Mutations(b)[i].id : i \in DOMAIN Mutations(b)}
UpTo(b, m) == {Mutations(b)[i].id : i \in 1..IndexOf(b, m)}
Once(b) == \A i, j \in DOMAIN Mutations(b) : Mutations(b)[i].id = Mutations(b)[j].id => i = j

\* Where a mutation stands among those of its branch.
LEMMA IndexIs ==
  ASSUME NEW b \in Seq(Receipt), NEW m
  PROVE  /\ IndexOf(b, m) \in 0..Len(Mutations(b)) /\ IndexOf(b, m) \in Nat /\ Len(Mutations(b)) \in Nat
         /\ m \in Ids(b) => IndexOf(b, m) # 0 /\ Mutations(b)[IndexOf(b, m)].id = m
         /\ m \notin Ids(b) => IndexOf(b, m) = 0
         /\ Ids(b) \subseteq WriteCall
<1> DEFINE ms == Mutations(b)
<1>1. ms \in Seq(MutationRecord) /\ Len(ms) \in Nat /\ DOMAIN ms = 1..Len(ms)
  BY MutationsType
<1>2. Ids(b) = {ms[i].id : i \in DOMAIN ms}
  BY DEF Ids
<1>3. IndexOf(b, m) = IF \E i \in DOMAIN ms : ms[i].id = m THEN CHOOSE i \in DOMAIN ms : ms[i].id = m ELSE 0
  BY DEF IndexOf
<1> HIDE DEF ms
<1>4. ASSUME NEW i \in DOMAIN ms PROVE ms[i].id \in WriteCall
  <2>1. ms[i] \in MutationRecord
    BY <1>1
  <2> QED BY <2>1 DEF MutationRecord
<1>5. CASE \E i \in DOMAIN ms : ms[i].id = m
  <2>1. IndexOf(b, m) \in DOMAIN ms /\ ms[IndexOf(b, m)].id = m
    BY <1>3, <1>5
  <2> QED BY <2>1, <1>1, <1>2, <1>4 DEF ms
<1>6. CASE ~\E i \in DOMAIN ms : ms[i].id = m
  BY <1>6, <1>1, <1>2, <1>3, <1>4 DEF ms
<1> QED BY <1>5, <1>6

\* A watermark is a number: the greatest of finitely many positions.
LEMMA ConsumedIsNat ==
  ASSUME NEW b \in Seq(Receipt)
  PROVE  Consumed(b) \in Nat
<1> DEFINE marks == {k \in DOMAIN b : b[k].kind # "mutation"}
           upTo == {IndexOf(SubSeq(b, 1, k), b[k].through) : k \in marks}
           n == Len(Mutations(b))
<1>1. n \in Nat
  BY MutationsType
<1>2. Consumed(b) = IF upTo = {} THEN 0 ELSE Max(upTo)
  BY DEF Consumed
<1>3. \A y \in upTo : y \in Nat /\ y <= n
  <2> SUFFICES ASSUME NEW k \in DOMAIN b PROVE IndexOf(SubSeq(b, 1, k), b[k].through) \in Nat /\ IndexOf(SubSeq(b, 1, k), b[k].through) <= n
    OBVIOUS
  <2> DEFINE c == SubSeq(b, 1, k)
  <2>1. k \in 0..Len(b)
    OBVIOUS
  <2>2. c \in Seq(Receipt) /\ Begins(Mutations(c), Mutations(b))
    BY <2>1, MutationsCut
  <2> HIDE DEF c
  <2>3. IndexOf(c, b[k].through) \in 0..Len(Mutations(c)) /\ IndexOf(c, b[k].through) \in Nat /\ Len(Mutations(c)) \in Nat
    BY <2>2, IndexIs
  <2>4. Len(Mutations(c)) <= n
    BY <2>2 DEF Begins
  <2>5. IndexOf(c, b[k].through) <= n
    BY <2>3, <2>4, <1>1
  <2> QED BY <2>3, <2>5 DEF c
<1> HIDE DEF upTo, n
<1>4. CASE upTo # {}
  <2> DEFINE T == {j \in Nat : \A y \in upTo : y <= j}
  <2>1. T # {} /\ T \in SUBSET Nat
    BY <1>1, <1>3
  <2>2. PICK x \in T : \A j \in T : x <= j
    BY <2>1, LeastNumber
  <2>3. x \in upTo
    <3>1. CASE x = 0
      <4>1. PICK y \in upTo : TRUE
        BY <1>4
      <4>2. y \in Nat /\ y <= x
        BY <2>2, <4>1, <1>3
      <4> QED BY <4>1, <4>2, <3>1
    <3>2. CASE x # 0
      <4>1. x - 1 \in Nat /\ x - 1 \notin T
        BY <2>2, <3>2
      <4>2. PICK y \in upTo : ~(y <= x - 1)
        BY <4>1
      <4>3. y \in Nat /\ y <= x
        BY <2>2, <1>3
      <4>4. y = x
        BY <4>2, <4>3, <2>2
      <4> QED BY <4>4
    <3> QED BY <3>1, <3>2
  <2>4. \A y \in upTo : x >= y
    BY <2>2, <1>3
  <2>5. Max(upTo) \in upTo
    BY <2>3, <2>4 DEF Max
  <2> QED BY <2>5, <1>2, <1>3, <1>4
<1> QED BY <1>2, <1>4

\* pendingReviewMutation names a mutation of the branch, or none.
LEMMA PendingIsThere ==
  ASSUME NEW b \in Seq(Receipt)
  PROVE  Pending(b) \subseteq Ids(b)
<1> DEFINE ms == Mutations(b)
<1>1. Consumed(b) \in Nat /\ Len(ms) \in Nat /\ DOMAIN ms = 1..Len(ms)
  BY ConsumedIsNat, MutationsType
<1>2. Len(ms) > Consumed(b) => Len(ms) \in DOMAIN ms
  BY <1>1
<1>3. Pending(b) = IF Len(ms) > Consumed(b) THEN {ms[Len(ms)].id} ELSE {}
  BY DEF Pending
<1>4. Ids(b) = {ms[i].id : i \in DOMAIN ms}
  BY DEF Ids
<1> QED BY <1>2, <1>3, <1>4

\* What stays of the mutations up to m when the branch is cut ...
LEMMA CutKeeps ==
  ASSUME NEW b \in Seq(Receipt), NEW n \in 0..Len(b), Once(b)
  PROVE  /\ SubSeq(b, 1, n) \in Seq(Receipt)
         /\ Once(SubSeq(b, 1, n)) /\ Ids(SubSeq(b, 1, n)) \subseteq Ids(b)
         /\ \A m : UpTo(SubSeq(b, 1, n), m) \subseteq UpTo(b, m)
<1> DEFINE c == SubSeq(b, 1, n)
<1>1. c \in Seq(Receipt) /\ Begins(Mutations(c), Mutations(b))
  BY MutationsCut
<1> HIDE DEF c
<1> DEFINE ms == Mutations(b)
           mc == Mutations(c)
<1>2. /\ ms \in Seq(MutationRecord) /\ Len(ms) \in Nat /\ DOMAIN ms = 1..Len(ms)
      /\ mc \in Seq(MutationRecord) /\ Len(mc) \in Nat /\ DOMAIN mc = 1..Len(mc)
  BY <1>1, MutationsType
<1>3. Len(mc) <= Len(ms) /\ \A i \in 1..Len(mc) : mc[i] = ms[i]
  BY <1>1 DEF Begins
<1>4. \A i \in DOMAIN mc : i \in DOMAIN ms /\ mc[i] = ms[i]
  BY <1>2, <1>3
<1>5. \A i, j \in DOMAIN ms : ms[i].id = ms[j].id => i = j
  BY DEF Once
<1>6. Ids(b) = {ms[i].id : i \in DOMAIN ms} /\ Ids(c) = {mc[i].id : i \in DOMAIN mc}
  BY DEF Ids
<1>7. Once(c)
  BY <1>4, <1>5 DEF Once
<1>8. ASSUME NEW m PROVE UpTo(c, m) \subseteq UpTo(b, m)
  <2> DEFINE x == IndexOf(c, m)
             y == IndexOf(b, m)
  <2>1. x \in 0..Len(mc) /\ y \in 0..Len(ms)
    BY <1>1, IndexIs
  <2>2. m \in Ids(c) => x # 0 /\ mc[x].id = m /\ m \in Ids(b) /\ y # 0 /\ ms[y].id = m
    BY <1>1, <1>4, <1>6, IndexIs
  <2>3. m \notin Ids(c) => x = 0
    BY <1>1, IndexIs
  <2>4. UpTo(c, m) = {mc[i].id : i \in 1..x} /\ UpTo(b, m) = {ms[i].id : i \in 1..y}
    BY DEF UpTo
  <2> HIDE DEF x, y, ms, mc
  <2>5. CASE m \in Ids(c)
    <3>1. x \in DOMAIN ms /\ y \in DOMAIN ms /\ ms[x].id = ms[y].id
      BY <2>1, <2>2, <2>5, <1>2, <1>4
    <3>2. x = y
      BY <3>1, <1>5
    <3>3. \A i \in 1..x : i \in DOMAIN mc
      BY <2>1, <1>2
    <3> QED BY <3>2, <3>3, <2>4, <1>4
  <2>6. CASE m \notin Ids(c)
    <3>1. 1..x = {}
      BY <2>3, <2>6
    <3> QED BY <3>1, <2>4
  <2> QED BY <2>5, <2>6
<1>9. Ids(c) \subseteq Ids(b)
  BY <1>4, <1>6
<1> QED BY <1>1, <1>7, <1>8, <1>9 DEF c

\* ... and when a receipt is appended that is not the mutation of m.
LEMMA AppendKeeps ==
  ASSUME NEW b \in Seq(Receipt), NEW r \in Receipt, Once(b), r.kind = "mutation" => r.id \notin Ids(b)
  PROVE  /\ Append(b, r) \in Seq(Receipt)
         /\ Once(Append(b, r))
         /\ Ids(Append(b, r)) = IF r.kind = "mutation" THEN Ids(b) \cup {r.id} ELSE Ids(b)
         /\ \A m : (r.kind = "mutation" => r.id # m) => UpTo(Append(b, r), m) \subseteq UpTo(b, m)
<1> DEFINE c == Append(b, r)
           ms == Mutations(b)
           mc == Mutations(c)
<1>1. c \in Seq(Receipt)
  OBVIOUS
<1>2. mc = IF r.kind = "mutation" THEN Append(ms, r) ELSE ms
  BY MutationsAppended
<1> HIDE DEF c
<1>3. ms \in Seq(MutationRecord) /\ Len(ms) \in Nat /\ DOMAIN ms = 1..Len(ms)
  BY MutationsType
<1>5. \A i, j \in DOMAIN ms : ms[i].id = ms[j].id => i = j
  BY DEF Once
<1>6. Ids(b) = {ms[i].id : i \in DOMAIN ms} /\ Ids(c) = {mc[i].id : i \in DOMAIN mc}
  BY DEF Ids
<1>7. CASE r.kind # "mutation"
  <2>1. mc = ms
    BY <1>2, <1>7
  <2>2. \A m : IndexOf(c, m) = IndexOf(b, m)
    BY <2>1 DEF IndexOf
  <2>3. \A m : UpTo(c, m) = UpTo(b, m)
    BY <2>1, <2>2 DEF UpTo
  <2>4. Once(c)
    BY <2>1, <1>5 DEF Once
  <2> QED BY <2>1, <2>3, <2>4, <1>1, <1>6, <1>7 DEF c
<1>8. CASE r.kind = "mutation"
  <2> DEFINE n == Len(ms)
  <2>1. r \in MutationRecord /\ r.id \notin Ids(b)
    BY <1>8, ReceiptKinds
  <2>2. Len(mc) = n + 1 /\ mc[n + 1] = r /\ DOMAIN mc = 1..(n + 1) /\ \A i \in 1..n : mc[i] = ms[i]
    BY <2>1, <1>2, <1>3, <1>8
  <2> HIDE DEF ms, mc, n
  <2>3. n \in Nat /\ DOMAIN ms = 1..n
    BY <1>3 DEF n
  <2>4. \A i \in DOMAIN mc : \/ i \in DOMAIN ms /\ mc[i] = ms[i] /\ mc[i].id \in Ids(b)
                             \/ i = n + 1 /\ mc[i] = r
    BY <2>2, <2>3, <1>6
  <2>5. \A i, j \in DOMAIN mc : mc[i].id = mc[j].id => i = j
    BY <2>1, <2>4, <1>5
  <2>6. Once(c)
    BY <2>5 DEF Once, mc
  <2>7. Ids(c) = Ids(b) \cup {r.id}
    BY <2>2, <2>3, <2>4, <1>6
  <2>8. ASSUME NEW m, r.id # m PROVE UpTo(c, m) \subseteq UpTo(b, m)
    <3> DEFINE x == IndexOf(c, m)
               y == IndexOf(b, m)
    <3>1. x \in 0..Len(mc) /\ y \in 0..Len(ms)
      BY <1>1, IndexIs DEF ms, mc
    <3>2. m \in Ids(c) => x # 0 /\ mc[x].id = m
      BY <1>1, IndexIs DEF mc
    <3>3. m \in Ids(b) => y # 0 /\ ms[y].id = m
      BY IndexIs DEF ms
    <3>4. m \notin Ids(c) => x = 0
      BY <1>1, IndexIs
    <3>5. UpTo(c, m) = {mc[i].id : i \in 1..x} /\ UpTo(b, m) = {ms[i].id : i \in 1..y}
      BY DEF UpTo, ms, mc
    <3> HIDE DEF x, y
    <3>6. CASE m \in Ids(c)
      <4>1. x \in DOMAIN mc /\ mc[x] # r /\ m \in Ids(b)
        BY <3>1, <3>2, <3>6, <2>2, <2>3, <2>7, <2>8
      <4>2. x \in DOMAIN ms /\ ms[x].id = m
        BY <4>1, <2>4, <3>2, <3>6
      <4>3. y \in DOMAIN ms /\ ms[y].id = m
        BY <4>1, <3>1, <3>3, <1>3 DEF n
      <4>4. x = y
        BY <4>2, <4>3, <1>5
      <4>5. \A i \in 1..x : i \in 1..n
        BY <4>2, <2>3
      <4> QED BY <4>4, <4>5, <3>5, <2>2
    <3>7. CASE m \notin Ids(c)
      <4>1. 1..x = {}
        BY <3>4, <3>7
      <4> QED BY <4>1, <3>5
    <3> QED BY <3>6, <3>7
  <2> QED BY <2>6, <2>7, <2>8, <1>1, <1>8 DEF c
<1> QED BY <1>7, <1>8

\* What RemindersAreExact asks of a receipt that follows the branch p.
Told(p, r) ==
  /\ r.kind = "nudged" => StillPending(p, r.through)
  /\ r.kind # "mutation" => UpTo(p, r.through) \subseteq r.asked

AllTold(b) == \A k \in DOMAIN b : Told(SubSeq(b, 1, k - 1), b[k])

\* A branch that is told throughout is what RemindersAreExact asks for.
LEMMA ToldIsExact ==
  ASSUME \A id \in SessionId : AllTold(branch[id])
  PROVE  RemindersAreExact
BY DEF AllTold, Told, UpTo, RemindersAreExact

\* A branch stays told when a told receipt is appended ...
LEMMA ToldAppended ==
  ASSUME NEW b \in Seq(Receipt), NEW r \in Receipt, AllTold(b), Told(b, r)
  PROVE  AllTold(Append(b, r))
<1> DEFINE c == Append(b, r)
           n == Len(b)
<1>1. n \in Nat /\ DOMAIN c = 1..(n + 1) /\ DOMAIN b = 1..n /\ c[n + 1] = r /\ \A k \in 1..n : c[k] = b[k]
  OBVIOUS
<1>2. ASSUME NEW k \in DOMAIN c PROVE SubSeq(c, 1, k - 1) = SubSeq(b, 1, k - 1)
  <2>1. k \in 1..(n + 1) /\ k - 1 \in 0..n
    BY <1>1
  <2>2. \A i \in 1..(k - 1) : c[i] = b[i]
    BY <2>1, <1>1
  <2> QED BY <2>1, <2>2, <1>1
<1>3. SubSeq(b, 1, n) = b
  OBVIOUS
<1> HIDE DEF c, n
<1>4. ASSUME NEW k \in DOMAIN c PROVE Told(SubSeq(c, 1, k - 1), c[k])
  <2>1. CASE k = n + 1
    <3>1. SubSeq(c, 1, k - 1) = b /\ c[k] = r
      BY <2>1, <1>1, <1>2, <1>3, <1>4
    <3> QED BY <3>1
  <2>2. CASE k # n + 1
    <3>1. k \in DOMAIN b /\ c[k] = b[k]
      BY <2>2, <1>1
    <3> QED BY <3>1, <1>2, <1>4 DEF AllTold
  <2> QED BY <2>1, <2>2
<1> QED BY <1>4 DEF AllTold, c

\* ... and when it is cut.
LEMMA ToldCut ==
  ASSUME NEW b \in Seq(Receipt), NEW n \in 0..Len(b), AllTold(b)
  PROVE  AllTold(SubSeq(b, 1, n))
<1> DEFINE c == SubSeq(b, 1, n)
<1>1. DOMAIN c = 1..n /\ \A k \in 1..n : c[k] = b[k] /\ k \in DOMAIN b
  OBVIOUS
<1>2. ASSUME NEW k \in DOMAIN c PROVE SubSeq(c, 1, k - 1) = SubSeq(b, 1, k - 1)
  <2>1. k \in 1..n /\ k - 1 \in 0..n
    BY <1>1
  <2>2. \A i \in 1..(k - 1) : c[i] = b[i]
    BY <2>1, <1>1
  <2> QED BY <2>1, <2>2
<1> HIDE DEF c
<1>3. ASSUME NEW k \in DOMAIN c PROVE Told(SubSeq(c, 1, k - 1), c[k])
  BY <1>1, <1>2, <1>3 DEF AllTold
<1> QED BY <1>3 DEF AllTold, c

-----------------------------------------------------------------------------
(* The store of session changes.                                           *)

EvidenceRecord == [id : WriteCall, before : Snapshots, after : Snapshots]
EntryRecord == [session : SessionId, evidence : EvidenceRecord]

IsStore(ch) == ch = [seen |-> ch.seen, file |-> ch.file, notice |-> ch.notice] /\ IsFiniteSet(ch.seen)

\* record(): seen, refused or taken in.
LEMMA TakenIs ==
  ASSUME NEW ch, IsStore(ch), NEW ev
  PROVE  /\ IsStore(Taken(ch, ev))
         /\ AlreadySeen(ch, ev) => Taken(ch, ev) = ch
         /\ Full(ch) => Taken(ch, ev).seen = ch.seen /\ Taken(ch, ev).file = ch.file
         /\ ~AlreadySeen(ch, ev) /\ ~Full(ch) =>
              /\ Taken(ch, ev).seen = ch.seen \cup {ev.id}
              /\ Taken(ch, ev).file = IF SameSnapshot(ev.before, ev.after) THEN ch.file ELSE FileAfter(ch.file, ev)
<1>1. ch = [seen |-> ch.seen, file |-> ch.file, notice |-> ch.notice] /\ IsFiniteSet(ch.seen)
  BY DEF IsStore
<1>2. CASE AlreadySeen(ch, ev)
  BY <1>2 DEF Taken, IsStore
<1>3. CASE ~AlreadySeen(ch, ev) /\ Full(ch)
  <2>1. Taken(ch, ev) = [ch EXCEPT !.notice = TRUE]
    BY <1>3 DEF Taken
  <2>2. Taken(ch, ev) = [seen |-> ch.seen, file |-> ch.file, notice |-> TRUE]
    BY <2>1, <1>1
  <2> QED BY <2>2, <1>1, <1>3 DEF IsStore
<1>4. CASE ~AlreadySeen(ch, ev) /\ ~Full(ch)
  <2> DEFINE s == ch.seen \cup {ev.id}
             f == IF SameSnapshot(ev.before, ev.after) THEN ch.file ELSE FileAfter(ch.file, ev)
  <2>1. Taken(ch, ev) = [ch EXCEPT !.seen = ch.seen \cup {ev.id},
                                   !.file = IF SameSnapshot(ev.before, ev.after) THEN ch.file ELSE FileAfter(ch.file, ev)]
    BY <1>4 DEF Taken
  <2>2. IsFiniteSet(s)
    BY <1>1, FS_AddElement
  <2> HIDE DEF s, f
  <2>3. Taken(ch, ev) = [ch EXCEPT !.seen = s, !.file = f]
    BY <2>1 DEF s, f
  <2>4. Taken(ch, ev) = [seen |-> s, file |-> f, notice |-> ch.notice]
    BY <2>3, <1>1
  <2> QED BY <2>2, <2>4, <1>4 DEF IsStore, s, f
<1> QED BY <1>2, <1>3, <1>4

\* The empty store is one.
LEMMA EmptyIsStore == IsStore(EmptyChanges)
BY FS_EmptySet DEF IsStore, EmptyChanges

\* Whatever the log, restore() gives a store.
LEMMA RestoredIsStore ==
  ASSUME NEW id, NEW log \in Seq(EntryRecord)
  PROVE  IsStore(Restored(id, log))
<1>1. PICK f : Stores(f, id, log, Len(log)) /\ Restored(id, log) = f[Len(log)]
  BY RestoredIs
<1> DEFINE Bad == {k \in 0..Len(log) : ~IsStore(f[k])}
<1>2. SUFFICES ASSUME Bad # {} PROVE FALSE
  BY <1>1
<1>b. Bad \in SUBSET Nat
  OBVIOUS
<1>3. PICK x \in Bad : \A k \in Bad : x <= k
  BY <1>2, <1>b, LeastNumber
<1>4. x \in 0..Len(log) /\ ~IsStore(f[x])
  BY <1>3
<1>5. CASE x = 0
  <2>1. f[x] = EmptyChanges
    BY <1>1, <1>4, <1>5 DEF Stores
  <2> QED BY <2>1, <1>4, EmptyIsStore
<1>6. CASE x # 0
  <2>1. x - 1 \in 0..Len(log) /\ ~(x <= x - 1)
    BY <1>4, <1>6
  <2>2. IsStore(f[x - 1])
    BY <2>1, <1>3
  <2>3. f[x] = IF log[x].session = id THEN Taken(f[x - 1], log[x].evidence) ELSE f[x - 1]
    BY <1>1, <1>4, <1>6 DEF Stores
  <2> QED BY <2>2, <2>3, <1>4, TakenIs
<1> QED BY <1>5, <1>6

\* The store in memory and the one the session file would restore.
Mirrors(ch, id, log) ==
  /\ IsStore(ch)
  /\ ch.file = Restored(id, log).file
  /\ Restored(id, log).seen \subseteq ch.seen

\* publish(): the entry is written exactly when the shown file changes.
LEMMA PublishMirrors ==
  ASSUME EvidenceAssumption, NEW ch, NEW id \in SessionId, NEW log \in Seq(EntryRecord), Mirrors(ch, id, log), NEW ev \in EvidenceRecord
  PROVE  Mirrors(Taken(ch, ev), id,
                 IF Recorded(ch, ev) THEN Append(log, [session |-> id, evidence |-> ev]) ELSE log)
<1> DEFINE R == Restored(id, log)
           e == [session |-> id, evidence |-> ev]
<1>1. IsStore(ch) /\ ch.file = R.file /\ R.seen \subseteq ch.seen /\ IsStore(R)
  BY RestoredIsStore DEF Mirrors
<1>2. CASE AlreadySeen(ch, ev)
  BY <1>2, <1>1, TakenIs DEF Recorded, Mirrors
<1>3. CASE Full(ch)
  BY <1>3, <1>1, TakenIs DEF Recorded, Mirrors
<1>4. CASE ~AlreadySeen(ch, ev) /\ ~Full(ch) /\ SameSnapshot(ev.before, ev.after)
  <2>1. Taken(ch, ev).seen = ch.seen \cup {ev.id} /\ Taken(ch, ev).file = ch.file /\ IsStore(Taken(ch, ev))
    BY <1>4, <1>1, TakenIs
  <2> QED BY <2>1, <1>1, <1>4 DEF Recorded, Mirrors
<1>5. CASE ~AlreadySeen(ch, ev) /\ ~Full(ch) /\ ~SameSnapshot(ev.before, ev.after)
  <2>1. Taken(ch, ev).seen = ch.seen \cup {ev.id} /\ Taken(ch, ev).file = FileAfter(ch.file, ev) /\ IsStore(Taken(ch, ev))
    BY <1>5, <1>1, TakenIs
  <2>2. ev.id \notin R.seen
    BY <1>1, <1>5 DEF AlreadySeen
  <2>3. Cardinality(R.seen) <= Cardinality(ch.seen) /\ Cardinality(R.seen) \in Nat /\ Cardinality(ch.seen) \in Nat
    BY <1>1, FS_Subset, FS_CardinalityType DEF IsStore
  <2>4. ~Full(R)
    BY <2>3, <1>5, EvidenceAssumption DEF Full
  <2>5. Taken(R, ev).seen = R.seen \cup {ev.id} /\ Taken(R, ev).file = FileAfter(R.file, ev)
    BY <2>2, <2>4, <1>1, <1>5, TakenIs DEF AlreadySeen
  <2>6. e \in EntryRecord /\ e.session = id /\ e.evidence = ev
    BY DEF EntryRecord
  <2>7. Restored(id, Append(log, e)) = Taken(R, ev)
    BY <2>6, RestoredAppended
  <2>8. Recorded(ch, ev)
    BY <1>5 DEF Recorded
  <2> QED BY <2>1, <2>5, <2>7, <2>8, <1>1 DEF Mirrors
<1> QED BY <1>2, <1>3, <1>4, <1>5

-----------------------------------------------------------------------------
(* The invariant: what a call carries until it is published, what the file *)
(* of a session holds, and what a wait knows of the branch it will mark.   *)

WriteRecord ==
  [pc : {"idle", "snapshot", "admitted", "ran", "reading", "ending", "done"}, child : BOOLEAN, tool : {"write", "edit"},
   session : Nat, epoch : Nat, before : Snapshots, base : Snapshots, text : Snapshots,
   ok : BOOLEAN, evidence : EvidenceRecord \cup {NoEvidence}]

WaitRecord ==
  [pc : {"idle", "waiting"}, kind : {"nudged", "acknowledged"}, through : SUBSET WriteCall, epoch : Nat,
   asked : SUBSET WriteCall]

EvTypes ==
  /\ sitting \in [id : SessionId, active : BOOLEAN, epoch : Nat]
  /\ entries \in [SessionId -> Seq(EntryRecord)]
  /\ branch \in [SessionId -> Seq(Receipt)]
  /\ disk \in Content \cup {Gone}
  /\ writes \in [WriteCall -> WriteRecord]
  /\ waits \in [ReviewWait -> WaitRecord]

\* A kept change between two texts is what its call did: a write ends in its own
\* text, an edit is the patch of its tool.
OwnText(w, ev) ==
  {ev.before, ev.after} \subseteq Content =>
    /\ w.ok
    /\ w.tool = "write" => w.text = ev.after
    /\ w.tool = "edit" => PatchOf(w.base, w.text) = PatchOf(ev.before, ev.after)

WritesOK ==
  \A c \in WriteCall :
    LET w == writes[c] IN
    /\ w.pc = "reading" => w.ok
    /\ w.pc \notin {"idle", "done"} => w.epoch <= sitting.epoch /\ (w.epoch = sitting.epoch => w.session = sitting.id)
    /\ w.evidence # NoEvidence => w.pc = "ending" /\ w.evidence.id = c /\ OwnText(w, w.evidence)

EntriesOK ==
  \A id \in SessionId : \A k \in DOMAIN entries[id] :
    LET e == entries[id][k]
        w == writes[e.evidence.id]
    IN w.pc = "done" /\ OwnText(w, e.evidence) /\ w.session = e.session

StoreOK == sitting.active => Mirrors(changes, sitting.id, entries[sitting.id])

\* The call has recorded its mutation, or never will.
Past(w) == w.pc = "done" \/ (w.pc \in {"reading", "ending"} /\ ~w.child)

BranchOK ==
  \A id \in SessionId :
    /\ Once(branch[id])
    /\ AllTold(branch[id])
    /\ \A m \in Ids(branch[id]) : Past(writes[m])

WaitsOK ==
  \A h \in ReviewWait : waits[h].pc = "waiting" =>
    /\ waits[h].epoch <= sitting.epoch
    /\ \A m \in waits[h].through : Past(writes[m])
    /\ WaitIsCurrent(h) => \A m \in waits[h].through : UpTo(branch[sitting.id], m) \subseteq waits[h].asked

EvInv ==
  /\ EvTypes
  /\ WritesOK
  /\ EntriesOK
  /\ StoreOK
  /\ BranchOK
  /\ WaitsOK

\* The texts of a file are no tags.
LEMMA TagsApart ==
  ASSUME EvidenceAssumption
  PROVE  Gone \notin Content /\ Unread \notin Content /\ Content \subseteq Snapshots /\ Gone \in Snapshots /\ Unread \in Snapshots
BY DEF EvidenceAssumption, Gone, Unread, Snapshots

\* What the capture believes after its second read.
LEMMA VerifiedSound ==
  ASSUME EvidenceAssumption, NEW c \in WriteCall, NEW w \in WriteRecord, NEW after \in Content \cup {Gone}, w.ok
  PROVE  LET ev == [Verified(w, after) EXCEPT !.id = c]
         IN ev \in EvidenceRecord /\ ev.id = c /\ OwnText(w, ev)
<1> DEFINE doubtful == IF w.tool = "write" THEN after \in Content /\ after # w.text
                       ELSE /\ w.before \in Content /\ after \in Content
                            /\ PatchOf(w.base, w.text) # PatchOf(w.before, after)
           b == IF doubtful THEN Unread ELSE w.before
           a == IF doubtful THEN Unread ELSE after
<1>1. w.before \in Snapshots /\ w.tool \in {"write", "edit"} /\ after \in Snapshots
  BY TagsApart DEF WriteRecord, Snapshots
<1>2. b \in Snapshots /\ a \in Snapshots
  BY <1>1, TagsApart
<1>3. {b, a} \subseteq Content => /\ w.tool = "write" => w.text = a
                                  /\ w.tool = "edit" => PatchOf(w.base, w.text) = PatchOf(b, a)
  BY TagsApart
<1>4. Verified(w, after) = [id |-> "evidence", before |-> b, after |-> a]
  BY DEF Verified
<1> HIDE DEF b, a, doubtful
<1>5. [Verified(w, after) EXCEPT !.id = c] = [id |-> c, before |-> b, after |-> a]
  BY <1>4
<1> QED BY <1>2, <1>3, <1>5 DEF EvidenceRecord, OwnText

\* A step that leaves the branches and the waits alone.
LEMMA BranchesKept ==
  ASSUME BranchOK, WaitsOK, EvTypes, branch' = branch, waits' = waits,
         \A c \in WriteCall : Past(writes[c]) => Past(writes'[c]),
         sitting'.epoch >= sitting.epoch, sitting'.epoch \in Nat,
         sitting' = sitting \/ sitting'.epoch > sitting.epoch
  PROVE  BranchOK' /\ WaitsOK'
<1>1. \A id \in SessionId : Ids(branch[id]) \subseteq WriteCall
  BY IndexIs DEF EvTypes
<1>2. BranchOK'
  BY <1>1 DEF BranchOK
<1>3. ASSUME NEW h \in ReviewWait, waits[h].pc = "waiting"
      PROVE  /\ waits[h].epoch <= sitting'.epoch
             /\ \A m \in waits[h].through : Past(writes'[m])
             /\ sitting'.active /\ waits[h].epoch = sitting'.epoch =>
                  \A m \in waits[h].through : UpTo(branch[sitting'.id], m) \subseteq waits[h].asked
  <2>1. waits[h] \in WaitRecord /\ sitting.epoch \in Nat
    BY DEF EvTypes
  <2>2. waits[h].epoch \in Nat /\ waits[h].through \subseteq WriteCall
    BY <2>1 DEF WaitRecord
  <2>3. waits[h].epoch <= sitting.epoch /\ \A m \in waits[h].through : Past(writes[m])
    BY <1>3 DEF WaitsOK
  <2>4. CASE sitting' = sitting
    BY <2>2, <2>3, <2>4, <1>3 DEF WaitsOK, WaitIsCurrent
  <2>5. CASE sitting'.epoch > sitting.epoch
    BY <2>1, <2>2, <2>3, <2>5
  <2> QED BY <2>4, <2>5
<1>4. WaitsOK'
  BY <1>3 DEF WaitsOK, WaitIsCurrent
<1> QED BY <1>2, <1>4

\* recordReviewMutation for a call that had not recorded yet.
LEMMA RecordKeeps ==
  ASSUME EvTypes, BranchOK, WaitsOK, NEW c \in WriteCall, ~Past(writes[c]), Past(writes'[c]),
         \A d \in WriteCall : Past(writes[d]) => Past(writes'[d]),
         RecordMutation(c), sitting' = sitting, waits' = waits
  PROVE  BranchOK' /\ WaitsOK' /\ branch' \in [SessionId -> Seq(Receipt)]
<1> DEFINE id == sitting.id
           b == branch[id]
           r == Mutation(c)
<1>1. id \in SessionId /\ b \in Seq(Receipt) /\ \A x \in SessionId : branch[x] \in Seq(Receipt)
  BY DEF EvTypes
<1>2. c \notin Ids(b) /\ Once(b) /\ AllTold(b)
  BY <1>1 DEF BranchOK
<1>3. IndexOf(b, c) = 0
  BY <1>1, <1>2, IndexIs
<1>4. branch' = [branch EXCEPT ![id] = Append(b, r)]
  BY <1>3 DEF RecordMutation
<1>5. r \in Receipt /\ r.kind = "mutation" /\ r.id = c
  BY DEF Receipt, Mutation
<1>6. branch'[id] = Append(b, r) /\ \A x \in SessionId : x # id => branch'[x] = branch[x]
  BY <1>1, <1>4 DEF EvTypes
<1> HIDE DEF r
<1>7. /\ Append(b, r) \in Seq(Receipt) /\ Once(Append(b, r))
      /\ Ids(Append(b, r)) = Ids(b) \cup {c}
      /\ \A m : c # m => UpTo(Append(b, r), m) \subseteq UpTo(b, m)
  BY <1>1, <1>2, <1>5, AppendKeeps
<1>8. AllTold(Append(b, r))
  <2>1. Told(b, r)
    BY <1>5 DEF Told
  <2> QED BY <2>1, <1>1, <1>2, <1>5, ToldAppended
<1>9. branch' \in [SessionId -> Seq(Receipt)]
  BY <1>1, <1>4, <1>7 DEF EvTypes
<1>10. ASSUME NEW x \in SessionId
       PROVE  Once(branch'[x]) /\ AllTold(branch'[x]) /\ \A m \in Ids(branch'[x]) : Past(writes'[m])
  <2>1. Ids(branch[x]) \subseteq WriteCall
    BY <1>1, IndexIs
  <2>2. \A m \in Ids(branch[x]) : Past(writes'[m])
    BY <2>1 DEF BranchOK
  <2> QED BY <2>2, <1>6, <1>7, <1>8 DEF BranchOK
<1>11. BranchOK'
  BY <1>10 DEF BranchOK
<1>12. ASSUME NEW h \in ReviewWait, waits[h].pc = "waiting"
       PROVE  /\ waits[h].epoch <= sitting.epoch
              /\ \A m \in waits[h].through : Past(writes'[m])
              /\ WaitIsCurrent(h) => \A m \in waits[h].through : UpTo(branch'[id], m) \subseteq waits[h].asked
  <2>1. waits[h] \in WaitRecord
    BY DEF EvTypes
  <2>2. waits[h].through \subseteq WriteCall
    BY <2>1 DEF WaitRecord
  <2>3. c \notin waits[h].through
    BY <1>12 DEF WaitsOK
  <2>4. \A m \in waits[h].through : UpTo(branch'[id], m) \subseteq UpTo(b, m)
    BY <2>3, <1>6, <1>7
  <2> QED BY <2>2, <2>4, <1>12 DEF WaitsOK
<1>13. WaitsOK'
  BY <1>12 DEF WaitsOK, WaitIsCurrent
<1> QED BY <1>9, <1>11, <1>13

\* A call moves on, and neither writes an entry nor records its mutation.
LEMMA CallMovesOn ==
  ASSUME EvInv, NEW c \in WriteCall, writes[c].pc # "done",
         writes' \in [WriteCall -> WriteRecord], \A d \in WriteCall : d # c => writes'[d] = writes[d],
         Past(writes[c]) => Past(writes'[c]),
         writes'[c].pc = "reading" => writes'[c].ok,
         writes'[c].pc \notin {"idle", "done"} =>
           writes'[c].epoch <= sitting.epoch /\ (writes'[c].epoch = sitting.epoch => writes'[c].session = sitting.id),
         writes'[c].evidence # NoEvidence => writes'[c].pc = "ending" /\ writes'[c].evidence.id = c /\ OwnText(writes'[c], writes'[c].evidence),
         disk' \in Content \cup {Gone},
         UNCHANGED <<sitting, entries, changes, waits>>
  PROVE  /\ WritesOK' /\ EntriesOK' /\ StoreOK'
         /\ branch' = branch => EvInv'
         /\ branch' \in [SessionId -> Seq(Receipt)] /\ BranchOK' /\ WaitsOK' => EvInv'
<1> USE DEF EvInv
<1>1. \A d \in WriteCall : Past(writes[d]) => Past(writes'[d])
  OBVIOUS
<1>2. WritesOK'
  BY DEF WritesOK
<1>3. EntriesOK'
  <2>1. ASSUME NEW id \in SessionId, NEW k \in DOMAIN entries[id]
        PROVE  writes'[entries[id][k].evidence.id] = writes[entries[id][k].evidence.id]
    <3>1. entries[id] \in Seq(EntryRecord)
      BY DEF EvTypes
    <3>2. entries[id][k] \in EntryRecord
      BY <3>1
    <3>3. entries[id][k].evidence.id \in WriteCall
      BY <3>2 DEF EntryRecord, EvidenceRecord
    <3>4. writes[entries[id][k].evidence.id].pc = "done"
      BY DEF EntriesOK
    <3> QED BY <3>3, <3>4
  <2> QED BY <2>1 DEF EntriesOK
<1>4. StoreOK'
  BY DEF StoreOK
<1>5. ASSUME branch' = branch PROVE BranchOK' /\ WaitsOK' /\ branch' \in [SessionId -> Seq(Receipt)]
  <2>1. sitting.epoch \in Nat
    BY DEF EvTypes
  <2>2. BranchOK' /\ WaitsOK'
    BY <2>1, <1>1, <1>5, BranchesKept
  <2> QED BY <2>2, <1>5 DEF EvTypes
<1>6. branch' \in [SessionId -> Seq(Receipt)] => EvTypes'
  BY DEF EvTypes
<1> QED BY <1>2, <1>3, <1>4, <1>5, <1>6

\* What the invariant says of one call.
LEMMA CallTypes ==
  ASSUME EvInv, NEW c \in WriteCall
  PROVE  /\ writes \in [WriteCall -> WriteRecord] /\ writes[c] \in WriteRecord
         /\ sitting \in [id : SessionId, active : BOOLEAN, epoch : Nat]
         /\ sitting.id \in SessionId /\ sitting.id \in Nat /\ sitting.epoch \in Nat /\ disk \in Content \cup {Gone}
         /\ writes[c].pc \notin {"idle", "done"} =>
              writes[c].epoch <= sitting.epoch /\ (writes[c].epoch = sitting.epoch => writes[c].session = sitting.id)
         /\ writes[c].evidence # NoEvidence => writes[c].pc = "ending" /\ writes[c].evidence.id = c /\ OwnText(writes[c], writes[c].evidence)
BY DEF EvInv, EvTypes, WritesOK, SessionId

\* tool_call: the call begins in the running session.
LEMMA BeginWriteStep ==
  ASSUME EvidenceAssumption, EvInv, NEW c \in WriteCall, NEW tool \in {"write", "edit"}, NEW child \in BOOLEAN, BeginWrite(c, tool, child)
  PROVE  EvInv'
<1> DEFINE r == [IdleWrite EXCEPT !.pc = "snapshot", !.tool = tool, !.child = child, !.session = sitting.id, !.epoch = sitting.epoch]
<1>1. /\ writes[c].pc = "idle" /\ writes' = [writes EXCEPT ![c] = r]
      /\ UNCHANGED <<sitting, entries, branch, disk, captured, changes, waits, nested, foreign>>
  BY DEF BeginWrite
<1>2. IdleWrite \in WriteRecord /\ IdleWrite.evidence = NoEvidence
  BY TagsApart DEF IdleWrite, WriteRecord
<1>3. r \in WriteRecord /\ r.pc = "snapshot" /\ r.session = sitting.id /\ r.epoch = sitting.epoch /\ r.evidence = NoEvidence
  BY <1>2, CallTypes DEF WriteRecord
<1> HIDE DEF r
<1>4. writes' \in [WriteCall -> WriteRecord] /\ writes'[c] = r /\ \A d \in WriteCall : d # c => writes'[d] = writes[d]
  BY <1>1, <1>3, CallTypes
<1>5. ~Past(writes[c])
  BY <1>1 DEF Past
<1>6. sitting.epoch <= sitting.epoch
  BY CallTypes
<1> QED BY <1>1, <1>3, <1>4, <1>5, <1>6, CallTypes, CallMovesOn

\* The snapshot before the tool.
LEMMA TakeBeforeStep ==
  ASSUME EvidenceAssumption, EvInv, NEW c \in WriteCall, NEW readable \in BOOLEAN, TakeBefore(c, readable)
  PROVE  EvInv'
<1> DEFINE v == IF readable THEN disk ELSE Unread
           r == [writes[c] EXCEPT !.pc = "admitted", !.before = v]
<1>1. /\ writes[c].pc = "snapshot" /\ writes' = [writes EXCEPT ![c] = r]
      /\ UNCHANGED <<sitting, entries, branch, disk, changes, waits, nested, foreign>>
  BY CallTypes DEF TakeBefore
<1>2. v \in Snapshots
  BY CallTypes, TagsApart
<1> HIDE DEF v
<1>3. r \in WriteRecord /\ r.pc = "admitted" /\ r.epoch = writes[c].epoch /\ r.session = writes[c].session
      /\ r.evidence = writes[c].evidence /\ r.text = writes[c].text /\ r.ok = writes[c].ok
  <2>1. writes[c] \in WriteRecord
    BY CallTypes
  <2>2. r \in WriteRecord
    BY <2>1, <1>2 DEF WriteRecord
  <2>3. r.pc = "admitted" /\ r.epoch = writes[c].epoch /\ r.session = writes[c].session
    BY <2>1 DEF WriteRecord
  <2>4. r.evidence = writes[c].evidence /\ r.text = writes[c].text /\ r.ok = writes[c].ok
    BY <2>1 DEF WriteRecord
  <2> QED BY <2>2, <2>3, <2>4
<1> HIDE DEF r
<1>4. writes' \in [WriteCall -> WriteRecord] /\ writes'[c] = r /\ \A d \in WriteCall : d # c => writes'[d] = writes[d]
  BY <1>1, <1>3, CallTypes
<1>5. ~Past(writes[c])
  BY <1>1 DEF Past
<1>6. r.evidence # NoEvidence => r.pc = "ending" /\ r.evidence.id = c /\ OwnText(r, r.evidence)
  BY <1>1, <1>3, CallTypes
<1> QED BY <1>1, <1>3, <1>4, <1>5, <1>6, CallTypes, CallMovesOn

\* A call before its result carries no evidence that could be wrong.
LEMMA NotPast ==
  ASSUME NEW w, w.pc \in {"idle", "snapshot", "admitted", "ran"} \/ (w.pc # "done" /\ w.child)
  PROVE  ~Past(w)
BY DEF Past

\* The tool runs and succeeds.  The evidence of a call is made after that.
LEMMA RunToolStep ==
  ASSUME EvidenceAssumption, EvInv, NEW c \in WriteCall, NEW v \in Content, RunTool(c, v)
  PROVE  EvInv'
<1> DEFINE r == [writes[c] EXCEPT !.pc = "ran", !.base = disk, !.text = v, !.ok = TRUE]
<1>1. /\ writes[c].pc = "admitted" /\ writes' = [writes EXCEPT ![c] = r] /\ disk' = v
      /\ UNCHANGED <<sitting, entries, branch, captured, changes, waits, nested, foreign>>
  BY CallTypes DEF RunTool
<1>3. r \in WriteRecord /\ r.pc = "ran" /\ r.epoch = writes[c].epoch /\ r.session = writes[c].session
      /\ r.evidence = writes[c].evidence
  <2>1. writes[c] \in WriteRecord
    BY CallTypes
  <2>2. disk \in Snapshots /\ v \in Snapshots
    BY CallTypes, TagsApart
  <2>3. r \in WriteRecord
    BY <2>1, <2>2 DEF WriteRecord
  <2>4. r.pc = "ran" /\ r.epoch = writes[c].epoch /\ r.session = writes[c].session /\ r.evidence = writes[c].evidence
    BY <2>1 DEF WriteRecord
  <2> QED BY <2>3, <2>4
<1> HIDE DEF r
<1>4. writes' \in [WriteCall -> WriteRecord] /\ writes'[c] = r /\ \A d \in WriteCall : d # c => writes'[d] = writes[d]
  BY <1>1, <1>3, CallTypes
<1>5. ~Past(writes[c])
  BY <1>1, NotPast
<1>6. r.evidence = NoEvidence
  BY <1>1, <1>3, CallTypes
<1> QED BY <1>1, <1>3, <1>4, <1>5, <1>6, CallTypes, CallMovesOn

\* The tool fails.
LEMMA FailToolStep ==
  ASSUME EvidenceAssumption, EvInv, NEW c \in WriteCall, FailTool(c)
  PROVE  EvInv'
<1> DEFINE r == [writes[c] EXCEPT !.pc = "ran"]
<1>1. /\ writes[c].pc = "admitted" /\ writes' = [writes EXCEPT ![c] = r] /\ disk' = disk
      /\ UNCHANGED <<sitting, entries, branch, captured, changes, waits, nested, foreign>>
  BY CallTypes DEF FailTool
<1>3. r \in WriteRecord /\ r.pc = "ran" /\ r.epoch = writes[c].epoch /\ r.session = writes[c].session
      /\ r.evidence = writes[c].evidence /\ r.text = writes[c].text /\ r.ok = writes[c].ok
  <2>1. writes[c] \in WriteRecord
    BY CallTypes
  <2> QED BY <2>1 DEF WriteRecord
<1> HIDE DEF r
<1>4. writes' \in [WriteCall -> WriteRecord] /\ writes'[c] = r /\ \A d \in WriteCall : d # c => writes'[d] = writes[d]
  BY <1>1, <1>3, CallTypes
<1>5. ~Past(writes[c])
  BY <1>1, NotPast
<1>6. r.evidence # NoEvidence => r.pc = "ending" /\ r.evidence.id = c /\ OwnText(r, r.evidence)
  BY <1>1, <1>3, CallTypes
<1> QED BY <1>1, <1>3, <1>4, <1>5, <1>6, CallTypes, CallMovesOn

\* tool_result: a direct call records its mutation here.
LEMMA ToolResultStep ==
  ASSUME EvidenceAssumption, EvInv, NEW c \in WriteCall, ToolResult(c)
  PROVE  EvInv'
<1> DEFINE p == IF c \in captured /\ Capturing(c) /\ writes[c].ok THEN "reading" ELSE "ending"
           r == [writes[c] EXCEPT !.pc = p]
<1>1. /\ writes[c].pc = "ran" /\ writes' = [writes EXCEPT ![c] = r]
      /\ UNCHANGED <<sitting, entries, disk, changes, waits, nested, foreign>>
      /\ IF sitting.active /\ writes[c].ok /\ ~writes[c].child THEN RecordMutation(c) ELSE UNCHANGED branch
  BY CallTypes DEF ToolResult
<1>2. p \in {"reading", "ending"} /\ (p = "reading" => writes[c].ok)
  OBVIOUS
<1> HIDE DEF p
<1>3. r \in WriteRecord /\ r.pc = p /\ r.epoch = writes[c].epoch /\ r.session = writes[c].session /\ r.child = writes[c].child
      /\ r.evidence = writes[c].evidence /\ r.text = writes[c].text /\ r.ok = writes[c].ok
  <2>1. writes[c] \in WriteRecord
    BY CallTypes
  <2>2. r \in WriteRecord
    BY <2>1, <1>2 DEF WriteRecord
  <2>3. r.pc = p /\ r.epoch = writes[c].epoch /\ r.session = writes[c].session /\ r.child = writes[c].child
    BY <2>1 DEF WriteRecord
  <2>4. r.evidence = writes[c].evidence /\ r.text = writes[c].text /\ r.ok = writes[c].ok
    BY <2>1 DEF WriteRecord
  <2> QED BY <2>2, <2>3, <2>4
<1> HIDE DEF r
<1>4. writes' \in [WriteCall -> WriteRecord] /\ writes'[c] = r /\ \A d \in WriteCall : d # c => writes'[d] = writes[d]
  BY <1>1, <1>3, CallTypes
<1>5. ~Past(writes[c])
  BY <1>1, NotPast
<1>6. r.evidence # NoEvidence => r.pc = "ending" /\ r.evidence.id = c /\ OwnText(r, r.evidence)
  BY <1>1, <1>3, CallTypes
<1>7. disk' \in Content \cup {Gone} /\ writes[c].pc # "done" /\ (writes'[c].pc = "reading" => writes'[c].ok)
      /\ (writes'[c].pc \notin {"idle", "done"} =>
           writes'[c].epoch <= sitting.epoch /\ (writes'[c].epoch = sitting.epoch => writes'[c].session = sitting.id))
      /\ (writes'[c].evidence # NoEvidence => writes'[c].pc = "ending" /\ writes'[c].evidence.id = c /\ OwnText(writes'[c], writes'[c].evidence))
      /\ (Past(writes[c]) => Past(writes'[c]))
  BY <1>1, <1>2, <1>3, <1>4, <1>5, <1>6, CallTypes
<1>8. CASE branch' = branch
  BY <1>1, <1>4, <1>7, <1>8, CallMovesOn
<1>9. CASE RecordMutation(c) /\ ~writes[c].child
  <2>1. Past(writes'[c])
    BY <1>2, <1>3, <1>4, <1>9 DEF Past
  <2>2. \A d \in WriteCall : Past(writes[d]) => Past(writes'[d])
    BY <1>4, <2>1
  <2>3. BranchOK' /\ WaitsOK' /\ branch' \in [SessionId -> Seq(Receipt)]
    BY <1>1, <1>5, <1>9, <2>1, <2>2, RecordKeeps DEF EvInv
  <2> QED BY <1>1, <1>4, <1>7, <2>3, CallMovesOn
<1> QED BY <1>1, <1>8, <1>9

\* The read after the tool makes the evidence.
LEMMA TakeAfterStep ==
  ASSUME EvidenceAssumption, EvInv, NEW c \in WriteCall, TakeAfter(c)
  PROVE  EvInv'
<1> DEFINE w == writes[c]
           ev == [Verified(w, disk) EXCEPT !.id = c]
           e == IF Capturing(c) /\ c \in captured THEN ev ELSE NoEvidence
           r == [w EXCEPT !.pc = "ending", !.evidence = e]
<1>1. /\ w.pc = "reading" /\ writes' = [writes EXCEPT ![c] = r]
      /\ UNCHANGED <<sitting, entries, branch, disk, captured, changes, waits, nested, foreign>>
  BY CallTypes DEF TakeAfter
<1>2. w.ok
  BY <1>1 DEF EvInv, WritesOK
<1>3. ev \in EvidenceRecord /\ ev.id = c /\ OwnText(w, ev)
  BY <1>2, CallTypes, VerifiedSound
<1> HIDE DEF ev
<1>4. e \in EvidenceRecord \cup {NoEvidence} /\ (e # NoEvidence => e.id = c /\ OwnText(w, e))
  BY <1>3
<1>t. w \in WriteRecord
  BY CallTypes
<1>5. /\ w.epoch <= sitting.epoch /\ (w.epoch = sitting.epoch => w.session = sitting.id)
  BY <1>1, CallTypes
<1> HIDE DEF e, w
<1>6. r \in WriteRecord
  BY <1>4, <1>t DEF WriteRecord
<1>7. r.pc = "ending" /\ r.epoch = w.epoch /\ r.session = w.session /\ r.child = w.child
  BY <1>t DEF WriteRecord
<1>8. r.evidence = e /\ r.tool = w.tool /\ r.base = w.base /\ r.text = w.text /\ r.ok = w.ok
  BY <1>t DEF WriteRecord
<1> HIDE DEF r
<1>9. writes' \in [WriteCall -> WriteRecord] /\ writes'[c] = r /\ \A d \in WriteCall : d # c => writes'[d] = writes[d]
  BY <1>1, <1>6, CallTypes
<1>10. Past(writes[c]) => Past(r)
  BY <1>1, <1>7 DEF Past, w
<1>11. r.evidence # NoEvidence => r.pc = "ending" /\ r.evidence.id = c /\ OwnText(r, r.evidence)
  BY <1>4, <1>7, <1>8 DEF OwnText
<1>12. writes[c].pc # "done" /\ disk' \in Content \cup {Gone}
  BY <1>1, CallTypes DEF w
<1> QED BY <1>1, <1>5, <1>7, <1>9, <1>10, <1>11, <1>12, CallMovesOn

\* tool_execution_end: the evidence is published and a child's mutation recorded.
LEMMA EndWriteStep ==
  ASSUME EvidenceAssumption, EvInv, NEW c \in WriteCall, EndWrite(c)
  PROVE  EvInv'
<1> DEFINE w == writes[c]
           ev == w.evidence
           mine == SameSession(c) /\ w.ok
           r == [IdleWrite EXCEPT !.pc = "done", !.tool = w.tool, !.base = w.base,
                                  !.text = w.text, !.ok = w.ok, !.session = w.session]
           id == sitting.id
           log == entries[id]
           entry == [session |-> id, evidence |-> ev]
<1>1. /\ w.pc = "ending" /\ writes' = [writes EXCEPT ![c] = r]
      /\ IF mine /\ ev # NoEvidence THEN PublishEvidence(ev) ELSE UNCHANGED <<entries, changes>>
      /\ IF mine /\ w.child THEN RecordMutation(c) ELSE UNCHANGED branch
      /\ UNCHANGED <<sitting, disk, waits, nested, foreign>>
  BY CallTypes DEF EndWrite
<1>t. w \in WriteRecord /\ ev \in EvidenceRecord \cup {NoEvidence}
  BY CallTypes DEF WriteRecord
<1>2. IdleWrite \in WriteRecord /\ IdleWrite.evidence = NoEvidence
  BY TagsApart DEF IdleWrite, WriteRecord
<1> HIDE DEF w
<1>3. r \in WriteRecord
  BY <1>2, <1>t DEF WriteRecord
<1>4. /\ r.pc = "done" /\ r.tool = w.tool /\ r.base = w.base /\ r.text = w.text
      /\ r.ok = w.ok /\ r.session = w.session /\ r.evidence = NoEvidence
  BY <1>2, <1>t DEF WriteRecord
<1> HIDE DEF r
<1>5. writes' \in [WriteCall -> WriteRecord] /\ writes'[c] = r /\ \A d \in WriteCall : d # c => writes'[d] = writes[d]
  BY <1>1, <1>3, CallTypes
<1>6. Past(writes'[c]) /\ \A d \in WriteCall : Past(writes[d]) => Past(writes'[d])
  <2>1. Past(r)
    BY <1>4 DEF Past
  <2> QED BY <2>1, <1>5
<1>7. mine => w.session = id /\ sitting.active
  <2>1. w.epoch = sitting.epoch => w.session = id
    BY <1>1, CallTypes DEF w
  <2> QED BY <2>1 DEF SameSession, w
<1>8. ev # NoEvidence => ev \in EvidenceRecord /\ ev.id = c /\ OwnText(w, ev)
  <2>1. ev # NoEvidence => ev.id = c /\ OwnText(w, ev)
    BY CallTypes DEF w
  <2> QED BY <2>1, <1>t
<1>l. id \in SessionId /\ log \in Seq(EntryRecord) /\ \A x \in SessionId : entries[x] \in Seq(EntryRecord)
  BY CallTypes DEF EvInv, EvTypes
<1>9. WritesOK'
  BY <1>1, <1>4, <1>5 DEF WritesOK, EvInv
<1>10. BranchOK' /\ WaitsOK' /\ branch' \in [SessionId -> Seq(Receipt)]
  <2>1. CASE branch' = branch
    <3>1. sitting.epoch \in Nat /\ branch \in [SessionId -> Seq(Receipt)]
      BY DEF EvInv, EvTypes
    <3>2. BranchOK' /\ WaitsOK'
      BY <3>1, <2>1, <1>1, <1>6, BranchesKept DEF EvInv
    <3> QED BY <3>1, <3>2, <2>1
  <2>2. CASE RecordMutation(c) /\ w.child
    <3>1. ~Past(writes[c])
      BY <2>2, <1>1, NotPast DEF w
    <3> QED BY <3>1, <2>2, <1>1, <1>6, RecordKeeps DEF EvInv
  <2> QED BY <1>1, <2>1, <2>2
\* What an entry that is there already says of its call.
<1>11. ASSUME NEW x \in SessionId, NEW k \in DOMAIN entries[x]
       PROVE  LET e == entries[x][k] IN
              writes'[e.evidence.id].pc = "done" /\ OwnText(writes'[e.evidence.id], e.evidence)
              /\ writes'[e.evidence.id].session = e.session
  <2>1. entries[x][k] \in EntryRecord
    BY <1>l
  <2>2. entries[x][k].evidence.id \in WriteCall
    BY <2>1 DEF EntryRecord, EvidenceRecord
  <2>3. writes[entries[x][k].evidence.id].pc = "done"
    BY DEF EvInv, EntriesOK
  <2>4. writes'[entries[x][k].evidence.id] = writes[entries[x][k].evidence.id]
    BY <2>2, <2>3, <1>1, <1>5 DEF w
  <2> QED BY <2>4 DEF EvInv, EntriesOK
<1>12. CASE entries' = entries /\ changes' = changes
  <2>1. EntriesOK'
    BY <1>11, <1>12 DEF EntriesOK
  <2>2. StoreOK'
    BY <1>1, <1>12 DEF EvInv, StoreOK
  <2>3. EvTypes'
    BY <1>1, <1>5, <1>10, <1>12 DEF EvInv, EvTypes
  <2> QED BY <2>1, <2>2, <2>3, <1>9, <1>10 DEF EvInv
<1>13. CASE mine /\ ev # NoEvidence /\ PublishEvidence(ev)
  <2>1. Mirrors(changes, id, log)
    BY <1>7, <1>13 DEF EvInv, StoreOK
  <2>2. Mirrors(Taken(changes, ev), id, IF Recorded(changes, ev) THEN Append(log, entry) ELSE log)
    BY <2>1, <1>8, <1>13, <1>l, PublishMirrors
  <2>3. changes' = Taken(changes, ev)
        /\ entries' = IF Recorded(changes, ev) THEN [entries EXCEPT ![id] = Append(entries[id], entry)] ELSE entries
    BY <1>13 DEF PublishEvidence
  <2>4. entry \in EntryRecord /\ entry.session = id /\ entry.evidence = ev
    BY <1>l, <1>8, <1>13 DEF EntryRecord
  <2>5. entries \in [SessionId -> Seq(EntryRecord)]
    BY DEF EvInv, EvTypes
  <2> HIDE DEF entry
  <2>6. /\ entries'[id] = IF Recorded(changes, ev) THEN Append(log, entry) ELSE log
        /\ \A x \in SessionId : x # id => entries'[x] = entries[x]
    BY <2>3, <2>5, <1>l
  <2>7. Append(log, entry) \in Seq(EntryRecord)
    BY <2>4, <1>l
  <2>8. entries' \in [SessionId -> Seq(EntryRecord)]
    BY <2>3, <2>5, <2>7
  <2>9. StoreOK'
    BY <2>2, <2>3, <2>6, <1>1 DEF StoreOK
  <2>10. EvTypes'
    BY <2>8, <1>1, <1>5, <1>10 DEF EvInv, EvTypes
  <2>11. ASSUME NEW x \in SessionId, NEW k \in DOMAIN entries'[x]
         PROVE  \/ k \in DOMAIN entries[x] /\ entries'[x][k] = entries[x][k]
                \/ entries'[x][k] = entry
    <3>1. CASE x = id /\ Recorded(changes, ev)
      <4>1. entries'[x] = Append(log, entry)
        BY <2>6, <3>1
      <4>2. k \in 1..(Len(log) + 1) /\ DOMAIN log = 1..Len(log) /\ Len(log) \in Nat
        BY <4>1, <2>7, <2>11, <1>l
      <4>3. CASE k = Len(log) + 1
        BY <4>1, <4>2, <4>3, <1>l
      <4>4. CASE k # Len(log) + 1
        BY <4>1, <4>2, <4>4, <1>l, <3>1
      <4> QED BY <4>3, <4>4
    <3>2. CASE x # id \/ ~Recorded(changes, ev)
      <4>1. entries'[x] = entries[x]
        BY <2>6, <3>2
      <4> QED BY <4>1, <2>11
    <3> QED BY <3>1, <3>2
  <2>12. writes'[c].pc = "done" /\ OwnText(writes'[c], ev) /\ writes'[c].session = id
    BY <1>4, <1>5, <1>7, <1>8, <1>13 DEF OwnText
  <2>13. EntriesOK'
    BY <2>4, <2>11, <2>12, <1>8, <1>11, <1>13 DEF EntriesOK
  <2> QED BY <2>9, <2>10, <2>13, <1>9, <1>10 DEF EvInv
<1> QED BY <1>1, <1>12, <1>13

\* A step outside the session's records: an external edit, an agent that starts
\* or ends, or no step at all.
LEMMA EvKept ==
  ASSUME EvInv, disk' \in Content \cup {Gone}, UNCHANGED <<sitting, entries, branch, writes, changes, waits>>
  PROVE  EvInv'
<1>1. EvTypes'
  BY DEF EvInv, EvTypes
<1>2. WritesOK' /\ EntriesOK' /\ StoreOK'
  BY DEF EvInv, WritesOK, EntriesOK, StoreOK
<1>3. BranchOK' /\ WaitsOK'
  BY DEF EvInv, BranchOK, WaitsOK, WaitIsCurrent
<1> QED BY <1>1, <1>2, <1>3 DEF EvInv

\* The mutations up to one of them are on the branch.
LEMMA UpToIsThere ==
  ASSUME NEW b \in Seq(Receipt), NEW m
  PROVE  UpTo(b, m) \subseteq Ids(b)
<1> DEFINE ms == Mutations(b)
           x == IndexOf(b, m)
<1>1. x \in 0..Len(ms) /\ DOMAIN ms = 1..Len(ms) /\ Len(ms) \in Nat
  BY IndexIs, MutationsType
<1>2. UpTo(b, m) = {ms[i].id : i \in 1..x} /\ Ids(b) = {ms[i].id : i \in DOMAIN ms}
  BY DEF UpTo, Ids
<1> HIDE DEF ms, x
<1>3. \A i \in 1..x : i \in DOMAIN ms
  BY <1>1
<1> QED BY <1>2, <1>3

\* The review is asked: the wait knows every mutation of its branch.
LEMMA AwaitStep ==
  ASSUME EvInv, NEW h \in ReviewWait, NEW kind \in {"nudged", "acknowledged"},
         sitting.active, Await(h, kind, Pending(branch[sitting.id])),
         UNCHANGED <<sitting, entries, branch, disk, writes, changes>>
  PROVE  EvInv'
<1> DEFINE id == sitting.id
           b == branch[id]
           through == Pending(b)
           known == {r.id : r \in Range(Mutations(b))}
           w == [pc |-> "waiting", kind |-> kind, through |-> through, epoch |-> sitting.epoch, asked |-> known]
<1>1. id \in SessionId /\ b \in Seq(Receipt) /\ sitting.epoch \in Nat /\ waits \in [ReviewWait -> WaitRecord]
  BY DEF EvInv, EvTypes
<1>2. waits' = [waits EXCEPT ![h] = w]
  BY DEF Await
<1>3. known = Ids(b)
  BY DEF Range, Ids
<1> HIDE DEF known
<1>4. through \subseteq Ids(b) /\ Ids(b) \subseteq WriteCall
  BY <1>1, PendingIsThere, IndexIs
<1>5. \A m \in through : UpTo(b, m) \subseteq known
  BY <1>1, <1>3, UpToIsThere
<1> HIDE DEF through, b
<1>6. w \in WaitRecord
  BY <1>1, <1>3, <1>4 DEF WaitRecord
<1>7. w.through = through /\ w.asked = known /\ w.epoch = sitting.epoch
  OBVIOUS
<1> HIDE DEF w
<1>8. waits' \in [ReviewWait -> WaitRecord] /\ waits'[h] = w /\ \A g \in ReviewWait : g # h => waits'[g] = waits[g]
  BY <1>1, <1>2, <1>6
<1>9. EvTypes' /\ WritesOK' /\ EntriesOK' /\ StoreOK' /\ BranchOK'
  BY <1>8 DEF EvInv, EvTypes, WritesOK, EntriesOK, StoreOK, BranchOK
<1>10. \A m \in through : Past(writes[m])
  BY <1>1, <1>4 DEF EvInv, BranchOK, b
<1>11. ASSUME NEW g \in ReviewWait, waits'[g].pc = "waiting"
       PROVE  /\ waits'[g].epoch <= sitting.epoch
              /\ \A m \in waits'[g].through : Past(writes[m])
              /\ sitting.active /\ waits'[g].epoch = sitting.epoch =>
                   \A m \in waits'[g].through : UpTo(branch[sitting.id], m) \subseteq waits'[g].asked
  <2>1. CASE g = h
    BY <2>1, <1>1, <1>5, <1>7, <1>8, <1>10 DEF b
  <2>2. CASE g # h
    <3>1. waits'[g] = waits[g]
      BY <2>2, <1>8
    <3> QED BY <3>1, <1>11 DEF EvInv, WaitsOK, WaitIsCurrent
  <2> QED BY <2>1, <2>2
<1>12. WaitsOK'
  BY <1>11 DEF WaitsOK, WaitIsCurrent
<1> QED BY <1>9, <1>12 DEF EvInv

\* The branch of the running session becomes c, which puts no mutation behind
\* another one, and no wait begins.
LEMMA BranchMoves ==
  ASSUME EvInv, NEW c \in Seq(Receipt), Once(c), AllTold(c), Ids(c) \subseteq Ids(branch[sitting.id]),
         \A m : UpTo(c, m) \subseteq UpTo(branch[sitting.id], m),
         branch' = [branch EXCEPT ![sitting.id] = c],
         waits' \in [ReviewWait -> WaitRecord], \A h \in ReviewWait : waits'[h] = waits[h] \/ waits'[h].pc # "waiting",
         UNCHANGED <<sitting, entries, disk, writes, changes>>
  PROVE  EvInv'
<1>1. branch \in [SessionId -> Seq(Receipt)] /\ sitting.id \in SessionId
  BY DEF EvInv, EvTypes
<1>2. branch' \in [SessionId -> Seq(Receipt)] /\ branch'[sitting.id] = c
      /\ \A id \in SessionId : id # sitting.id => branch'[id] = branch[id]
  BY <1>1
<1>3. EvTypes' /\ WritesOK' /\ EntriesOK' /\ StoreOK'
  BY <1>2 DEF EvInv, EvTypes, WritesOK, EntriesOK, StoreOK
<1>4. ASSUME NEW id \in SessionId
      PROVE  Once(branch'[id]) /\ AllTold(branch'[id]) /\ \A m \in Ids(branch'[id]) : Past(writes[m])
  <2>1. CASE id = sitting.id
    BY <2>1, <1>1, <1>2 DEF EvInv, BranchOK
  <2>2. CASE id # sitting.id
    BY <2>2, <1>2 DEF EvInv, BranchOK
  <2> QED BY <2>1, <2>2
<1>5. BranchOK'
  BY <1>4 DEF BranchOK
<1>6. ASSUME NEW h \in ReviewWait, waits'[h].pc = "waiting"
      PROVE  /\ waits'[h].epoch <= sitting.epoch
             /\ \A m \in waits'[h].through : Past(writes[m])
             /\ sitting.active /\ waits'[h].epoch = sitting.epoch =>
                  \A m \in waits'[h].through : UpTo(branch'[sitting.id], m) \subseteq waits'[h].asked
  <2>1. waits'[h] = waits[h]
    BY <1>6
  <2>2. \A m : UpTo(branch'[sitting.id], m) \subseteq UpTo(branch[sitting.id], m)
    BY <1>2
  <2> QED BY <2>1, <2>2, <1>6 DEF EvInv, WaitsOK, WaitIsCurrent
<1>7. WaitsOK'
  BY <1>6 DEF WaitsOK, WaitIsCurrent
<1> QED BY <1>3, <1>5, <1>7 DEF EvInv

\* A wait ends; the receipt it leaves, if any, tells of mutations it asked about.
LEMMA AnswerStep ==
  ASSUME EvInv, NEW h \in ReviewWait, waits[h].pc = "waiting",
         branch' = branch \/ (Consume(h) /\ WaitIsCurrent(h) /\ (waits[h].kind = "nudged" => MayNudge(h))),
         waits' = [waits EXCEPT ![h] = IdleWait], UNCHANGED <<sitting, entries, disk, writes, changes>>
  PROVE  EvInv'
<1> DEFINE id == sitting.id
           b == branch[id]
           m == CHOOSE x \in waits[h].through : TRUE
           r == [kind |-> waits[h].kind, asked |-> waits[h].asked, through |-> m]
<1>1. id \in SessionId /\ b \in Seq(Receipt) /\ waits \in [ReviewWait -> WaitRecord] /\ branch \in [SessionId -> Seq(Receipt)]
  BY DEF EvInv, EvTypes
<1>2. Once(b) /\ AllTold(b)
  BY <1>1 DEF EvInv, BranchOK
<1>3. IdleWait \in WaitRecord /\ IdleWait.pc # "waiting"
  BY DEF IdleWait, WaitRecord
<1>4. waits' \in [ReviewWait -> WaitRecord] /\ \A g \in ReviewWait : waits'[g] = waits[g] \/ waits'[g].pc # "waiting"
  BY <1>1, <1>3
<1>5. CASE branch' = branch
  <2>1. branch' = [branch EXCEPT ![id] = b]
    BY <1>1, <1>5
  <2> QED BY <2>1, <1>1, <1>2, <1>4, BranchMoves
<1>6. CASE branch' # branch
  <2>1. waits[h].through # {} /\ branch' = [branch EXCEPT ![id] = Append(branch[id], r)]
    BY <1>6 DEF Consume
  <2>2. m \in waits[h].through
    BY <2>1
  <2> HIDE DEF m
  <2>3. waits[h] \in WaitRecord
    BY <1>1
  <2>4. waits[h].kind \in {"nudged", "acknowledged"} /\ waits[h].through \subseteq WriteCall /\ waits[h].asked \subseteq WriteCall
    BY <2>3 DEF WaitRecord
  <2>5. r \in Receipt /\ r.kind = waits[h].kind /\ r.kind # "mutation" /\ r.through = m /\ r.asked = waits[h].asked
    BY <2>2, <2>4 DEF Receipt
  <2> HIDE DEF r
  <2>6. UpTo(b, m) \subseteq waits[h].asked
    BY <1>6, <2>2 DEF EvInv, WaitsOK
  <2>7. r.kind = "nudged" => StillPending(b, m)
    BY <1>6, <2>2, <2>5 DEF MayNudge
  <2>8. Told(b, r)
    BY <2>5, <2>6, <2>7 DEF Told
  <2>9. AllTold(Append(b, r))
    BY <2>5, <2>8, <1>1, <1>2, ToldAppended
  <2>10. /\ Append(b, r) \in Seq(Receipt) /\ Once(Append(b, r)) /\ Ids(Append(b, r)) = Ids(b)
         /\ \A x : UpTo(Append(b, r), x) \subseteq UpTo(b, x)
    BY <2>5, <1>1, <1>2, AppendKeeps
  <2> QED BY <2>1, <2>9, <2>10, <1>4, BranchMoves
<1> QED BY <1>5, <1>6

\* The user walks back in the tree of the session.
LEMMA RewindStep ==
  ASSUME EvInv, NEW n \in Nat, Rewind(n)
  PROVE  EvInv'
<1> DEFINE b == branch[sitting.id]
           c == SubSeq(b, 1, n)
<1>1. sitting.id \in SessionId /\ b \in Seq(Receipt) /\ waits \in [ReviewWait -> WaitRecord]
  BY DEF EvInv, EvTypes
<1>2. n \in 0..Len(b) /\ branch' = [branch EXCEPT ![sitting.id] = c]
      /\ UNCHANGED <<sitting, entries, disk, writes, waits, changes>>
  BY <1>1 DEF Rewind
<1>3. Once(b) /\ AllTold(b)
  BY <1>1 DEF EvInv, BranchOK
<1>4. c \in Seq(Receipt) /\ Once(c) /\ Ids(c) \subseteq Ids(b) /\ \A m : UpTo(c, m) \subseteq UpTo(b, m)
  BY <1>1, <1>2, <1>3, CutKeeps
<1>5. AllTold(c)
  BY <1>1, <1>2, <1>3, ToldCut
<1> HIDE DEF c
<1> QED BY <1>1, <1>2, <1>4, <1>5, BranchMoves

\* The session ends: what is under way belongs to an older epoch.
LEMMA EndSessionStep ==
  ASSUME EvInv, EndSession
  PROVE  EvInv'
<1>1. sitting \in [id : SessionId, active : BOOLEAN, epoch : Nat]
      /\ sitting' = [sitting EXCEPT !.active = FALSE, !.epoch = sitting.epoch + 1]
      /\ UNCHANGED <<entries, branch, disk, writes, waits>>
  BY DEF EndSession, EvInv, EvTypes
<1>2. sitting' \in [id : SessionId, active : BOOLEAN, epoch : Nat]
      /\ sitting'.active = FALSE /\ sitting'.epoch = sitting.epoch + 1 /\ sitting.epoch \in Nat
  <2> DEFINE n == sitting.epoch + 1
  <2>1. sitting.epoch \in Nat /\ n \in Nat /\ sitting' = [sitting EXCEPT !.active = FALSE, !.epoch = n]
    BY <1>1
  <2> HIDE DEF n
  <2>2. sitting' \in [id : SessionId, active : BOOLEAN, epoch : Nat]
    BY <1>1, <2>1
  <2>3. sitting'.active = FALSE /\ sitting'.epoch = n
    BY <1>1, <2>1
  <2> QED BY <2>1, <2>2, <2>3 DEF n
<1>3. EvTypes'
  BY <1>1, <1>2 DEF EvInv, EvTypes
<1>4. ASSUME NEW c \in WriteCall, writes[c].pc \notin {"idle", "done"}
      PROVE  writes[c].epoch <= sitting'.epoch /\ writes[c].epoch # sitting'.epoch
  <2>1. writes[c] \in WriteRecord /\ writes[c].epoch <= sitting.epoch
    BY <1>4, CallTypes
  <2>2. writes[c].epoch \in Nat
    BY <2>1 DEF WriteRecord
  <2> QED BY <2>1, <2>2, <1>2
<1>5. WritesOK'
  BY <1>1, <1>4 DEF EvInv, WritesOK
<1>6. EntriesOK' /\ StoreOK'
  BY <1>1, <1>2 DEF EvInv, EntriesOK, StoreOK
<1>7. BranchOK' /\ WaitsOK'
  <2>1. sitting'.epoch >= sitting.epoch /\ sitting'.epoch \in Nat /\ sitting'.epoch > sitting.epoch
    BY <1>2
  <2> QED BY <2>1, <1>1, BranchesKept DEF EvInv
<1> QED BY <1>3, <1>5, <1>6, <1>7 DEF EvInv

\* A session begins, and restores its store from its file.
LEMMA BeginSessionStep ==
  ASSUME EvInv, NEW id \in SessionId, NEW forked \in BOOLEAN, BeginSession(id, forked)
  PROVE  EvInv'
<1> DEFINE log == IF forked THEN entries[sitting.id] ELSE entries[id]
<1>1. /\ entries' = [entries EXCEPT ![id] = log] /\ changes' = Restored(id, log)
      /\ sitting' = [id |-> id, active |-> TRUE, epoch |-> sitting.epoch + 1]
      /\ UNCHANGED <<branch, disk, writes, waits>>
  BY DEF BeginSession
<1>2. entries \in [SessionId -> Seq(EntryRecord)] /\ sitting.id \in SessionId /\ sitting.epoch \in Nat
  BY DEF EvInv, EvTypes
<1>3. \E x \in SessionId : log = entries[x]
  BY <1>2
<1> HIDE DEF log
<1>4. log \in Seq(EntryRecord)
  BY <1>2, <1>3
<1>5. entries' \in [SessionId -> Seq(EntryRecord)] /\ entries'[id] = log
      /\ \A x \in SessionId : \E y \in SessionId : entries'[x] = entries[y]
  BY <1>1, <1>2, <1>3, <1>4
<1>6. sitting' \in [id : SessionId, active : BOOLEAN, epoch : Nat] /\ sitting'.id = id
      /\ sitting'.epoch = sitting.epoch + 1
  BY <1>1, <1>2
<1>7. EvTypes'
  BY <1>1, <1>5, <1>6 DEF EvInv, EvTypes
<1>8. ASSUME NEW c \in WriteCall, writes[c].pc \notin {"idle", "done"}
      PROVE  writes[c].epoch <= sitting'.epoch /\ writes[c].epoch # sitting'.epoch
  <2>1. writes[c] \in WriteRecord /\ writes[c].epoch <= sitting.epoch
    BY <1>8, CallTypes
  <2>2. writes[c].epoch \in Nat
    BY <2>1 DEF WriteRecord
  <2> QED BY <2>1, <2>2, <1>2, <1>6
<1>9. WritesOK'
  BY <1>1, <1>8 DEF EvInv, WritesOK
<1>10. EntriesOK'
  <2>1. ASSUME NEW x \in SessionId, NEW k \in DOMAIN entries'[x]
        PROVE  LET e == entries'[x][k]
                   w == writes[e.evidence.id]
               IN w.pc = "done" /\ OwnText(w, e.evidence) /\ w.session = e.session
    <3>1. PICK y \in SessionId : entries'[x] = entries[y]
      BY <1>5
    <3> QED BY <3>1, <2>1 DEF EvInv, EntriesOK
  <2> QED BY <2>1, <1>1 DEF EntriesOK
<1>11. StoreOK'
  <2>1. IsStore(Restored(id, log))
    BY <1>4, RestoredIsStore
  <2>2. Mirrors(changes', id, log)
    BY <2>1, <1>1 DEF Mirrors
  <2> QED BY <2>2, <1>5, <1>6 DEF StoreOK
<1>12. BranchOK' /\ WaitsOK'
  <2>1. sitting'.epoch >= sitting.epoch /\ sitting'.epoch \in Nat /\ sitting'.epoch > sitting.epoch
    BY <1>2, <1>6
  <2> QED BY <2>1, <1>1, BranchesKept DEF EvInv
<1> QED BY <1>7, <1>9, <1>10, <1>11, <1>12 DEF EvInv

\* A session that has just begun has recorded nothing.
LEMMA EvidenceBegins ==
  ASSUME EvidenceAssumption, EvidenceInit
  PROVE  EvInv
<1>1. 1 \in SessionId
  BY DEF SessionId, EvidenceAssumption
<1>2. IdleWrite \in WriteRecord /\ IdleWrite.pc = "idle" /\ IdleWrite.evidence = NoEvidence
  BY TagsApart DEF IdleWrite, WriteRecord
<1>3. IdleWait \in WaitRecord /\ IdleWait.pc # "waiting"
  BY DEF IdleWait, WaitRecord
<1>4. EvTypes
  BY <1>1, <1>2, <1>3 DEF EvidenceInit, EvTypes
<1>5. WritesOK /\ WaitsOK
  BY <1>2, <1>3 DEF EvidenceInit, WritesOK, WaitsOK
<1>6. EntriesOK
  BY DEF EvidenceInit, EntriesOK
<1>7. StoreOK
  BY <1>1, EmptyIsStore, RestoredEmpty DEF EvidenceInit, StoreOK, Mirrors
<1>8. Once(<<>>) /\ AllTold(<<>>) /\ Ids(<<>>) = {}
  BY MutationsEmpty DEF Once, AllTold, Ids
<1>9. BranchOK
  BY <1>8 DEF EvidenceInit, BranchOK
<1> QED BY <1>4, <1>5, <1>6, <1>7, <1>9 DEF EvInv

\* One step of the evidence, whoever takes it.
LEMMA EvidenceSteps ==
  ASSUME EvidenceAssumption, EvInv, [EvidenceNext]_evidenceVars
  PROVE  EvInv'
<1>k. disk \in Content \cup {Gone}
  BY DEF EvInv, EvTypes
<1>1. ASSUME NEW c \in WriteCall, WriteStep(c) PROVE EvInv'
  BY <1>1, BeginWriteStep, TakeBeforeStep, RunToolStep, FailToolStep, ToolResultStep, TakeAfterStep, EndWriteStep DEF WriteStep
<1>2. ASSUME NEW v \in Content \cup {Gone}, ForeignEdit(v) PROVE EvInv'
  BY <1>2, EvKept DEF ForeignEdit
<1>3. ASSUME NEW named \in BOOLEAN, StartAgent(named) PROVE EvInv'
  BY <1>3, <1>k, EvKept DEF StartAgent
<1>4. ASSUME NEW h \in ReviewWait, AgentEnds(h) PROVE EvInv'
  <2>1. CASE waits' = waits
    BY <2>1, <1>4, <1>k, EvKept DEF AgentEnds
  <2>2. CASE Await(h, "nudged", Pending(branch[sitting.id]))
    BY <2>2, <1>4, AwaitStep DEF AgentEnds
  <2> QED BY <2>1, <2>2, <1>4 DEF AgentEnds
<1>5. ASSUME NEW h \in ReviewWait, BeginAcknowledge(h) PROVE EvInv'
  BY <1>5, AwaitStep DEF BeginAcknowledge
<1>6. ASSUME NEW h \in ReviewWait, NEW answer \in BOOLEAN, StatusAnswers(h, answer) PROVE EvInv'
  BY <1>6, AnswerStep DEF StatusAnswers, MayNudge
<1>7. ASSUME NEW h \in ReviewWait, NEW answer \in BOOLEAN, AcknowledgeAnswers(h, answer) PROVE EvInv'
  BY <1>7, AnswerStep DEF AcknowledgeAnswers
<1>8. ASSUME NEW n \in 0..Cardinality(WriteCall), Rewind(n) PROVE EvInv'
  <2>1. n \in Nat
    OBVIOUS
  <2> QED BY <2>1, <1>8, RewindStep
<1>9. ASSUME SessionStep PROVE EvInv'
  BY <1>9, EndSessionStep, BeginSessionStep DEF SessionStep
<1>10. ASSUME UNCHANGED evidenceVars PROVE EvInv'
  BY <1>10, <1>k, EvKept DEF evidenceVars
<1>11. ASSUME ReminderStep PROVE EvInv'
  BY <1>11, <1>3, <1>4, <1>5, <1>6, <1>7, <1>8 DEF ReminderStep
<1> QED BY <1>1, <1>2, <1>9, <1>10, <1>11 DEF EvidenceNext

\* What the invariant says of the reminders, the store and the kept texts.
LEMMA EvidenceFollows ==
  ASSUME EvInv
  PROVE  EvidenceIsExact
<1>1. RemindersAreExact
  BY ToldIsExact DEF EvInv, BranchOK
<1>2. ReplayAgrees
  BY DEF EvInv, StoreOK, Mirrors, ReplayAgrees
<1>3. KeptTextIsOwn
  BY DEF EvInv, EntriesOK, OwnText, KeptTextIsOwn
<1> QED BY <1>1, <1>2, <1>3 DEF EvidenceIsExact

\* Whatever ends, acknowledgements, tree walks, reloads, forks and external edits
\* overlap the awaits of a tool call and of a STATUS, no mutation is reminded
\* twice or consumed unasked, the diff shown is the one the session file restores,
\* and a kept change between two texts is what its own call did: the text it wrote
\* or the patch it made (agent_end in gentle-ai.ts, session-change-capture.ts,
\* session-changes.ts).
THEOREM EvidenceStaysExact == EvidenceSpec => []EvidenceIsExact
<1>1. EvidenceInit => EvInv
  BY EvidenceAssumption, EvidenceBegins
<1>2. EvInv /\ [EvidenceNext]_evidenceVars => EvInv'
  BY EvidenceAssumption, EvidenceSteps
<1>3. EvInv => EvidenceIsExact
  BY EvidenceFollows
<1> QED BY <1>1, <1>2, <1>3, PTL DEF EvidenceSpec
=============================================================================
