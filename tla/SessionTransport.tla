-------------------------- MODULE SessionTransport --------------------------
(***************************************************************************)
(* Messages between orchestrator sessions on one machine: the session      *)
(* transport of a host (extensions/gentle-agents.ts), its listener, the    *)
(* directory of presence records, and a sender in another process          *)
(* (lib/agents-session-transport.ts).                                      *)
(*                                                                         *)
(* Every session_start makes a new activation, with a listener, an         *)
(* endpoint and a record of its own; activations are numbered in that      *)
(* order, which is also the order of createdAt.  One action is one         *)
(* continuation: what runs between two awaits.                             *)
(***************************************************************************)
EXTENDS Naturals, FiniteSets

CONSTANTS
  MaxStarts,     \* bound: how many activations there are
  MaxCrashes,    \* bound: how often the host process dies
  MaxEntries,    \* MAX_ENTRIES of the presence directory
  MaxCallbacks,  \* MAX_CALLBACKS of a listener
  Message,       \* outbound notifications
  Session,       \* session IDs
  SessionOf      \* the session an activation belongs to

Activation == 1 .. MaxStarts

ASSUME TransportAssumption ==
  /\ MaxStarts \in Nat /\ MaxCrashes \in Nat
  /\ MaxEntries \in Nat /\ MaxCallbacks \in Nat
  /\ Session # {}
  /\ SessionOf \in [Activation -> Session]

VARIABLES
  started,    \* activations made so far
  crashes,    \* deaths of the host process so far
  current,    \* the activation that carries transportGeneration, or 0
  active,     \* activeSessionTransport, or 0
  startup,    \* the operation of startSessionTransport, per activation
  closing,    \* activations whose transport.close() was called
  shutdown,   \* the session_shutdown handler
  dead,       \* activations of processes that died
  lis,        \* the ActiveSessionListener of each activation
  published,  \* activations whose record is in the presence directory
  out         \* the outbound notifications

hostVars == <<started, crashes, current, active, startup, closing, shutdown, dead>>
transportVars == <<hostVars, lis, published, out>>

\* state: ListenerState; step: where doStart() is; tidy: cleanup();
\* finish: finishClose(), holds: whether it was given a record.
NewListener ==
  [state |-> "idle", step |-> "none", server |-> "none",
   tidy |-> "none", finish |-> "none", holds |-> FALSE]

\* at: where begin() is; wire: the connection as the listener sees it;
\* queued: the callback is scheduled; landed: the session that got the message.
NewMessage ==
  [at |-> "idle", to |-> CHOOSE s \in Session : TRUE, bound |-> 0, route |-> 0,
   wire |-> "none", queued |-> FALSE, landed |-> {}, result |-> "none"]

TransportInit ==
  /\ started = 0 /\ crashes = 0 /\ current = 0 /\ active = 0
  /\ startup = [a \in Activation |-> "none"]
  /\ closing = {} /\ dead = {} /\ shutdown = "done"
  /\ lis = [a \in Activation |-> NewListener]
  /\ published = {}
  /\ out = [m \in Message |-> NewMessage]

-----------------------------------------------------------------------------
(* The listener.  Operators on its record, composed by the actions.        *)

Owns(l) == l.state \in {"starting", "accepting"}
Alive(a) == a <= started /\ a \notin dead
Record(l) == l.step = "ok"

\* cleanup(): its first part runs at once, the record goes later, and only
\* the first call counts.
Cleanup(l, withRecord) ==
  IF l.tidy # "none" THEN l
  ELSE [l EXCEPT !.tidy = IF withRecord THEN "owned" ELSE "bare",
                 !.server = IF @ = "listening" THEN "closed" ELSE @]

BeginClose(l, withRecord) ==
  IF l.finish # "none" THEN l
  ELSE [Cleanup(l, withRecord) EXCEPT !.finish = "cleanup", !.holds = withRecord]

Close(l) ==
  IF l.state \in {"failed", "closed"} THEN BeginClose(l, Record(l))
  ELSE BeginClose([l EXCEPT !.state = "closed"], Record(l))

\* fail(): the server reported an error.
FailListener(l) == BeginClose([l EXCEPT !.state = "failed"], TRUE)

\* Cleaning up settles and destroys the sockets of the listener.
Hangup(m, a) ==
  IF m.route = a /\ m.wire \in {"connected", "processing"} THEN [m EXCEPT !.wire = "closed"] ELSE m
HangupAll(a) == [m \in Message |-> Hangup(out[m], a)]

\* What a step does to the listener of a; its sockets follow when it begins to
\* clean up.
Becomes(a, l) ==
  /\ lis' = [lis EXCEPT ![a] = l]
  /\ out' = IF lis[a].tidy = "none" /\ l.tidy # "none" THEN HangupAll(a) ELSE out

Settled(l) == l.step \in {"none", "ok", "failed"}
Step(a, at) == Alive(a) /\ lis[a].step = at

\* record() and the lstat() of a fresh endpoint, then listen(): it succeeds,
\* the path is unsafe, or the server reports an error.
Bind(a) ==
  /\ Step(a, "record")
  /\ \/ /\ Owns(lis[a])
        /\ Becomes(a, [lis[a] EXCEPT !.step = "chmod", !.server = "listening"])
     \/ /\ Owns(lis[a])
        /\ Becomes(a, FailListener([lis[a] EXCEPT !.step = "unwind"]))
     \/ Becomes(a, [lis[a] EXCEPT !.step = "unwind"])
  /\ UNCHANGED <<hostVars, published>>

\* lstat() and chmod() of the socket; then publish() starts.
Chmod(a) ==
  /\ Step(a, "chmod")
  /\ \/ /\ Owns(lis[a])
        /\ Becomes(a, [lis[a] EXCEPT !.step = "publish", !.state = "accepting"])
     \/ Becomes(a, [lis[a] EXCEPT !.step = "unwind"])
  /\ UNCHANGED <<hostVars, published>>

\* publish(): link() makes the record visible whatever happened meanwhile.
Link(a) ==
  /\ Step(a, "publish")
  /\ \/ /\ published' = published \cup {a}
        /\ Becomes(a, [lis[a] EXCEPT !.step = "linked"])
     \/ /\ Becomes(a, [lis[a] EXCEPT !.step = "unwind"])
        /\ UNCHANGED published
  /\ UNCHANGED hostVars

\* publish() returned, or failed after its link().
Linked_Unchecked(a) ==
  /\ Step(a, "linked")
  /\ Becomes(a, [lis[a] EXCEPT !.step = "ok", !.state = IF @ = "accepting" THEN "active" ELSE @])
  /\ UNCHANGED <<hostVars, published>>

Linked(a) ==
  /\ Step(a, "linked")
  /\ \/ /\ Owns(lis[a])
        /\ Becomes(a, [lis[a] EXCEPT !.step = "ok", !.state = "active"])
     \/ Becomes(a, [lis[a] EXCEPT !.step = "unwind"])
  /\ UNCHANGED <<hostVars, published>>

\* The catch block of doStart(): cleanup(), then removeOwn().
Unwind(a) ==
  /\ Step(a, "unwind")
  /\ Becomes(a, [Cleanup(lis[a], TRUE) EXCEPT !.step = "unwinding"])
  /\ UNCHANGED <<hostVars, published>>

Unwound(a) ==
  /\ Step(a, "unwinding") /\ lis[a].tidy = "done"
  /\ published' = published \ {a}
  /\ Becomes(a, IF lis[a].state \in {"failed", "closed"} THEN [lis[a] EXCEPT !.step = "failed"]
                ELSE [lis[a] EXCEPT !.step = "failed", !.state = "idle", !.tidy = "none"])
  /\ UNCHANGED hostVars

\* The server reports an error while it listens.
ServerError(a) ==
  /\ Alive(a) /\ lis[a].server = "listening" /\ lis[a].state \notin {"failed", "closed"}
  /\ Becomes(a, FailListener(lis[a]))
  /\ UNCHANGED <<hostVars, published>>

\* The server's connections are gone; the record is removed if there is one.
CleanedUp(a) ==
  /\ Alive(a) /\ lis[a].tidy \in {"bare", "owned"}
  /\ published' = IF lis[a].tidy = "owned" THEN published \ {a} ELSE published
  /\ Becomes(a, [lis[a] EXCEPT !.tidy = "done"])
  /\ UNCHANGED hostVars

\* finishClose(): cleanup, the startup that may still run, cleanup again (the
\* same promise), and the record once more.
AwaitStartup(a) ==
  /\ Alive(a) /\ lis[a].finish = "cleanup" /\ lis[a].tidy = "done"
  /\ Becomes(a, [lis[a] EXCEPT !.finish = "startup"])
  /\ UNCHANGED <<hostVars, published>>

Closed(a) ==
  /\ Alive(a) /\ lis[a].finish = "startup" /\ Settled(lis[a])
  /\ published' = IF lis[a].holds THEN published \ {a} ELSE published
  /\ Becomes(a, [lis[a] EXCEPT !.finish = "done"])
  /\ UNCHANGED hostVars

-----------------------------------------------------------------------------
(* The host.                                                               *)

\* Close the transport of a, if it is one, while doing the rest of a step.
CloseTransport(a) ==
  IF a = 0 THEN UNCHANGED <<closing, lis, out>>
  ELSE closing' = closing \cup {a} /\ Becomes(a, Close(lis[a]))

\* session_start: the previous transport closes, a new activation starts.
SessionStart ==
  /\ shutdown \in {"no", "done"} /\ started < MaxStarts
  /\ started' = started + 1
  /\ current' = started + 1 /\ active' = 0 /\ shutdown' = "no"
  /\ startup' = [startup EXCEPT ![started + 1] = "registry"]
  /\ CloseTransport(active)
  /\ UNCHANGED <<crashes, dead, published>>

\* createRegistry() returned: a superseded startup ends; another one binds its
\* callback and starts the listener.
RegistryReady(a) ==
  /\ Alive(a) /\ startup[a] = "registry"
  /\ \/ /\ startup' = [startup EXCEPT ![a] = "over"]
        /\ UNCHANGED <<active, lis, out>>
     \/ /\ current = a
        /\ active' = a
        /\ startup' = [startup EXCEPT ![a] = "starting"]
        /\ Becomes(a, [lis[a] EXCEPT !.state = "starting", !.step = "record"])
  /\ UNCHANGED <<started, crashes, current, closing, shutdown, dead, published>>

\* listener.start() settled.
StartReturned(a) ==
  /\ Alive(a) /\ startup[a] = "starting" /\ lis[a].step \in {"ok", "failed"}
  /\ IF current = a /\ lis[a].step = "ok"
     THEN /\ startup' = [startup EXCEPT ![a] = "up"]
          /\ UNCHANGED <<active, closing, lis, out>>
     ELSE /\ startup' = [startup EXCEPT ![a] = "closing"]
          /\ active' = IF active = a THEN 0 ELSE active
          /\ CloseTransport(a)
  /\ UNCHANGED <<started, crashes, current, shutdown, dead, published>>

StartupClosed(a) ==
  /\ Alive(a) /\ startup[a] = "closing" /\ lis[a].finish = "done"
  /\ startup' = [startup EXCEPT ![a] = "over"]
  /\ UNCHANGED <<started, crashes, current, active, closing, shutdown, dead, lis, published, out>>

\* shutdownSessionTransport(): close what is active, then wait for everything
\* in pendingTransportStartups.
Shutdown ==
  /\ shutdown = "no"
  /\ shutdown' = "waiting" /\ active' = 0 /\ current' = 0
  /\ CloseTransport(active)
  /\ UNCHANGED <<started, crashes, startup, dead, published>>

Quiet(a) ==
  /\ startup[a] \in {"none", "up", "over"}
  /\ a \in closing => lis[a].finish = "done"

ShutdownReturns ==
  /\ shutdown = "waiting"
  /\ \A a \in Activation : Alive(a) => Quiet(a)
  /\ shutdown' = "done"
  /\ UNCHANGED <<started, crashes, current, active, startup, closing, dead, lis, published, out>>

\* The process dies: its listeners and sockets are gone, its records stay.
Crash ==
  /\ crashes < MaxCrashes /\ \E a \in Activation : Alive(a)
  /\ crashes' = crashes + 1
  /\ dead' = 1 .. started
  /\ current' = 0 /\ active' = 0 /\ shutdown' = "done"
  /\ lis' = [a \in Activation |-> NewListener]
  /\ out' = [m \in Message |->
               IF out[m].route > 0 /\ Alive(out[m].route)
               THEN [Hangup(out[m], out[m].route) EXCEPT !.queued = FALSE] ELSE out[m]]
  /\ startup' = [a \in Activation |-> "none"] /\ closing' = {}
  /\ UNCHANGED <<started, published>>

-----------------------------------------------------------------------------
(* The sender, and its connection to a listener.                           *)

Records(s) == {a \in published : SessionOf[a] = s}
Newest(S) == {a \in S : \A b \in S : b <= a}

\* settle(): an error of any code is "failed"; the socket is destroyed.
Change(m, rec) == out' = [out EXCEPT ![m] = rec]
Give(m, result) ==
  [out[m] EXCEPT !.at = "settled", !.result = result, !.wire = "none", !.bound = 0,
                 !.route = IF out[m].queued THEN @ ELSE 0]

\* sendNotification(), to a session by its ID or to an activation that
\* listActivations() returned.
Send(m, s) ==
  /\ out[m].at = "idle"
  /\ \E b \in {0} \cup Newest(Records(s)) :
       Change(m, [out[m] EXCEPT !.at = "resolve", !.to = s, !.bound = b])
  /\ UNCHANGED <<hostVars, lis, published>>

\* resolve(): the newest record.  Too many entries, no record, another
\* activation than the expected one, or a beforeConnect() that refuses, fail the
\* send.
Resolve(m) ==
  /\ out[m].at = "resolve"
  /\ \/ Change(m, Give(m, "failed"))
     \/ \E a \in Newest(Records(out[m].to)) :
          /\ Cardinality(published) <= MaxEntries /\ out[m].bound \in {0, a}
          /\ Change(m, [out[m] EXCEPT !.at = "connect", !.bound = 0, !.route = a])
  /\ UNCHANGED <<hostVars, lis, published>>

Sockets(a) == {m \in Message : out[m].route = a /\ out[m].wire \in {"connected", "processing"}}

\* connect(): accept() takes the socket or destroys it; with nobody listening
\* the record is stale.
Connect(m) ==
  /\ out[m].at = "connect"
  /\ LET a == out[m].route
         l == lis[a]
     IN IF l.server # "listening" THEN Change(m, [out[m] EXCEPT !.at = "stale"])
        ELSE IF l.state \in {"accepting", "active"} /\ Cardinality(Sockets(a)) < MaxCallbacks
        THEN Change(m, [out[m] EXCEPT !.at = "sent", !.wire = "connected"])
        ELSE Change(m, Give(m, "failed"))
  /\ UNCHANGED <<hostVars, lis, published>>

\* stale(): removeOwn() of the record that was resolved.
RemoveStale(m) ==
  /\ out[m].at = "stale"
  /\ published' = published \ {out[m].route}
  /\ Change(m, Give(m, "failed"))
  /\ UNCHANGED <<hostVars, lis>>

\* The frame arrives: remembered, and its callback scheduled.
Receive(m) ==
  /\ out[m].wire = "connected"
  /\ Change(m, [out[m] EXCEPT !.wire = "processing", !.queued = TRUE])
  /\ UNCHANGED <<hostVars, lis, published>>

\* The callback of startSessionTransport: it delivers to the session of the
\* moment, if that is still the one it was made for, or throws.
Answer(m, wire) == IF out[m].wire = "processing" THEN wire ELSE out[m].wire
After(m) == IF out[m].at = "settled" THEN 0 ELSE out[m].route

Deliver_AnySession(m) ==
  /\ out[m].queued
  /\ Change(m, [out[m] EXCEPT !.queued = FALSE, !.route = After(m), !.wire = Answer(m, "accepted"),
                              !.landed = @ \cup (IF current = 0 THEN {} ELSE {SessionOf[current]})])
  /\ UNCHANGED <<hostVars, lis, published>>

Deliver(m) ==
  /\ out[m].queued
  /\ LET a == out[m].route IN
       IF active = a /\ current = a
       THEN Change(m, [out[m] EXCEPT !.queued = FALSE, !.route = After(m), !.wire = Answer(m, "accepted"),
                                     !.landed = @ \cup {SessionOf[current]}])
       ELSE Change(m, [out[m] EXCEPT !.queued = FALSE, !.route = After(m), !.wire = Answer(m, "refused")])
  /\ UNCHANGED <<hostVars, lis, published>>

\* The listener's callback deadline.
CallbackDeadline(m) ==
  /\ out[m].wire = "processing"
  /\ Change(m, [out[m] EXCEPT !.wire = "refused"])
  /\ UNCHANGED <<hostVars, lis, published>>

\* The answer, or the end of the connection, reaches the sender.
AnswerArrives(m) ==
  /\ out[m].at = "sent" /\ out[m].wire \in {"accepted", "refused", "closed"}
  /\ Change(m, Give(m, IF out[m].wire = "accepted" THEN "accepted" ELSE "failed"))
  /\ UNCHANGED <<hostVars, lis, published>>

\* A deadline of the sender, an abort, or the closing of its client.
GiveUp(m) ==
  /\ out[m].at \in {"resolve", "connect", "sent"}
  /\ Change(m, Give(m, "failed"))
  /\ UNCHANGED <<hostVars, lis, published>>

-----------------------------------------------------------------------------
ListenerStep(a) ==
  \/ Bind(a) \/ Chmod(a) \/ Link(a) \/ Linked(a) \/ Unwind(a) \/ Unwound(a)
  \/ CleanedUp(a) \/ AwaitStartup(a) \/ Closed(a)

HostStep(a) == RegistryReady(a) \/ StartReturned(a) \/ StartupClosed(a)

SendStep(m) ==
  \/ \E s \in Session : Send(m, s)
  \/ Resolve(m) \/ Connect(m) \/ RemoveStale(m)
  \/ Receive(m) \/ Deliver(m) \/ CallbackDeadline(m) \/ AnswerArrives(m) \/ GiveUp(m)

TransportNext ==
  \/ SessionStart \/ Shutdown \/ ShutdownReturns \/ Crash
  \/ \E a \in Activation : ListenerStep(a) \/ HostStep(a) \/ ServerError(a)
  \/ \E m \in Message : SendStep(m)

TransportSpec == TransportInit /\ [][TransportNext]_transportVars

-----------------------------------------------------------------------------
\* Once session_shutdown has returned, the process advertises no record and
\* listens on no endpoint, whatever startup or failure it interrupted
\* (shutdownSessionTransport, finishClose, doStart's catch block).
ShutdownLeavesNothing ==
  shutdown = "done" =>
    \A a \in Activation : Alive(a) => a \notin published /\ lis[a].server # "listening"

\* A sender is told "accepted" only when the session it addressed got the
\* message; a message that arrives around a change of sessions never lands in
\* another one (the callback of startSessionTransport, settle()).
AcceptedReached ==
  \A m \in Message :
    /\ out[m].landed \subseteq {out[m].to}
    /\ out[m].result = "accepted" => out[m].landed # {}

=============================================================================
