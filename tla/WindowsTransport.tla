-------------------------- MODULE WindowsTransport --------------------------
(***************************************************************************)
(* The session transport on Windows (lib/windows-session-transport.ts): a  *)
(* listener object and the Node side of the PowerShell helper that owns    *)
(* the named pipe.  The helper is external; it may answer late, never, out *)
(* of order with its own failure events, or die.                           *)
(***************************************************************************)
EXTENDS Naturals, FiniteSets

VARIABLES
  win,      \* WindowsActiveSessionListener: state, and whether it has a record
  opening,  \* its start(): "none", "waiting" for listen, "over"
  leaving,  \* its close(): what it waits for
  epoch,    \* the listener generation: "none", "pending" or "active"
  stopped,  \* WindowsSessionTransportHost.stopped
  owned,    \* the host still holds the child
  release,  \* the cleanup promise: "none", "waiting", "resolved", "rejected"
  grace,    \* cleanupTimer: "none", "kill" or "fail"
  asked,    \* requests the helper has not read
  lines,    \* lines of the helper that the host has not read
  waiting,  \* requests in the pending table
  helper,   \* the child process: "up" or "gone"
  armed     \* the helper listens and has published its record

listenerVars == <<win, opening, leaving>>
helperProcVars == <<owned, release, grace>>
helperPipeVars == <<asked, lines, waiting>>
helperVars == <<helper, armed>>
windowsVars == <<listenerVars, epoch, stopped, helperProcVars, helperPipeVars, helperVars>>

\* The registry has started its helper and initialized it.
WindowsInit ==
  /\ win = [state |-> "idle", record |-> FALSE]
  /\ opening = "none" /\ leaving = "none"
  /\ epoch = "none" /\ stopped = FALSE
  /\ owned = TRUE /\ release = "none" /\ grace = "none"
  /\ asked = {} /\ lines = {} /\ waiting = {}
  /\ helper = "up" /\ armed = FALSE

-----------------------------------------------------------------------------
(* The host.                                                               *)

\* requestWithDeadline(), when the host can still send.
CanRequest == owned /\ ~stopped
Request(r) == asked' = asked \cup {r} /\ waiting' = waiting \cup {r}

\* releaseOwnedChild(): the promise is made once; the helper gets a grace
\* period, or none.
Release(killNow) ==
  IF release # "none" \/ ~owned THEN UNCHANGED <<release, grace>>
  ELSE release' = "waiting" /\ grace' = IF killNow THEN "fail" ELSE "kill"

\* What a rejected listen does to start().
OpenFailed(s) == [s EXCEPT !.state = IF @ = "closed" THEN @ ELSE "idle", !.record = FALSE]

\* fail() of the listener object, called by the host's failure callback.
Told(s) == IF s.state \in {"starting", "active"} THEN [state |-> "idle", record |-> FALSE] ELSE s

\* abort(): revoke the epoch, stop, settle every request, tell the listener.
Abort(closeChild) ==
  /\ ~stopped
  /\ stopped' = TRUE /\ epoch' = "none" /\ waiting' = {}
  /\ win' = IF "listen" \in waiting THEN OpenFailed(Told(win))
            ELSE IF epoch # "none" THEN Told(win) ELSE win
  /\ opening' = IF opening = "waiting" THEN "over" ELSE opening
  /\ Release(closeChild)

\* exit of the child, or an error on one of its streams.
ChildFails ==
  /\ owned
  /\ (helper = "gone" /\ Abort(FALSE)) \/ Abort(TRUE)
  /\ UNCHANGED <<leaving, owned, asked, lines, helperVars>>

\* handleChildClose().
ChildClosed ==
  /\ owned /\ helper = "gone" /\ stopped
  /\ owned' = FALSE /\ grace' = "none"
  /\ release' = IF release = "waiting" THEN "resolved" ELSE release
  /\ UNCHANGED <<listenerVars, epoch, stopped, helperPipeVars, helperVars>>

\* The first timer of scheduleCleanupKill() kills the child.
GraceOver ==
  /\ grace = "kill" /\ grace' = "fail"
  /\ UNCHANGED <<listenerVars, epoch, stopped, owned, release, helperPipeVars, helperVars>>

\* failCleanup(): the child goes to callbacks of its own, the promise rejects.
CleanupFails ==
  /\ grace = "fail" /\ owned
  /\ owned' = FALSE /\ grace' = "none" /\ release' = "rejected"
  /\ UNCHANGED <<listenerVars, epoch, stopped, helperPipeVars, helperVars>>

-----------------------------------------------------------------------------
(* start() of the listener, and listen() of the host.                      *)

WinStart ==
  /\ win.state = "idle" /\ opening = "none" /\ leaving = "none"
  /\ win' = IF CanRequest THEN [win EXCEPT !.state = "starting"] ELSE win
  /\ IF CanRequest
     THEN opening' = "waiting" /\ epoch' = "pending" /\ Request("listen") /\ UNCHANGED lines
     ELSE opening' = "over" /\ UNCHANGED <<epoch, helperPipeVars>>
  /\ UNCHANGED <<leaving, stopped, helperProcVars, helperVars>>

\* The reply to listen.  A revoked epoch makes it a failure; a listener that
\* was closed meanwhile stops what the helper has just armed.
Listening ==
  /\ owned /\ ~stopped /\ "listening" \in lines /\ "listen" \in waiting
  /\ lines' = lines \ {"listening"} /\ opening' = "over"
  /\ CASE epoch = "pending" /\ win.state = "starting" ->
            /\ win' = [state |-> "active", record |-> TRUE] /\ epoch' = "active"
            /\ waiting' = waiting \ {"listen"} /\ UNCHANGED asked
       [] epoch = "pending" /\ win.state # "starting" ->
            /\ UNCHANGED win /\ epoch' = "none"
            /\ asked' = asked \cup {"unlisten"} /\ waiting' = (waiting \ {"listen"}) \cup {"unlisten"}
       [] OTHER -> /\ win' = OpenFailed(win) /\ UNCHANGED <<epoch, asked>>
                   /\ waiting' = waiting \ {"listen"}
  /\ UNCHANGED <<leaving, stopped, helperProcVars, helperVars>>

\* The helper refuses to listen, or does not answer in time.
ListenFails ==
  /\ owned /\ ~stopped /\ "listen" \in waiting
  /\ waiting' = waiting \ {"listen"} /\ lines' = lines \ {"refused"}
  /\ win' = OpenFailed(win) /\ opening' = "over"
  /\ epoch' = IF epoch = "pending" THEN "none" ELSE epoch
  /\ UNCHANGED <<leaving, stopped, helperProcVars, asked, helperVars>>

\* A listener-failed event of the current epoch.
ListenerFailed ==
  /\ owned /\ ~stopped /\ "failed" \in lines
  /\ lines' = lines \ {"failed"}
  /\ IF epoch = "none" THEN UNCHANGED <<win, epoch>> ELSE epoch' = "none" /\ win' = Told(win)
  /\ UNCHANGED <<opening, leaving, stopped, helperProcVars, asked, waiting, helperVars>>

\* Any other reply, its deadline or a failed write settles its request.
Answered(r) ==
  /\ r \in waiting \ {"listen"}
  /\ waiting' = waiting \ {r} /\ lines' = lines \ {r}
  /\ UNCHANGED <<listenerVars, epoch, stopped, helperProcVars, asked, helperVars>>

-----------------------------------------------------------------------------
(* close() of the listener, which also closes the registry and its host.   *)

WinClose ==
  /\ win.state # "closed"
  /\ win' = [state |-> "closed", record |-> FALSE]
  /\ IF win.record
     THEN /\ epoch' = "none" /\ leaving' = "stop"
          /\ IF CanRequest THEN Request("stop") /\ UNCHANGED lines ELSE UNCHANGED helperPipeVars
     ELSE leaving' = "host" /\ UNCHANGED <<epoch, helperPipeVars>>
  /\ UNCHANGED <<opening, stopped, helperProcVars, helperVars>>

StopReturned ==
  /\ leaving = "stop" /\ "stop" \notin waiting
  /\ leaving' = "host"
  /\ UNCHANGED <<win, opening, epoch, stopped, helperProcVars, helperPipeVars, helperVars>>

\* host.close(): an earlier cleanup is awaited, a lost child needs none, and
\* otherwise the helper is asked to shut down.
HostClose ==
  /\ leaving = "host"
  /\ epoch' = "none"
  /\ CASE release # "none" -> leaving' = "cleanup" /\ UNCHANGED <<stopped, helperPipeVars>>
       [] release = "none" /\ ~owned ->
            leaving' = "done" /\ stopped' = TRUE /\ UNCHANGED helperPipeVars
       [] OTHER -> /\ leaving' = "shutdown" /\ UNCHANGED <<stopped, lines>>
                   /\ IF stopped THEN UNCHANGED <<asked, waiting>> ELSE Request("shutdown")
  /\ UNCHANGED <<win, opening, helperProcVars, helperVars>>

HostCloseReleases_NoTimer ==
  /\ leaving = "shutdown" /\ "shutdown" \notin waiting
  /\ stopped' = TRUE
  /\ IF release = "none" /\ owned THEN release' = "waiting" ELSE UNCHANGED release
  /\ leaving' = IF release = "none" /\ ~owned THEN "done" ELSE "cleanup"
  /\ UNCHANGED <<win, opening, epoch, owned, grace, helperPipeVars, helperVars>>

HostCloseReleases ==
  /\ leaving = "shutdown" /\ "shutdown" \notin waiting
  /\ stopped' = TRUE /\ Release(FALSE)
  /\ leaving' = IF release = "none" /\ ~owned THEN "done" ELSE "cleanup"
  /\ UNCHANGED <<win, opening, epoch, owned, helperPipeVars, helperVars>>

CloseSettled ==
  /\ leaving = "cleanup" /\ release \in {"resolved", "rejected"}
  /\ leaving' = IF release = "resolved" THEN "done" ELSE "failed"
  /\ UNCHANGED <<win, opening, epoch, stopped, helperProcVars, helperPipeVars, helperVars>>

-----------------------------------------------------------------------------
(* The helper, as the host's requests and the lines it reads describe it.  *)

\* It carries out a request and writes a reply, unless it is beyond that.
HelperActs(r) ==
  /\ helper = "up" /\ r \in asked
  /\ asked' = asked \ {r}
  /\ CASE r = "listen" -> \/ armed' = TRUE /\ lines' = lines \cup {"listening"}
                          \/ armed' = FALSE /\ lines' = lines \cup {"refused"}
       [] OTHER -> armed' = FALSE /\ lines' = lines \cup {r}
  /\ UNCHANGED <<listenerVars, epoch, stopped, helperProcVars, waiting, helper>>

\* Its pipe fails: the record is withdrawn and an event written.
HelperFails ==
  /\ helper = "up" /\ armed
  /\ armed' = FALSE /\ lines' = lines \cup {"failed"}
  /\ UNCHANGED <<listenerVars, epoch, stopped, helperProcVars, asked, waiting, helper>>

HelperDies ==
  /\ helper = "up"
  /\ helper' = "gone" /\ armed' = FALSE /\ asked' = {}
  /\ UNCHANGED <<listenerVars, epoch, stopped, helperProcVars, lines, waiting>>

-----------------------------------------------------------------------------
WindowsHost ==
  \/ ChildFails \/ ChildClosed \/ GraceOver \/ CleanupFails
  \/ Listening \/ ListenFails \/ ListenerFailed
  \/ \E r \in {"stop", "unlisten", "shutdown"} : Answered(r)
  \/ StopReturned \/ HostClose \/ HostCloseReleases \/ CloseSettled

WindowsNext ==
  \/ WindowsHost \/ WinStart \/ WinClose
  \/ \E r \in {"listen", "stop", "unlisten", "shutdown"} : HelperActs(r)
  \/ HelperFails \/ HelperDies

\* Deadlines and timers fire and continuations run.  The helper owes nothing.
WindowsFairness ==
  /\ \A r \in {"stop", "unlisten", "shutdown"} : WF_windowsVars(Answered(r))
  /\ WF_windowsVars(StopReturned) /\ WF_windowsVars(HostClose)
  /\ WF_windowsVars(HostCloseReleases) /\ WF_windowsVars(CloseSettled)
  /\ WF_windowsVars(GraceOver) /\ WF_windowsVars(CleanupFails)

WindowsSpec == WindowsInit /\ [][WindowsNext]_windowsVars /\ WindowsFairness

-----------------------------------------------------------------------------
\* close() settles even when the helper never answers and never dies
\* (requestWithDeadline, scheduleCleanupKill, failCleanup).
CloseSettles == (leaving # "none") ~> (leaving \in {"done", "failed"})
=============================================================================
