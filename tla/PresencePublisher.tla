------------------------- MODULE PresencePublisher -------------------------
(***************************************************************************)
(* The presence files of a session (lib/orchestrator-presence.ts) and the  *)
(* code of the agents extension that feeds them.  The publisher writes an  *)
(* activity file and then a header, with synchronous calls, so nothing of  *)
(* its own process runs between the two; a reader in another process, or a *)
(* crash, may come between them.                                           *)
(***************************************************************************)
EXTENDS Naturals

CONSTANTS
  Content,     \* what projectActivity() can return
  Empty,       \* the activity without tasks
  Oversized,   \* the contents that exceed ACTIVITY_LIMIT
  Counts,      \* the counts of a content
  MaxChanges,  \* bound: changes of the task store
  MaxPublishers,   \* bound: publishers started
  MaxFaults    \* bound: failed writes and crashes

ASSUME PresenceAssumption ==
  /\ Empty \in Content /\ Oversized \subseteq Content \ {Empty}
  /\ DOMAIN Counts = Content /\ {MaxChanges, MaxPublishers, MaxFaults} \subseteq Nat

VARIABLES
  session,   \* the extension has a session
  tasks,     \* what publishActivity() would project now
  changes,
  publisher, \* the PresencePublisher, or Absent
  flushing,  \* the header is still to be written
  incarnations,
  files,     \* incarnation -> its two files
  crashed,   \* incarnations whose process died
  faults,
  picked,    \* the header a reader has selected
  answer     \* what readActivity() returned for it

sourceVars == <<session, tasks, changes>>
readerVars == <<picked, answer>>
presenceVars == <<sourceVars, publisher, flushing, incarnations, files, crashed, faults, readerVars>>

Absent == [state |-> "absent"]
NoFile == [file |-> "none"]
NoFiles == [activity |-> NoFile, header |-> NoFile]
Nothing == [activity |-> "none"]

PresenceInit ==
  /\ session = FALSE /\ tasks = Empty /\ changes = 0
  /\ publisher = Absent /\ flushing = FALSE /\ incarnations = 0
  /\ files = [i \in 1..MaxPublishers |-> NoFiles] /\ crashed = {} /\ faults = 0
  /\ picked = NoFile /\ answer = Nothing

Live(p) == p.state = "live"

-----------------------------------------------------------------------------
(* The publisher.                                                          *)

\* dispose() unlinks the files this publisher wrote.
Disposed(p, fs) == IF Live(p) THEN [fs EXCEPT ![p.inc] = NoFiles] ELSE fs

\* update(): a timer is armed only for a content that is not on disk.
Updated(p, next) ==
  IF next = p.pending THEN p
  ELSE [p EXCEPT !.pending = next, !.timer = @ \/ next # p.published]

\* The first half of flush(): the activity file, unless it is too large.
WithActivity(p, fs) ==
  [fs EXCEPT ![p.inc].activity =
     IF p.pending \in Oversized THEN @
     ELSE [file |-> "activity", gen |-> p.gen + 1, content |-> p.pending]]

\* The header that describes generation p.gen + 1.
HeaderOf(p) ==
  [file |-> "header", inc |-> p.inc, gen |-> p.gen + 1, counts |-> Counts[p.pending],
   digest |-> IF p.pending \in Oversized THEN "null" ELSE <<p.gen + 1, p.pending>>]

\* PresencePublisher.start() up to its first activity write.
StartPublisher(fs) ==
  /\ incarnations < MaxPublishers
  /\ incarnations' = incarnations + 1
  /\ LET p == [state |-> "live", inc |-> incarnations + 1, pending |-> Empty,
               published |-> "none", timer |-> FALSE, gen |-> 0]
     IN publisher' = p /\ files' = WithActivity(p, fs) /\ flushing' = TRUE

\* The handler of session_start.
PresenceStart ==
  /\ ~flushing
  /\ session' = TRUE /\ tasks' = Empty
  /\ StartPublisher(Disposed(publisher, files))
  /\ UNCHANGED <<changes, crashed, faults, readerVars>>

\* publishActivity() after a change of the store: an absent or failed
\* publisher is started again.
TaskChange(next) ==
  /\ ~flushing /\ session /\ changes < MaxChanges /\ next # tasks
  /\ tasks' = next /\ changes' = changes + 1
  /\ IF Live(publisher)
     THEN publisher' = Updated(publisher, next) /\ UNCHANGED <<flushing, files, incarnations>>
     ELSE StartPublisher(files)
  /\ UNCHANGED <<session, crashed, faults, readerVars>>

\* The timer of update() fires.
Flush ==
  /\ ~flushing /\ Live(publisher) /\ publisher.timer
  /\ publisher' = [publisher EXCEPT !.timer = FALSE]
  /\ IF publisher.pending = publisher.published
     THEN UNCHANGED <<flushing, files>>
     ELSE flushing' = TRUE /\ files' = WithActivity(publisher, files)
  /\ UNCHANGED <<sourceVars, incarnations, crashed, faults, readerVars>>

\* The second half of flush().  The caller of start() goes on to update().
PublishHeader ==
  /\ flushing /\ flushing' = FALSE
  /\ files' = [files EXCEPT ![publisher.inc].header = HeaderOf(publisher)]
  /\ LET p == [publisher EXCEPT !.gen = @ + 1, !.published = publisher.pending]
     IN publisher' = IF publisher.gen = 0 THEN Updated(p, tasks) ELSE p
  /\ UNCHANGED <<sourceVars, incarnations, crashed, faults, readerVars>>

\* A write of flush() or of the heartbeat fails: guarded() and start()
\* dispose.  A failed write leaves its destination as it was.
WriteFails ==
  /\ Live(publisher) /\ faults < MaxFaults /\ faults' = faults + 1
  /\ publisher' = Absent /\ flushing' = FALSE
  /\ files' = Disposed(publisher, files)
  /\ UNCHANGED <<sourceVars, incarnations, crashed, readerVars>>

\* The handler of session_shutdown.
PresenceShutdown ==
  /\ ~flushing /\ session /\ session' = FALSE
  /\ publisher' = Absent /\ files' = Disposed(publisher, files)
  /\ UNCHANGED <<tasks, changes, flushing, incarnations, crashed, faults, readerVars>>

\* The process dies; a new one may start later.
PublisherCrash ==
  /\ session /\ faults < MaxFaults /\ faults' = faults + 1
  /\ session' = FALSE /\ flushing' = FALSE /\ publisher' = Absent
  /\ crashed' = IF Live(publisher) THEN crashed \cup {publisher.inc} ELSE crashed
  /\ UNCHANGED <<tasks, changes, incarnations, files, readerVars>>

-----------------------------------------------------------------------------
(* A reader in another process.                                            *)

\* PresenceCursor.next() finds the header of an incarnation.
Pick(i) ==
  /\ files[i].header # NoFile
  /\ picked' = files[i].header /\ answer' = Nothing
  /\ UNCHANGED <<sourceVars, publisher, flushing, incarnations, files, crashed, faults>>

\* readActivity() of the selected header.
ReadBody_Unpinned(h, a) ==
  IF h.digest = "null" THEN [activity |-> "activity-too-large"]
  ELSE IF a = NoFile THEN [activity |-> "missing"]
  ELSE [activity |-> "read", content |-> a.content]

ReadBody(h, a) ==
  CASE h.digest = "null" -> [activity |-> "activity-too-large"]
    [] h.digest # "null" /\ a = NoFile -> [activity |-> "missing"]
    [] h.digest # "null" /\ a # NoFile ->
         IF a.gen # h.gen THEN [activity |-> "generation-mismatch"]
         ELSE IF <<a.gen, a.content>> # h.digest THEN [activity |-> "digest-mismatch"]
         ELSE [activity |-> "read", content |-> a.content]

ReadActivity ==
  /\ picked # NoFile
  /\ answer' = ReadBody(picked, files[picked.inc].activity)
  /\ UNCHANGED <<sourceVars, publisher, flushing, incarnations, files, crashed, faults, picked>>

PresenceNext ==
  \/ PresenceStart \/ PresenceShutdown
  \/ \E next \in Content : TaskChange(next)
  \/ Flush \/ PublishHeader \/ WriteFails \/ PublisherCrash
  \/ \E i \in 1..MaxPublishers : Pick(i)
  \/ ReadActivity

\* Timers fire, and a synchronous write that does not fail returns.
PresenceFairness == WF_presenceVars(Flush) /\ WF_presenceVars(PublishHeader)

PresenceSpec == PresenceInit /\ [][PresenceNext]_presenceVars /\ PresenceFairness

-----------------------------------------------------------------------------
(* Properties.                                                             *)

\* What a reader is given belongs to the header it selected: the tasks are
\* the ones that the header counts, whatever the publisher wrote, failed to
\* write or removed between the reader's two steps (readActivity pins the
\* generation and the digest of the selection).
ReadMatchesHeader ==
  answer.activity = "read" => Counts[answer.content] = picked.counts

=============================================================================
