--------------------------- MODULE SessionEvidence ---------------------------
(***************************************************************************)
(* What a session keeps about its own writes.  A write or edit tool call   *)
(* is observed by three parties: the capture of session changes takes a    *)
(* snapshot of the file before the tool runs and one after it and          *)
(* publishes the pair as evidence; the reminder appends a mutation receipt *)
(* to the session's branch; and agent_end asks the native review for its   *)
(* STATUS and nudges the model once about the receipts it found.  Every    *)
(* one of them awaits in the middle, so external edits, concurrent calls,  *)
(* concurrent ends, acknowledgements, tree navigation, reload and session  *)
(* replacement interleave with them.  One file of one registered worktree  *)
(* is modelled; calls of a child agent reach the session by the relay.     *)
(***************************************************************************)
EXTENDS Naturals, Sequences, FiniteSets, Functions, FiniteSetsExt

CONSTANTS
    WriteCall,      \* tool calls, of the session itself or of its children
    ReviewWait,     \* invocations of agent_end and of the acknowledgement
    Content,        \* texts the file may hold
    Normal,         \* a text without its byte order mark and with LF line endings
    Patch,          \* the unified patch between two texts
    MaxRecords,     \* MAX_RECORDS, the evidence a session keeps
    MaxSessions,    \* bound on session identities
    MaxForeign,     \* bound on external edits
    MaxLoads,       \* bound on starts of a session
    MaxReceipts     \* bound on the receipts of a branch an await may start from

ASSUME EvidenceAssumption ==
    /\ MaxRecords \in Nat \ {0} /\ MaxSessions \in Nat \ {0}
    /\ MaxForeign \in Nat /\ MaxLoads \in Nat \ {0} /\ MaxReceipts \in Nat
    /\ Content # {} /\ Content \cap {"absent", "unavailable"} = {}
    /\ Normal \in [Content -> Content] /\ DOMAIN Patch = Content \X Content

VARIABLES
    sitting,   \* the running session: its identity, whether it is active, its epoch
    entries,   \* per session, the change entries appended to its file
    branch,    \* per session, the reminder receipts on its active branch
    disk,      \* the content of the file
    writes,    \* the state of every tool call
    captured,  \* the calls in the capture's pending map
    changes,   \* the in-memory store of session changes
    waits,     \* the state of every wait for the native review
    nested,    \* depth of named agents started and not ended
    foreign    \* external edits so far

evidenceVars == <<sitting, entries, branch, disk, writes, captured, changes,
                  waits, nested, foreign>>

SessionId == 1..MaxSessions

Gone == "absent"
Unread == "unavailable"
Snapshots == Content \cup {Gone, Unread}

NoEvidence == [id |-> "none"]

-----------------------------------------------------------------------------
(* The store of session changes.                                           *)

NoFile == [shown |-> FALSE]

EmptyChanges == [seen |-> {}, file |-> NoFile, notice |-> FALSE]

\* sameSnapshot: two unavailable snapshots are never the same.
SameSnapshot(a, b) == a = b /\ a # Unread

\* The state of the file once the evidence is taken in: the first before is
\* kept, and a gap between two observations makes the diff unavailable for good.
FileAfter(file, ev) ==
    [shown |-> TRUE,
     before |-> IF file.shown THEN file.before ELSE ev.before,
     after |-> ev.after,
     lost |-> \/ file.shown /\ (file.lost \/ ~SameSnapshot(file.after, ev.before))
              \/ Unread \in {ev.before, ev.after}]

AlreadySeen(ch, ev) == ev.id \in ch.seen

Full(ch) == Cardinality(ch.seen) >= MaxRecords

\* record(): the store after the evidence ...
Taken(ch, ev) ==
    IF AlreadySeen(ch, ev) THEN ch
    ELSE IF Full(ch) THEN [ch EXCEPT !.notice = TRUE]
    ELSE [ch EXCEPT !.seen = @ \cup {ev.id},
                    !.file = IF SameSnapshot(ev.before, ev.after) THEN @ ELSE FileAfter(@, ev)]

\* ... and whether it is worth an entry of the session file.
Recorded(ch, ev) ==
    ~AlreadySeen(ch, ev) /\ ~Full(ch) /\ ~SameSnapshot(ev.before, ev.after)

\* restore(): the entries that carry this session's identity, in order.
Restored(id, log) ==
    LET store[n \in 0..Len(log)] ==
          IF n = 0 THEN EmptyChanges
          ELSE IF log[n].session = id THEN Taken(store[n - 1], log[n].evidence) ELSE store[n - 1]
    IN store[Len(log)]

\* publish(): nothing reaches a store of another session.
PublishEvidence(ev) ==
    LET id == sitting.id IN
    /\ changes' = Taken(changes, ev)
    /\ entries' = IF Recorded(changes, ev)
                  THEN [entries EXCEPT ![id] = Append(@, [session |-> id, evidence |-> ev])]
                  ELSE entries

-----------------------------------------------------------------------------
(* The reminder receipts of a branch.                                      *)

Mutation(m) == [kind |-> "mutation", id |-> m]

\* The mutations of a branch in the order they were recorded.
Mutations(b) ==
    LET found[n \in 0..Len(b)] ==
          IF n = 0 THEN <<>>
          ELSE IF b[n].kind = "mutation" THEN Append(found[n - 1], b[n]) ELSE found[n - 1]
    IN found[Len(b)]

IndexOf(b, m) ==
    LET ms == Mutations(b)
    IN IF \E i \in DOMAIN ms : ms[i].id = m
       THEN CHOOSE i \in DOMAIN ms : ms[i].id = m ELSE 0

\* A watermark counts only the mutations that precede it on the branch.
Consumed(b) ==
    LET marks == {k \in DOMAIN b : b[k].kind # "mutation"}
        upTo == {IndexOf(SubSeq(b, 1, k), b[k].through) : k \in marks}
    IN IF upTo = {} THEN 0 ELSE Max(upTo)

\* pendingReviewMutation without and with a captured mutation.
Pending(b) ==
    LET ms == Mutations(b)
    IN IF Len(ms) > Consumed(b) THEN {ms[Len(ms)].id} ELSE {}

StillPending(b, m) == IndexOf(b, m) > Consumed(b)

\* recordReviewMutation: a call is recorded once per branch.
RecordMutation(m) ==
    branch' = IF IndexOf(branch[sitting.id], m) # 0 THEN branch
              ELSE [branch EXCEPT ![sitting.id] = Append(@, Mutation(m))]

-----------------------------------------------------------------------------
(* One tool call: tool_call, the tool, tool_result, tool_execution_end.    *)

IdleWrite == [pc |-> "idle", child |-> FALSE, tool |-> "write", session |-> 0, epoch |-> 0,
              before |-> Unread, base |-> Unread, text |-> Unread,
              ok |-> FALSE, evidence |-> NoEvidence]

\* The extension instance the call began in still runs: a shutdown, be it for a
\* reload, empties its state, and owned tasks are those of the instance.
SameSession(c) == sitting.active /\ sitting.epoch = writes[c].epoch

\* A child agent captures in its own process, whatever becomes of the parent.
Capturing(c) == writes[c].child \/ SameSession(c)

BeginWrite(c, tool, child) ==
    /\ sitting.active /\ writes[c].pc = "idle"
    /\ writes' = [writes EXCEPT ![c] = [IdleWrite EXCEPT !.pc = "snapshot", !.tool = tool,
                                        !.child = child, !.session = sitting.id, !.epoch = sitting.epoch]]
    /\ UNCHANGED <<sitting, entries, branch, disk, captured, changes, waits, nested, foreign>>

\* The snapshot is read, and kept unless the session changed under the read.
\* A read that fails, or a file over the limits, gives an unavailable snapshot.
TakeBefore(c, readable) ==
    /\ writes[c].pc = "snapshot"
    /\ writes' = [writes EXCEPT ![c].pc = "admitted",
                                ![c].before = IF readable THEN disk ELSE Unread]
    /\ captured' = IF Capturing(c) THEN captured \cup {c} ELSE captured
    /\ UNCHANGED <<sitting, entries, branch, disk, changes, waits, nested, foreign>>

\* generateUnifiedPatch of two texts, line endings and byte order mark aside:
\* other texts may have the same one.
PatchOf(old, new) == Patch[<<Normal[old], Normal[new]>>]

\* The tool itself: a write replaces the text, an edit needs a file and changes
\* more than its line endings.
RunTool(c, v) ==
    /\ writes[c].pc = "admitted"
    /\ writes[c].tool = "edit" => disk # Gone /\ Normal[v] # Normal[disk]
    /\ disk' = v
    /\ writes' = [writes EXCEPT ![c].pc = "ran", ![c].base = disk, ![c].text = v, ![c].ok = TRUE]
    /\ UNCHANGED <<sitting, entries, branch, captured, changes, waits, nested, foreign>>

FailTool(c) ==
    /\ writes[c].pc = "admitted"
    /\ writes' = [writes EXCEPT ![c].pc = "ran"]
    /\ UNCHANGED <<sitting, entries, branch, disk, captured, changes, waits, nested, foreign>>

\* tool_result: the reminder records a direct write at once; the capture goes
\* on to read the file only for a call it holds and that succeeded.
ToolResult(c) ==
    LET w == writes[c]
        kept == c \in captured /\ Capturing(c) /\ w.ok IN
    /\ w.pc = "ran"
    /\ IF sitting.active /\ w.ok /\ ~w.child THEN RecordMutation(c) ELSE UNCHANGED branch
    /\ captured' = IF kept THEN captured ELSE captured \ {c}
    /\ writes' = [writes EXCEPT ![c].pc = IF kept THEN "reading" ELSE "ending"]
    /\ UNCHANGED <<sitting, entries, disk, changes, waits, nested, foreign>>

\* What the capture believes after reading the file: a write must read back its
\* own text, an edit the patch the tool reported; otherwise both sides become
\* unavailable.  An after that is not text, or an edit of a file that was absent,
\* is not held against anything.
Verified(w, after) ==
    LET doubtful == IF w.tool = "write"
                    THEN after \in Content /\ after # w.text
                    ELSE /\ w.before \in Content /\ after \in Content
                         /\ PatchOf(w.base, w.text) # PatchOf(w.before, after)
    IN [id |-> "evidence", before |-> IF doubtful THEN Unread ELSE w.before,
        after |-> IF doubtful THEN Unread ELSE after]

TakeAfter(c) ==
    LET w == writes[c] IN
    /\ w.pc = "reading"
    /\ writes' = [writes EXCEPT ![c].pc = "ending",
                   ![c].evidence = IF Capturing(c) /\ c \in captured
                                   THEN [Verified(w, disk) EXCEPT !.id = c] ELSE NoEvidence]
    /\ UNCHANGED <<sitting, entries, branch, disk, captured, changes, waits, nested, foreign>>

\* tool_execution_end: a direct call is published; the parent of a child agent
\* relays the child's evidence and records the mutation.
EndWrite(c) ==
    LET w == writes[c]
        mine == SameSession(c) /\ w.ok IN
    /\ w.pc = "ending"
    /\ captured' = captured \ {c}
    /\ writes' = [writes EXCEPT ![c] = [IdleWrite EXCEPT !.pc = "done", !.tool = w.tool, !.base = w.base,
                                           !.text = w.text, !.ok = w.ok, !.session = w.session]]
    /\ IF mine /\ w.evidence # NoEvidence THEN PublishEvidence(w.evidence) ELSE UNCHANGED <<entries, changes>>
    /\ IF mine /\ w.child THEN RecordMutation(c) ELSE UNCHANGED branch
    /\ UNCHANGED <<sitting, disk, waits, nested, foreign>>

\* An editor, a formatter or another process changes or removes the file.
ForeignEdit(v) ==
    /\ foreign < MaxForeign /\ v # disk
    /\ disk' = v /\ foreign' = foreign + 1
    /\ UNCHANGED <<sitting, entries, branch, writes, captured, changes, waits, nested>>

-----------------------------------------------------------------------------
(* The reminder.                                                           *)

IdleWait == [pc |-> "idle", kind |-> "nudged", through |-> {}, epoch |-> 0, asked |-> {}]

StartAgent(named) ==
    /\ sitting.active
    /\ named => nested = 0
    /\ nested' = IF named THEN nested + 1 ELSE 0
    /\ UNCHANGED <<sitting, entries, branch, disk, writes, captured, changes, waits, foreign>>

Await(h, kind, through) ==
    /\ Len(branch[sitting.id]) < MaxReceipts
    /\ waits' = [waits EXCEPT ![h] =
                 [pc |-> "waiting", kind |-> kind, through |-> through, epoch |-> sitting.epoch,
                  asked |-> {r.id : r \in Range(Mutations(branch[sitting.id]))}]]

\* agent_end: a named agent only lowers the depth; the primary loop asks for
\* the STATUS when the branch holds a mutation nobody was told about.
AgentEnds(h) ==
    /\ sitting.active /\ waits[h].pc = "idle"
    /\ \/ nested > 0 /\ nested' = nested - 1 /\ UNCHANGED waits
       \/ /\ nested = 0 /\ Pending(branch[sitting.id]) # {}
          /\ Await(h, "nudged", Pending(branch[sitting.id]))
          /\ UNCHANGED nested
    /\ UNCHANGED <<sitting, entries, branch, disk, writes, captured, changes, foreign>>

\* The acknowledgement captures the mutation before the native operation.
BeginAcknowledge(h) ==
    /\ sitting.active /\ waits[h].pc = "idle"
    /\ Await(h, "acknowledged", Pending(branch[sitting.id]))
    /\ UNCHANGED <<sitting, entries, branch, disk, writes, captured, changes, nested, foreign>>

Consume(h) ==
    branch' = IF waits[h].through = {} THEN branch
              ELSE [branch EXCEPT ![sitting.id] =
                     Append(@, [kind |-> waits[h].kind, asked |-> waits[h].asked,
                                through |-> CHOOSE m \in waits[h].through : TRUE])]

\* The session the wait began in is still the running one.
WaitIsCurrent(h) == sitting.active /\ waits[h].epoch = sitting.epoch

MayNudge_Fault(h) == WaitIsCurrent(h)

\* After the await: same session, and nobody consumed the prefix meanwhile.
MayNudge(h) ==
    /\ WaitIsCurrent(h)
    /\ \A m \in waits[h].through : StillPending(branch[sitting.id], m)

StatusAnswers(h, offersStart) ==
    /\ waits[h].pc = "waiting" /\ waits[h].kind = "nudged"
    /\ IF offersStart /\ MayNudge(h) THEN Consume(h) ELSE UNCHANGED branch
    /\ waits' = [waits EXCEPT ![h] = IdleWait]
    /\ UNCHANGED <<sitting, entries, disk, writes, captured, changes, nested, foreign>>

AcknowledgeAnswers(h, burned) ==
    /\ waits[h].pc = "waiting" /\ waits[h].kind = "acknowledged"
    /\ IF burned /\ WaitIsCurrent(h) THEN Consume(h) ELSE UNCHANGED branch
    /\ waits' = [waits EXCEPT ![h] = IdleWait]
    /\ UNCHANGED <<sitting, entries, disk, writes, captured, changes, nested, foreign>>

-----------------------------------------------------------------------------
(* The life of the session.                                                *)

\* The user walks back in the session tree: the branch loses its tail, the
\* session file keeps its entries.
Rewind(n) ==
    LET id == sitting.id IN
    /\ sitting.active /\ n < Len(branch[id])
    /\ branch' = [branch EXCEPT ![id] = SubSeq(@, 1, n)]
    /\ UNCHANGED <<sitting, entries, disk, writes, captured, changes, waits, nested, foreign>>

EndSession ==
    /\ sitting.active
    /\ sitting' = [sitting EXCEPT !.active = FALSE, !.epoch = @ + 1]
    /\ captured' = {c \in captured : writes[c].child} /\ changes' = EmptyChanges /\ nested' = 0
    /\ UNCHANGED <<entries, branch, disk, writes, waits, foreign>>

\* A session begins: the same one again (reload, resume), or another identity,
\* which a fork fills with the entries of the old one.
BeginSession(id, forked) ==
    /\ ~sitting.active /\ sitting.epoch < 2 * MaxLoads
    /\ forked => id # sitting.id /\ entries[id] = <<>>
    /\ LET log == IF forked THEN entries[sitting.id] ELSE entries[id] IN
       /\ entries' = [entries EXCEPT ![id] = log]
       /\ changes' = Restored(id, log)
    /\ sitting' = [id |-> id, active |-> TRUE, epoch |-> sitting.epoch + 1]
    /\ captured' = {c \in captured : writes[c].child}
    /\ UNCHANGED <<branch, disk, writes, waits, nested, foreign>>

EvidenceInit ==
    /\ sitting = [id |-> 1, active |-> TRUE, epoch |-> 0]
    /\ entries = [id \in SessionId |-> <<>>]
    /\ branch = [id \in SessionId |-> <<>>]
    /\ disk \in Content \cup {Gone}
    /\ writes = [c \in WriteCall |-> IdleWrite]
    /\ captured = {} /\ changes = EmptyChanges
    /\ waits = [h \in ReviewWait |-> IdleWait]
    /\ nested = 0 /\ foreign = 0

\* Steps of a tool call on a readable or unreadable file.
WriteStep(c) ==
    \/ \E tool \in {"write", "edit"}, child \in BOOLEAN : BeginWrite(c, tool, child)
    \/ \E readable \in BOOLEAN : TakeBefore(c, readable)
    \/ \E v \in Content : RunTool(c, v)
    \/ FailTool(c) \/ ToolResult(c) \/ TakeAfter(c) \/ EndWrite(c)

ReminderStep ==
    \/ \E named \in BOOLEAN : StartAgent(named)
    \/ \E h \in ReviewWait :
         \/ AgentEnds(h) \/ BeginAcknowledge(h)
         \/ \E answer \in BOOLEAN : StatusAnswers(h, answer) \/ AcknowledgeAnswers(h, answer)
    \/ \E n \in 0..Cardinality(WriteCall) : Rewind(n)

SessionStep ==
    \/ EndSession
    \/ \E id \in SessionId, forked \in BOOLEAN : BeginSession(id, forked)

EvidenceNext ==
    \/ \E c \in WriteCall : WriteStep(c)
    \/ \E v \in Content \cup {Gone} : ForeignEdit(v)
    \/ ReminderStep
    \/ SessionStep

EvidenceSpec == EvidenceInit /\ [][EvidenceNext]_evidenceVars

-----------------------------------------------------------------------------
EvidenceTypeOK ==
    /\ sitting \in [id : SessionId, active : BOOLEAN, epoch : Nat]
    /\ disk \in Content \cup {Gone}
    /\ captured \subseteq WriteCall
    /\ nested \in Nat /\ foreign \in 0..MaxForeign
    /\ \A c \in WriteCall : {writes[c].before, writes[c].base, writes[c].text} \subseteq Snapshots

\* No mutation of a branch is covered by two reminders, or by a reminder after
\* its acknowledgement, whatever ends, acknowledgements and navigation overlap
\* the STATUS each end awaits; and a reminder or an acknowledgement consumes only
\* mutations that were on the branch before the native review was asked, so a
\* write that lands during the await stays pending (agent_end in gentle-ai.ts).
RemindersAreExact ==
    \A id \in SessionId : \A k \in DOMAIN branch[id] :
        LET r == branch[id][k]
            b == SubSeq(branch[id], 1, k - 1)
        IN /\ r.kind = "nudged" => StillPending(b, r.through)
           /\ r.kind # "mutation" =>
                \A i \in 1..IndexOf(b, r.through) : Mutations(b)[i].id \in r.asked

\* A running session shows exactly the changes its file would restore: what is
\* lost or refused in memory is neither shown nor written, so a reload never
\* changes the diff the user sees.
ReplayAgrees ==
    sitting.active => changes.file = Restored(sitting.id, entries[sitting.id]).file

\* A kept change between two texts is one of a tool call that succeeded, in the
\* very session the entry names, forks included: a write ends in the text it wrote,
\* and an edit is the patch its tool made, line endings and byte order mark aside
\* (session-change-capture.ts).  So what others change within the lines of the
\* patch, between the tool and either reading of the file, is never kept as the
\* agent's own; what cancels out elsewhere in the file may be in both texts.  (An
\* edit whose file was gone when the snapshot was read is not held against its patch.)
KeptTextIsOwn ==
    \A id \in SessionId : \A k \in DOMAIN entries[id] :
        LET e == entries[id][k].evidence
            w == writes[e.id]
        IN {e.before, e.after} \subseteq Content =>
               /\ w.ok /\ w.session = entries[id][k].session
               /\ w.tool = "write" => w.text = e.after
               /\ w.tool = "edit" => PatchOf(w.base, w.text) = PatchOf(e.before, e.after)

\* What a session owes the review and its user: every mutation reminded or
\* acknowledged once, a diff that survives a reload, and changes of its own calls
\* (agent_end in gentle-ai.ts, session-change-capture.ts, session-changes.ts).
EvidenceIsExact == RemindersAreExact /\ ReplayAgrees /\ KeptTextIsOwn
=============================================================================
