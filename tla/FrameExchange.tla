--------------------------- MODULE FrameExchange ---------------------------
(***************************************************************************)
(* One notification and its acknowledgement as bytes on a connection:      *)
(* FrameDecoder (lib/agents-session-transport.ts), which turns a stream    *)
(* cut into chunks anywhere into one frame or a refusal, and the client of *)
(* lib/windows-session-transport.ts that waits for the frame with timers,  *)
(* an abort signal and its own close().  The peer is whatever listens at   *)
(* the endpoint; it writes any bytes.  Other notifications of the client   *)
(* only matter when there are MAX_PENDING of them, which is a refusal.     *)
(***************************************************************************)
EXTENDS Naturals, Sequences

CONSTANTS
  Byte,           \* what a stream is made of
  Newline,        \* the byte that ends a frame
  FrameOf,        \* the texts that frame() accepts, with what they say; as encode()
                  \* makes them, one line that fits with its newline
  MAX_FRAME_BYTES,
  MaxStream       \* bound: bytes the peer writes

\* What a frame says to this client: an ack with its id, or anything else.
FrameKind == {"accepted", "refused", "foreign"}

ASSUME FrameAssumption ==
  /\ Newline \in Byte /\ MAX_FRAME_BYTES \in Nat /\ MaxStream \in Nat
  /\ \A text \in DOMAIN FrameOf :
       /\ FrameOf[text] \in FrameKind
       /\ text \in Seq(Byte \ {Newline}) /\ Len(text) < MAX_FRAME_BYTES

VARIABLES
  begin,     \* where begin() is
  verdict,   \* what settle() reported
  socket,    \* the connection of the notification
  timers,    \* timers that are armed
  stopped,   \* close() of the client was called
  decoder,   \* the FrameDecoder of the acknowledgement
  sent,      \* what the peer wrote
  taken,     \* how much of it the client has read
  ended      \* the peer ended the connection

peerVars == <<sent, ended>>
exchangeVars == <<begin, verdict, socket, timers, stopped, decoder, taken, peerVars>>

NewDecoder == [buffer |-> <<>>, parsed |-> "none", finished |-> FALSE, error |-> "none"]

ExchangeInit ==
  /\ begin = "none" /\ verdict = "none" /\ socket = "none"
  /\ timers = {} /\ stopped = FALSE
  /\ decoder = NewDecoder
  /\ sent = <<>> /\ taken = 0 /\ ended = FALSE

-----------------------------------------------------------------------------
(* FrameDecoder.                                                           *)

Refused(d, code) == [d EXCEPT !.error = code]

Newlines(bytes) == {i \in DOMAIN bytes : bytes[i] = Newline}

\* The text before the newline, once the newline is the last byte there is.
Decoded(d) ==
  LET text == SubSeq(d.buffer, 1, Len(d.buffer) - 1)
  IN IF text \in DOMAIN FrameOf THEN [d EXCEPT !.parsed = FrameOf[text]] ELSE Refused(d, "invalid_frame")

Scanned(d) ==
  CASE Newlines(d.buffer) = {} -> d
    [] Newlines(d.buffer) = {Len(d.buffer)} -> Decoded(d)
    [] OTHER -> Refused(d, "trailing_frame")

Waits(d) == d.parsed = "none" /\ ~d.finished

\* What comes after the frame is dropped.
Push_Fault(d, chunk) ==
  LET held == [d EXCEPT !.buffer = @ \o chunk]
  IN CASE ~Waits(d) -> d
       [] Waits(d) /\ Len(held.buffer) > MAX_FRAME_BYTES -> Refused(d, "oversized")
       [] Waits(d) /\ Len(held.buffer) <= MAX_FRAME_BYTES -> Scanned(held)

Push(d, chunk) ==
  LET held == [d EXCEPT !.buffer = @ \o chunk]
  IN CASE chunk = <<>> -> d
       [] chunk # <<>> /\ ~Waits(d) -> Refused(d, "trailing_frame")
       [] chunk # <<>> /\ Waits(d) /\ Len(held.buffer) > MAX_FRAME_BYTES -> Refused(d, "oversized")
       [] chunk # <<>> /\ Waits(d) /\ Len(held.buffer) <= MAX_FRAME_BYTES -> Scanned(held)

Finish(d) ==
  IF d.finished THEN Refused(d, "trailing_frame")
  ELSE LET over == [d EXCEPT !.finished = TRUE]
       IN IF d.parsed = "none" THEN Refused(over, "malformed") ELSE over

-----------------------------------------------------------------------------
(* The client.                                                             *)

\* settle(): only the first call counts; it clears the timers, removes the
\* handlers and destroys the socket.
SettleExchange(result) ==
  /\ verdict = "none" /\ verdict' = result
  /\ timers' = {}
  /\ socket' = IF socket = "none" THEN "none" ELSE "destroyed"

Unsettled == UNCHANGED <<verdict, timers, socket>>
Reading == UNCHANGED <<decoder, taken>>

\* sendNotification(): refused at once, or begun.
SendNotification ==
  /\ begin = "none" /\ verdict = "none"
  /\ \/ /\ verdict' \in (IF stopped THEN {"closed"} ELSE {"self", "busy", "aborted"})
        /\ UNCHANGED <<begin, timers, socket>>
     \/ ~stopped /\ begin' = "resolving" /\ Unsettled
  /\ UNCHANGED stopped /\ Reading /\ UNCHANGED peerVars

\* resolve() returned the record of the expected activation, another, or failed.
Resolved ==
  /\ begin = "resolving"
  /\ \/ verdict # "none" /\ begin' = "over" /\ Unsettled
     \/ begin' = "over" /\ SettleExchange("stale")
     \/ begin' = "over" /\ SettleExchange("not_found")
     \/ verdict = "none" /\ begin' = "asking" /\ Unsettled
  /\ UNCHANGED stopped /\ Reading /\ UNCHANGED peerVars

\* beforeConnect() answered; then the socket is made and its first timer armed,
\* unless something on the way throws.
Connects ==
  /\ socket' = "opening" /\ timers' = {"connect"} /\ UNCHANGED verdict

Asked ==
  /\ begin = "asking" /\ begin' = "over"
  /\ \/ verdict # "none" /\ Unsettled
     \/ SettleExchange("stale")
     \/ SettleExchange("io_error")
     \/ verdict = "none" /\ Connects
  /\ UNCHANGED stopped /\ Reading /\ UNCHANGED peerVars

\* onConnect(): the request is written and the second timer armed.
OnConnect ==
  /\ socket = "opening" /\ verdict = "none"
  /\ \/ socket' = "open" /\ timers' = {"ack"} /\ UNCHANGED verdict
     \/ SettleExchange("io_error")
     \/ SettleExchange("ack_timeout")
  /\ UNCHANGED <<begin, stopped>> /\ Reading /\ UNCHANGED peerVars

\* onData(): any part of what was sent and not read arrives as one chunk.
OnData ==
  /\ socket = "open" /\ verdict = "none"
  /\ \E upTo \in taken + 1 .. Len(sent) :
       /\ taken' = upTo
       /\ decoder' = Push(decoder, SubSeq(sent, taken + 1, upTo))
  /\ IF decoder'.error = "none" THEN Unsettled ELSE SettleExchange("invalid_ack")
  /\ UNCHANGED <<begin, stopped, peerVars>>

\* finishAck(), on the end of the stream.
FinishAck ==
  /\ socket = "open" /\ verdict = "none" /\ ended /\ taken = Len(sent)
  /\ decoder' = Finish(decoder)
  /\ SettleExchange(CASE decoder'.error # "none" \/ decoder'.parsed = "foreign" -> "invalid_ack"
              [] decoder'.error = "none" /\ decoder'.parsed = "refused" -> "remote_rejected"
              [] decoder'.error = "none" /\ decoder'.parsed = "accepted" -> "accepted")
  /\ UNCHANGED <<begin, stopped, taken, peerVars>>

\* The socket fails or closes, a timer fires, or the caller aborts.
SocketFails ==
  /\ socket \in {"opening", "open"} /\ SettleExchange("io_error")
  /\ UNCHANGED <<begin, stopped>> /\ Reading /\ UNCHANGED peerVars

TimerFires ==
  /\ \/ "connect" \in timers /\ SettleExchange("connect_timeout")
     \/ "ack" \in timers /\ SettleExchange("ack_timeout")
  /\ UNCHANGED <<begin, stopped>> /\ Reading /\ UNCHANGED peerVars

Aborts ==
  /\ begin # "none" /\ SettleExchange(IF stopped THEN "closed" ELSE "aborted")
  /\ UNCHANGED <<begin, stopped>> /\ Reading /\ UNCHANGED peerVars

CloseClient ==
  /\ ~stopped /\ stopped' = TRUE
  /\ IF begin # "none" /\ verdict = "none" THEN SettleExchange("closed") ELSE Unsettled
  /\ UNCHANGED begin /\ Reading /\ UNCHANGED peerVars

\* The peer.
PeerWrites ==
  /\ socket = "open" /\ ~ended /\ Len(sent) < MaxStream
  /\ \E b \in Byte : sent' = Append(sent, b)
  /\ UNCHANGED <<begin, verdict, socket, timers, stopped, decoder, taken, ended>>

PeerEnds ==
  /\ socket = "open" /\ ~ended /\ ended' = TRUE
  /\ UNCHANGED <<begin, verdict, socket, timers, stopped, decoder, taken, sent>>

ExchangeNext ==
  \/ SendNotification \/ Resolved \/ Asked \/ OnConnect \/ OnData \/ FinishAck
  \/ SocketFails \/ TimerFires \/ Aborts \/ CloseClient \/ PeerWrites \/ PeerEnds

ExchangeSpec == ExchangeInit /\ [][ExchangeNext]_exchangeVars

-----------------------------------------------------------------------------
(* Properties.                                                             *)

\* The whole stream as one text that says `kind`.
Says(kind) == \E text \in DOMAIN FrameOf : FrameOf[text] = kind /\ sent = Append(text, Newline)

\* What the client concludes depends on the bytes the peer wrote and not on
\* how they were cut into chunks: it reports an accepted or a rejected
\* notification exactly when the whole stream is that one acknowledgement, and
\* an invalid one only when it is not (FrameDecoder.push and finish).
VerdictIsWhole ==
  /\ verdict = "accepted" => ended /\ Says("accepted")
  /\ verdict = "remote_rejected" => ended /\ Says("refused")
  /\ verdict = "invalid_ack" => ~Says("accepted") /\ ~Says("refused")

=============================================================================
