---------------------------- MODULE StreamBridge ----------------------------
(***************************************************************************)
(* One streamed completion from the provider's response body to the value  *)
(* the caller gets: the provider's read loop (OpenAI- and Anthropic-style  *)
(* share its shape), the bounded channel between the spawned task and the  *)
(* SSE body, the tail frame and its bounded wait, the connection, and the  *)
(* client's read loop with its own idle window.                            *)
(*                                                                         *)
(* Data: the upstream's events are numbered; a frame is its type and the   *)
(* number of the event it renders.  Time passes in ticks, and each timeout *)
(* of the code is a number of ticks.                                       *)
(***************************************************************************)
EXTENDS Integers, Sequences, FiniteSets, SequencesExt

CONSTANTS
  ChanCap,     \* mpsc::channel::<String>(64)
  WireCap,     \* frames the connection buffers before the body is polled again
  MaxEvents,   \* bound: events the upstream sends
  Candidates,  \* providers the router lists for the request
  PermitWait,  \* permit_wait of one candidate, 30 s
  UpIdle,      \* SSE_IDLE_TIMEOUT, the daemon's 30 s
  TailWait,    \* the 30 s the tail frame may wait for room
  SendWindow,  \* the client's 60 s for the response headers
  ClientIdle   \* the client's 90 s without a byte

ASSUME BridgeAssumption ==
  /\ {ChanCap, WireCap, Candidates, PermitWait, UpIdle, TailWait, SendWindow,
      ClientIdle} \subseteq Nat \ {0}
  /\ MaxEvents \in Nat

VARIABLES
  attempt,   \* send_bounded: 1, or 2 after its one retry
  cand,      \* the candidate whose permit the handler waits for
  sent,      \* events the upstream has sent, ChunkTypes
  accum,     \* the streamed tool call: "none", "named", "partial", "whole"
  finish,    \* a stop reason and a usage were seen
  task,      \* the daemon: "permit", "opening", "reading", "tail", "ended"
  tail,      \* the frame type the task ends with: "none", "done", "error"
  resp,      \* what the done frame says of the tool call
  recorded,  \* UsageTracker::record was called
  chan,      \* frames in the mpsc channel
  dropped,   \* events whose try_send found the channel full
  lost,      \* the tail frame was given up after TailWait
  body,      \* the SSE body: "none", "open", "ended", "dropped" (cancelled)
  wire,      \* frames on the connection
  client,    \* AiClient: "sending", "reading", then "ok", "failed" or "gone"
  carry,     \* SseBuffer ended a chunk inside a character of the next frame
  full,      \* the text accumulated, as numbers of events; 0: a spoilt one
  seen,      \* the tail frames the client read
  calls,     \* the tool call it returns
  taskClock, clientClock   \* ticks the daemon, the client has waited

upstreamVars == <<sent, accum, finish>>
taskVars == <<task, tail, resp, recorded, lost>>
clientVars == <<carry, full, seen, calls>>
clocks == <<taskClock, clientClock>>
vars == <<attempt, cand, upstreamVars, taskVars, chan, dropped, body, wire,
          client, clientVars, clocks>>

ChunkTypes == {"delta", "reasoning", "tool", "usage"}
Frame(type, n) == [type |-> type, n |-> n]

Init ==
  /\ attempt = 1 /\ cand = 1
  /\ sent = <<>> /\ accum = "none" /\ finish = FALSE
  /\ task = "permit" /\ tail = "none" /\ resp = "none"
  /\ recorded = FALSE /\ lost = FALSE
  /\ chan = <<>> /\ dropped = {} /\ body = "none" /\ wire = <<>>
  /\ client = "sending" /\ carry = FALSE /\ full = <<>> /\ seen = {}
  /\ calls = "none"
  /\ taskClock = 0 /\ clientClock = 0

(***************************************************************************)
(* Before the headers: the handler waits for a permit of one candidate     *)
(* after the other, the client for the headers.                            *)
(***************************************************************************)
\* streaming_response: the task is spawned and the headers are answered before
\* the provider is called.
Granted ==
  /\ task = "permit" /\ client = "sending"
  /\ task' = "opening" /\ body' = "open" /\ client' = "reading"
  /\ taskClock' = 0 /\ clientClock' = 0
  /\ UNCHANGED <<attempt, cand, upstreamVars, tail, resp, recorded, lost, chan,
                 dropped, wire, clientVars>>

\* Saturated: the next candidate, or the 502 when there is none.
PermitTimeout ==
  /\ task = "permit" /\ client = "sending" /\ taskClock = PermitWait
  /\ taskClock' = 0
  /\ \/ cand < Candidates /\ cand' = cand + 1
        /\ UNCHANGED <<task, client, clientClock>>
     \/ cand = Candidates /\ task' = "ended" /\ client' = "failed"
        /\ clientClock' = 0 /\ UNCHANGED cand
  /\ UNCHANGED <<attempt, upstreamVars, tail, resp, recorded, lost, chan,
                 dropped, body, wire, clientVars>>

\* send_bounded: no headers in the window.  One retry on a fresh connection,
\* which the daemon serves as a request of its own; the first one is dropped.
SendTimeout ==
  /\ client = "sending" /\ clientClock = SendWindow
  /\ clientClock' = 0 /\ taskClock' = 0
  /\ \/ attempt = 1 /\ attempt' = 2 /\ cand' = 1 /\ UNCHANGED <<task, client>>
     \/ attempt = 2 /\ client' = "failed" /\ task' = "ended"
        /\ UNCHANGED <<attempt, cand>>
  /\ UNCHANGED <<upstreamVars, tail, resp, recorded, lost, chan, dropped, body,
                 wire, clientVars>>

\* The provider's POST: no timeout, and the cancellation is not looked at.
Opens ==
  /\ task = "opening"
  /\ task' = "reading"
  /\ UNCHANGED <<attempt, cand, upstreamVars, tail, resp, recorded, lost, chan,
                 dropped, body, wire, client, clientVars, clocks>>

(***************************************************************************)
(* The provider's loop.  A select polls the cancellation first.            *)
(***************************************************************************)
Reading == task = "reading" /\ body = "open"

\* on_delta: try_send, the result ignored.
TrySend(f) ==
  /\ chan' = IF Len(chan) < ChanCap /\ body = "open" THEN Append(chan, f) ELSE chan
  /\ dropped' = IF Len(chan) = ChanCap THEN dropped \cup {f.n} ELSE dropped

\* process_json for one event; a tool fragment sends nothing to the client.
NextAccum(a) ==
  CASE a = "none" -> {"named"}
    [] a = "named" -> {"partial", "whole"}
    [] a = "partial" -> {"partial", "whole"}
    [] OTHER -> {}

ProcessJson(type) ==
  LET n == Len(sent) + 1 IN
  /\ Reading /\ n <= MaxEvents
  /\ sent' = Append(sent, type) /\ taskClock' = 0
  /\ CASE type \in {"delta", "reasoning"} ->
            TrySend(Frame(type, n)) /\ UNCHANGED <<accum, finish>>
       [] type = "tool" ->
            accum' \in NextAccum(accum) /\ UNCHANGED <<finish, chan, dropped>>
       [] OTHER -> finish' = TRUE /\ UNCHANGED <<accum, chan, dropped>>
  /\ UNCHANGED <<attempt, cand, taskVars, body, wire, client, clientVars, clientClock>>

ToolCallUnparsed(a) ==
  CASE a = "none" -> "none" [] a = "named" -> "empty" [] OTHER -> "input"

\* tool_calls_from_accum: a call whose arguments do not parse gets `{}` and a
\* warning frame.
ToolCall(a) ==
  CASE a = "none" -> "none" [] a = "whole" -> "input" [] OTHER -> "empty"

\* The loop ends with Ok(resp): the upstream closed, or the cancellation fired.
StreamEnds ==
  /\ task = "reading"
  /\ task' = "tail" /\ tail' = "done" /\ taskClock' = 0
  /\ resp' = ToolCall(accum)
  /\ IF resp' = "empty" THEN TrySend(Frame("warning", MaxEvents + 1))
                        ELSE UNCHANGED <<chan, dropped>>
  /\ recorded' = finish
  /\ UNCHANGED <<attempt, cand, upstreamVars, lost, body, wire, client, clientVars,
                 clientClock>>

\* The warning quotes the arguments by slicing bytes: a cut inside a character
\* panics, and the spawned task is gone with its tail frame.
WarningPanics ==
  /\ task = "reading" /\ accum = "partial"
  /\ task' = "ended" /\ taskClock' = 0
  /\ UNCHANGED <<attempt, cand, upstreamVars, tail, resp, recorded, lost, chan,
                 dropped, body, wire, client, clientVars, clientClock>>

\* It ends with Err: the POST failed, a broken chunk, no chunk for UpIdle.
StreamFails ==
  /\ task = "opening" \/ Reading
  /\ task' = "tail" /\ tail' = "error" /\ taskClock' = 0
  /\ UNCHANGED <<attempt, cand, upstreamVars, resp, recorded, lost, chan, dropped,
                 body, wire, client, clientVars, clientClock>>

SendTailTry ==
  /\ task = "tail"
  /\ chan' = IF body = "open" /\ Len(chan) < ChanCap
             THEN Append(chan, Frame(tail, 0)) ELSE chan
  /\ task' = "ended" /\ taskClock' = 0
  /\ UNCHANGED <<attempt, cand, upstreamVars, tail, resp, recorded, lost, dropped,
                 body, wire, client, clientVars, clientClock>>

\* tx.send(tail).await finds room, or the receiver gone.
SendTail ==
  /\ task = "tail"
  /\ Len(chan) < ChanCap \/ body = "dropped"
  /\ chan' = IF body = "dropped" THEN chan ELSE Append(chan, Frame(tail, 0))
  /\ task' = "ended" /\ taskClock' = 0
  /\ UNCHANGED <<attempt, cand, upstreamVars, tail, resp, recorded, lost, dropped,
                 body, wire, client, clientVars, clientClock>>

Blocked == task = "tail" /\ Len(chan) = ChanCap /\ body = "open"

\* The bounded wait is over: the frame is logged and dropped.
TailTimeout ==
  /\ Blocked /\ taskClock = TailWait
  /\ task' = "ended" /\ lost' = TRUE /\ taskClock' = 0
  /\ UNCHANGED <<attempt, cand, upstreamVars, tail, resp, recorded, chan, dropped,
                 body, wire, client, clientVars, clientClock>>

(***************************************************************************)
(* The SSE body and the connection.                                        *)
(***************************************************************************)
PollBodyPeeks ==
  /\ body = "open" /\ chan # <<>> /\ Len(wire) < WireCap
  /\ wire' = Append(wire, Head(chan))
  /\ UNCHANGED <<attempt, cand, upstreamVars, taskVars, chan, dropped, body, client,
                 clientVars, clocks>>

PollBody ==
  /\ body = "open" /\ chan # <<>> /\ Len(wire) < WireCap
  /\ wire' = Append(wire, Head(chan)) /\ chan' = Tail(chan)
  /\ UNCHANGED <<attempt, cand, upstreamVars, taskVars, dropped, body, client,
                 clientVars, clocks>>

BodyEndsEarly ==
  /\ body = "open" /\ task = "ended"
  /\ body' = "ended"
  /\ UNCHANGED <<attempt, cand, upstreamVars, taskVars, chan, dropped, wire, client,
                 clientVars, clocks>>

BodyEnds ==
  /\ body = "open" /\ chan = <<>> /\ task = "ended"
  /\ body' = "ended"
  /\ UNCHANGED <<attempt, cand, upstreamVars, taskVars, chan, dropped, wire, client,
                 clientVars, clocks>>

\* The client is gone and the server notices: the guard cancels the provider.
BodyDropped ==
  /\ body = "open" /\ client \in {"failed", "gone"}
  /\ body' = "dropped" /\ chan' = <<>>
  /\ UNCHANGED <<attempt, cand, upstreamVars, taskVars, dropped, wire, client,
                 clientVars, clocks>>

(***************************************************************************)
(* The client's read loop.                                                 *)
(***************************************************************************)
\* A chunk that ends inside a frame and inside one of its characters:
\* from_utf8_lossy replaces the two halves.
ReadPart ==
  /\ client = "reading" /\ wire # <<>> /\ ~carry
  /\ Head(wire).type \in {"delta", "reasoning"}
  /\ carry' = TRUE /\ clientClock' = 0
  /\ UNCHANGED <<attempt, cand, upstreamVars, taskVars, chan, dropped, body, wire,
                 client, full, seen, calls, taskClock>>

\* Any event with a text field is accumulated; done and error set the result.
ReadFrame ==
  /\ client = "reading" /\ wire # <<>>
  /\ LET f == Head(wire)
         text == f.type \in {"delta", "reasoning", "warning"}
     IN /\ full' = IF text THEN Append(full, IF carry THEN 0 ELSE f.n) ELSE full
        /\ seen' = IF text THEN seen ELSE seen \cup {f.type}
        /\ calls' = IF f.type = "done" THEN resp ELSE calls
  /\ wire' = Tail(wire) /\ carry' = FALSE /\ clientClock' = 0
  /\ UNCHANGED <<attempt, cand, upstreamVars, taskVars, chan, dropped, body, client,
                 taskClock>>

ClientEnds(state) ==
  /\ client' = state /\ clientClock' = 0
  /\ UNCHANGED <<attempt, cand, upstreamVars, taskVars, chan, dropped, body, wire,
                 clientVars, taskClock>>

\* The end of the body: Ok, with the error of an error frame in it.
ReadEof == client = "reading" /\ wire = <<>> /\ body = "ended" /\ ClientEnds("ok")

Waiting == client = "reading" /\ wire = <<>> /\ body # "ended"

IdleTimeoutAfterData ==
  Waiting /\ full # <<>> /\ clientClock = ClientIdle /\ ClientEnds("failed")

IdleTimeout == Waiting /\ clientClock = ClientIdle /\ ClientEnds("failed")

\* The caller drops the future (a cancelled run, a closed terminal).
ClientGone == client = "reading" /\ ClientEnds("gone")

(***************************************************************************)
(* Time: a timer that is due is served before time passes again.  A client *)
(* that does not read lets time pass with frames on its connection.        *)
(***************************************************************************)
TaskLimit ==
  CASE task = "permit" /\ client = "sending" -> PermitWait
    [] Reading -> UpIdle
    [] Blocked -> TailWait
    [] OTHER -> 0

ClientLimit ==
  CASE client = "sending" -> SendWindow [] Waiting -> ClientIdle [] OTHER -> 0

Count(clock, limit) == IF limit = 0 THEN clock ELSE clock + 1

Tick ==
  /\ TaskLimit + ClientLimit > 0
  /\ TaskLimit > 0 => taskClock < TaskLimit
  /\ ClientLimit > 0 => clientClock < ClientLimit
  /\ taskClock' = Count(taskClock, TaskLimit)
  /\ clientClock' = Count(clientClock, ClientLimit)
  /\ UNCHANGED <<attempt, cand, upstreamVars, taskVars, chan, dropped, body, wire,
                 client, clientVars>>

UpTimeout == Reading /\ taskClock = UpIdle /\ StreamFails

Next ==
  \/ Granted \/ PermitTimeout \/ SendTimeout \/ Opens
  \/ \E type \in ChunkTypes : ProcessJson(type)
  \/ StreamEnds \/ WarningPanics \/ StreamFails \/ SendTail \/ TailTimeout
  \/ PollBody \/ BodyEnds \/ BodyDropped
  \/ ReadPart \/ ReadFrame \/ ReadEof \/ IdleTimeout \/ ClientGone
  \/ Tick

\* Both processes run, timers fire, a closed connection is noticed and time
\* passes; nothing is asked of the providers nor of the caller.
Fairness ==
  /\ WF_vars(PermitTimeout) /\ WF_vars(SendTimeout)
  /\ WF_vars(UpTimeout) /\ WF_vars(body = "dropped" /\ StreamEnds)
  /\ WF_vars(SendTail) /\ WF_vars(TailTimeout)
  /\ WF_vars(PollBody) /\ WF_vars(BodyEnds) /\ WF_vars(BodyDropped)
  /\ WF_vars(ReadFrame) /\ WF_vars(ReadEof) /\ WF_vars(IdleTimeout)
  /\ WF_vars(Tick)

Spec == Init /\ [][Next]_vars /\ Fairness

-----------------------------------------------------------------------------

\* What the caller shows is in the order the provider said it, nothing twice:
\* across the channel, the dropped frames and the chunked connection.
InOrder ==
  \A i, j \in 1..Len(full) : i < j /\ 0 \notin {full[i], full[j]} => full[i] < full[j]

=============================================================================
