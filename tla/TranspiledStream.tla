-------------------------- MODULE TranspiledStream --------------------------
(***************************************************************************)
(* A streamed completion in the two editions of daemon and client: the     *)
(* hand-written reference (StreamBridge's actions), or what is transpiled   *)
(* from the Auto sources together with its hand-written glue (the daemon's  *)
(* rust/src/server.rs, server_glue.rs, provider_glue.rs and sse.rs, the     *)
(* client's rust/src/lib.rs).  The shape is the same; different are          *)
(*   - the provider's chunks: from_utf8(chunk).unwrap_or("") throws a chunk *)
(*     away that begins or ends inside a character, with all its events;    *)
(*   - the tail frame: try_send, which a full channel refuses at once;      *)
(*   - arguments that do not parse: `{}` without a warning;                 *)
(*   - the client: it has no timeouts, makes no second attempt and does not *)
(*     look at the status, so the JSON of an error reads as an empty stream.*)
(***************************************************************************)
EXTENDS StreamBridge

VARIABLES
  edition,     \* "rust-ref" or "a2r", of the daemon and the client
  swallowed    \* events in chunks thrown away, a2r only

tvars == <<vars, edition, swallowed>>

TInit ==
  /\ Init
  /\ edition \in {"rust-ref", "a2r"}
  /\ swallowed = {}

A2r(step) == edition = "a2r" /\ step /\ UNCHANGED <<edition, swallowed>>

-----------------------------------------------------------------------------
(* The daemon. *)

\* chat_completions and streaming_response: the permit, the task, the headers.
TGranted == A2r(Granted)

\* chat_completions: permit_wait is over.  After the last candidate the 502 is
\* answered, which the client takes for a stream without events.
TPermitTimeout ==
  /\ edition = "a2r"
  /\ task = "permit" /\ taskClock = PermitWait
  /\ taskClock' = 0
  /\ \/ cand < Candidates /\ cand' = cand + 1
        /\ UNCHANGED <<task, body, client, clientClock>>
     \/ cand = Candidates /\ task' = "ended" /\ body' = "ended" /\ client' = "reading"
        /\ clientClock' = 0 /\ UNCHANGED cand
  /\ UNCHANGED <<attempt, upstreamVars, tail, resp, recorded, lost, chan,
                 dropped, wire, clientVars, edition, swallowed>>

\* openai_complete_stream and anthropic_complete_stream: the POST.
TOpens == A2r(Opens)

\* The events of a chunk, through SseParser::push.  A fragment after a lost one
\* leaves the call as it is.
TProcessJson(type) ==
  \/ A2r(ProcessJson(type))
  \/ /\ edition = "a2r" /\ type = "tool" /\ accum \in {"nameless", "spliced"}
     /\ Reading /\ Len(sent) < MaxEvents
     /\ sent' = Append(sent, type) /\ taskClock' = 0
     /\ UNCHANGED <<attempt, cand, accum, finish, taskVars, chan, dropped, body, wire,
                    client, clientVars, clientClock, edition, swallowed>>

\* The chunk with this event is no string.  A tool call without its first
\* fragment has no name, one without a later fragment is spliced.
TSwallow(type) ==
  LET n == Len(sent) + 1 IN
  /\ edition = "a2r"
  /\ Reading /\ n <= MaxEvents
  /\ sent' = Append(sent, type) /\ taskClock' = 0
  /\ swallowed' = swallowed \cup {n}
  /\ accum' = IF type # "tool" THEN accum
              ELSE IF accum = "none" THEN "nameless" ELSE "spliced"
  /\ UNCHANGED <<attempt, cand, finish, taskVars, chan, dropped, body, wire, client,
                 clientVars, clientClock, edition>>

\* The accumulated call: dropped without a name, `{}` if it does not parse.  A
\* spliced one may parse or not.
TToolCalls(a) ==
  CASE a = "nameless" -> {"none"}
    [] a = "spliced" -> {"empty", "input"}
    [] OTHER -> {ToolCall(a)}

\* The loop ends with Ok: the upstream closed, or the cancellation fired.  A
\* `usage: null` counts as a usage of zeros.
TStreamEnds ==
  /\ edition = "a2r"
  /\ task = "reading"
  /\ task' = "tail" /\ tail' = "done" /\ taskClock' = 0
  /\ resp' \in TToolCalls(accum)
  /\ recorded' \in {finish, TRUE}
  /\ UNCHANGED <<attempt, cand, upstreamVars, lost, chan, dropped, body, wire, client,
                 clientVars, clientClock, edition, swallowed>>

\* It ends with Err.
TStreamFails == A2r(StreamFails)

\* streaming_response: the done or error frame is tried once.
TSendTail ==
  /\ edition = "a2r"
  /\ task = "tail"
  /\ LET room == Len(chan) < ChanCap IN
     /\ chan' = IF body = "open" /\ room THEN Append(chan, Frame(tail, 0)) ELSE chan
     /\ lost' = ~room
  /\ task' = "ended" /\ taskClock' = 0
  /\ UNCHANGED <<attempt, cand, upstreamVars, tail, resp, recorded, dropped, body, wire,
                 client, clientVars, clientClock, edition, swallowed>>

\* The SSE body, and CancelOnDrop.
TPollBody == A2r(PollBody)
TBodyEnds == A2r(BodyEnds)
TBodyDropped == A2r(BodyDropped)

-----------------------------------------------------------------------------
(* The client: complete_stream and its SseBuffer. *)

TReadPart == A2r(ReadPart)
TReadFrame == A2r(ReadFrame)
TReadEof == A2r(ReadEof)
TClientGone == A2r(ClientGone)

\* Only the daemon counts.
TTick ==
  /\ edition = "a2r"
  /\ taskClock < (IF task = "permit" THEN PermitWait ELSE IF Reading THEN UpIdle ELSE 0)
  /\ taskClock' = taskClock + 1
  /\ UNCHANGED <<attempt, cand, upstreamVars, taskVars, chan, dropped, body, wire,
                 client, clientVars, clientClock, edition, swallowed>>

-----------------------------------------------------------------------------
Reference == edition = "rust-ref" /\ Next /\ UNCHANGED <<edition, swallowed>>

TNext ==
  \/ Reference
  \/ TGranted \/ TPermitTimeout \/ TOpens
  \/ \E type \in ChunkTypes : TProcessJson(type) \/ TSwallow(type)
  \/ TStreamEnds \/ TStreamFails \/ TSendTail
  \/ TPollBody \/ TBodyEnds \/ TBodyDropped
  \/ TReadPart \/ TReadFrame \/ TReadEof \/ TClientGone
  \/ TTick

\* As in StreamBridge; the transpiled edition has no timer but the provider's
\* idle window and the permits' wait.
TFairness ==
  /\ WF_vars(edition = "rust-ref" /\ PermitTimeout)
  /\ WF_vars(edition = "rust-ref" /\ SendTimeout)
  /\ WF_vars(UpTimeout)
  /\ WF_vars(edition = "rust-ref" /\ body = "dropped" /\ StreamEnds)
  /\ WF_vars(edition = "rust-ref" /\ SendTail)
  /\ WF_vars(edition = "rust-ref" /\ TailTimeout)
  /\ WF_vars(PollBody) /\ WF_vars(BodyEnds) /\ WF_vars(BodyDropped)
  /\ WF_vars(ReadFrame) /\ WF_vars(ReadEof)
  /\ WF_vars(edition = "rust-ref" /\ IdleTimeout)
  /\ WF_vars(edition = "rust-ref" /\ Tick)
  /\ WF_tvars(TPermitTimeout)
  /\ WF_tvars(body = "dropped" /\ TStreamEnds)
  /\ WF_tvars(TSendTail)
  /\ WF_tvars(TTick)

TSpec == TInit /\ [][TNext]_tvars /\ TFairness

-----------------------------------------------------------------------------

\* Every event that has a frame is in the caller's text, spoilt or not, or was
\* dropped at a full channel or swallowed with its chunk: nothing vanishes
\* elsewhere on the way.
Texts == {n \in 1..Len(sent) : sent[n] \in {"delta", "reasoning"}}
NothingElseVanishes ==
  client = "ok" =>
    Cardinality(Texts \ (dropped \cup swallowed \cup ToSet(full)))
      <= Cardinality({i \in DOMAIN full : full[i] = 0})

\* The reference's task died at the warning about arguments that do not parse.
Panicked == edition = "rust-ref" /\ tail = "none" /\ accum = "partial"

\* No candidate had a permit, and the transpiled client looks at no status.
Unserved == edition = "a2r" /\ tail = "none" /\ sent = <<>> /\ cand = Candidates

\* The end of the body never overtakes the tail frame: an Ok has read the one
\* the task ended with.  Only in three ways is there an Ok without any, and each
\* is what server.rs:444-448 means to rule out: the frame met a channel full of
\* text and was given up (the reference after TailWait, the transpiled edition
\* at once), the task died at the warning, or nobody served the request.
TailBeforeEof ==
  client = "ok" =>
    \/ seen = {tail} /\ tail # "none"
    \/ seen = {} /\ ((lost /\ Len(full) >= ChanCap) \/ Panicked \/ Unserved)

\* A response with a tool call is taken for a final answer only with the error
\* that cut it short in it, or in one of three ways that are faults: its tail
\* frame was given up, the task died at the warning, or a swallowed chunk took
\* the call's name.  A call is run with arguments only when the provider sent
\* all of them, or when a swallowed chunk spliced them and they parse.  Chunks
\* are swallowed by the transpiled edition only.
ToolCallNeverMistaken ==
  client = "ok" =>
    /\ accum # "none" /\ calls = "none" =>
         seen = {"error"} \/ lost \/ Panicked \/ accum = "nameless"
    /\ calls = "input" => accum \in {"whole", "spliced"}
    /\ accum \in {"nameless", "spliced"} =>
         edition = "a2r" /\ \E n \in swallowed : sent[n] = "tool"

\* Whatever the providers do, complete_stream returns, and a task whose
\* provider answers ends and gives its permit back.  The transpiled client
\* waits as long as a provider that accepts the POST and says nothing.
CallReturns ==
  /\ client \in {"sending", "reading"} ~>
       client \in {"ok", "failed", "gone"} \/ (edition = "a2r" /\ task = "opening")
  /\ task \in {"reading", "tail"} ~> task = "ended"

=============================================================================
