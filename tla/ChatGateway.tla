---------------------------- MODULE ChatGateway ----------------------------
(***************************************************************************)
(* POST /v1/chat/completions of the daemon (server.rs): the candidate loop *)
(* with its bounded wait for a concurrency permit, the non-streaming call  *)
(* with fallback on retryable errors, and the streaming path, in which a   *)
(* spawned task owns the permit, the SSE body owns the cancellation guard  *)
(* and the client may disconnect at any moment.                            *)
(*                                                                         *)
(* Time is abstract: a timeout is an action that may happen whenever the   *)
(* thing waited for has not.  The frames inside the SSE channel are left   *)
(* to module StreamBridge.                                                 *)
(***************************************************************************)
EXTENDS Naturals, Sequences, FiniteSets

CONSTANTS
  Requests,    \* identities of chat requests, each used once
  Providers,   \* the configured providers: one semaphore and one client each
  Names,       \* provider names a request may mention, configured or not
  Models,      \* model ids
  Limit,       \* max_concurrency of each provider
  Forms,       \* what a request asks for: a chain, a tier or a model id
  Resolve,     \* Forms -> the candidate list the routing code builds for it
  Replies,     \* the ways an upstream call fails
  None         \* no provider

Candidate == [provider : Names, model : Models]

ErrorReply ==
  [how : {"status", "transport", "timeout", "body"},
   status : {0, 400, 402, 429, 503},
   billing : BOOLEAN]

ASSUME GatewayAssumption ==
  /\ IsFiniteSet(Requests)
  /\ Providers \subseteq Names
  /\ None \notin Names
  /\ Limit \in [Providers -> Nat]
  /\ Resolve \in [Forms -> Seq(Candidate)]
  /\ Replies \subseteq ErrorReply

-----------------------------------------------------------------------------
(* Errors of the provider layer (lib.rs). *)

\* LlmError::from_upstream_status: a 429 becomes RateLimited and loses its body.
FromUpstreamStatus(reply) ==
  IF reply.status = 429
  THEN [variant |-> "RateLimited", status |-> 429, billing |-> FALSE]
  ELSE [variant |-> "Upstream", status |-> reply.status, billing |-> reply.billing]

\* The LlmError a provider returns for a failed upstream call.
LlmError(reply) ==
  CASE reply.how = "status"    -> FromUpstreamStatus(reply)
    [] reply.how = "transport" -> [variant |-> "Http", status |-> 0, billing |-> FALSE]
    [] reply.how = "timeout"   -> [variant |-> "Timeout", status |-> 0, billing |-> FALSE]
    [] OTHER                   -> [variant |-> "Api", status |-> 0, billing |-> FALSE]

\* LlmError::is_quota_exhausted.
IsQuotaExhausted(e) == e.variant = "Upstream" /\ (e.status = 402 \/ e.billing)

\* LlmError::is_retryable; an Upstream error is retryable when it is a 5xx.
IsRetryable(e) ==
  \/ e.variant \in {"RateLimited", "Timeout", "Http"}
  \/ e.variant = "Upstream" /\ e.status >= 500

-----------------------------------------------------------------------------
VARIABLES
  pc,        \* request -> where its handler stands
  streamed,  \* request -> whether it asked for an SSE stream
  cands,     \* request -> its ordered candidates
  log,       \* request -> why each candidate before the current one was left
  answer,    \* request -> HTTP status returned, 0 while there is none
  permit,    \* request -> provider whose permit its handler or task holds
  avail,     \* provider -> permits left in its semaphore
  task,      \* request -> where the spawned streaming task stands
  body,      \* request -> state of the SSE body future
  cancel,    \* request -> whether its cancellation token has fired
  tail,      \* request -> tail frame the task sends
  usage,     \* request -> whether the upstream has reported token usage
  recorded   \* request -> number of UsageTracker entries it caused

handlerVars == <<pc, streamed, cands, log, answer>>
streamVars  == <<task, body, cancel, tail>>
meterVars   == <<usage, recorded>>
vars == <<handlerVars, permit, avail, streamVars, meterVars>>

\* Why the loop left a candidate: no permit within the wait, or a failed call.
Unavailable == [how |-> "unavailable", status |-> 0, billing |-> FALSE]
Outcome == ErrorReply \cup {Unavailable}

HandlerState == {"idle", "acquire", "calling", "streaming", "done", "gone"}
TaskState == {"none", "open", "reading", "tail", "ended"}
Statuses == {0, 200, 400, 402, 502}

LoopTypeOK ==
  /\ pc \in [Requests -> HandlerState]
  /\ streamed \in [Requests -> BOOLEAN]
  /\ cands \in [Requests -> Seq(Candidate)]
  /\ log \in [Requests -> Seq(Outcome)]
  /\ answer \in [Requests -> Statuses]

PermitTypeOK ==
  /\ permit \in [Requests -> Providers \cup {None}]
  /\ avail \in [Providers -> Nat]

StreamTypeOK ==
  /\ task \in [Requests -> TaskState]
  /\ body \in [Requests -> {"none", "fresh", "polled", "dropped", "eof"}]
  /\ cancel \in [Requests -> BOOLEAN]
  /\ tail \in [Requests -> {"none", "done", "error"}]

MeterTypeOK ==
  /\ usage \in [Requests -> BOOLEAN]
  /\ recorded \in [Requests -> Nat]

TypeOK == LoopTypeOK /\ PermitTypeOK /\ StreamTypeOK /\ MeterTypeOK

Init ==
  /\ pc = [r \in Requests |-> "idle"]
  /\ streamed = [r \in Requests |-> FALSE]
  /\ cands = [r \in Requests |-> <<>>]
  /\ log = [r \in Requests |-> <<>>]
  /\ answer = [r \in Requests |-> 0]
  /\ permit = [r \in Requests |-> None]
  /\ avail = Limit
  /\ task = [r \in Requests |-> "none"]
  /\ body = [r \in Requests |-> "none"]
  /\ cancel = [r \in Requests |-> FALSE]
  /\ tail = [r \in Requests |-> "none"]
  /\ usage = [r \in Requests |-> FALSE]
  /\ recorded = [r \in Requests |-> 0]

-----------------------------------------------------------------------------
(* The candidate loop. *)

Idx(r)  == Len(log[r]) + 1
Cand(r) == cands[r][Idx(r)]

\* Faulty variant: a permit is handed out without waiting for a free one.
TakePermitUnchecked(r, p) ==
  /\ avail' = [avail EXCEPT ![p] = @ - 1]
  /\ permit' = [permit EXCEPT ![r] = p]

\* The semaphore's acquire_owned hands out one of the permits it has left.
TakePermit(r, p) ==
  /\ avail[p] > 0
  /\ avail' = [avail EXCEPT ![p] = @ - 1]
  /\ permit' = [permit EXCEPT ![r] = p]

\* Faulty variant: the semaphore is told twice.
DropPermitTwice(r) ==
  /\ avail' = [avail EXCEPT ![permit[r]] = @ + 2]
  /\ permit' = [permit EXCEPT ![r] = None]

\* Dropping the OwnedSemaphorePermit returns it to the provider's semaphore.
DropPermit(r) ==
  /\ avail' = [avail EXCEPT ![permit[r]] = @ + 1]
  /\ permit' = [permit EXCEPT ![r] = None]

Respond(r, status) ==
  /\ pc' = [pc EXCEPT ![r] = "done"]
  /\ answer' = [answer EXCEPT ![r] = status]

\* Faulty variant: the chain is given up one candidate early.
NextCandidateSkipsLast(r, outcome) ==
  /\ log' = [log EXCEPT ![r] = Append(@, outcome)]
  /\ IF Idx(r) + 1 < Len(cands[r])
     THEN pc' = [pc EXCEPT ![r] = "acquire"] /\ UNCHANGED answer
     ELSE Respond(r, 502)

\* `continue`: the next candidate, or 502 when the loop has run out of them.
NextCandidate(r, outcome) ==
  /\ log' = [log EXCEPT ![r] = Append(@, outcome)]
  /\ IF Idx(r) < Len(cands[r])
     THEN pc' = [pc EXCEPT ![r] = "acquire"] /\ UNCHANGED answer
     ELSE Respond(r, 502)

\* A request arrives and is resolved; an unroutable one is answered 400.
Receive(r, form, stream) ==
  /\ pc[r] = "idle"
  /\ streamed' = [streamed EXCEPT ![r] = stream]
  /\ cands' = [cands EXCEPT ![r] = Resolve[form]]
  /\ IF Resolve[form] = <<>>
     THEN Respond(r, 400)
     ELSE pc' = [pc EXCEPT ![r] = "acquire"] /\ UNCHANGED answer
  /\ UNCHANGED <<log, permit, avail, streamVars, meterVars>>

\* acquire_with_timeout returns a permit: the call starts, or for a stream the
\* task is spawned with the permit and the 200 response with its body returned.
Granted(r) ==
  LET p == Cand(r).provider IN
  /\ pc[r] = "acquire"
  /\ p \in Providers
  /\ TakePermit(r, p)
  /\ IF streamed[r]
     THEN /\ pc' = [pc EXCEPT ![r] = "streaming"]
          /\ answer' = [answer EXCEPT ![r] = 200]
          /\ task' = [task EXCEPT ![r] = "open"]
          /\ body' = [body EXCEPT ![r] = "fresh"]
     ELSE /\ pc' = [pc EXCEPT ![r] = "calling"]
          /\ UNCHANGED <<answer, task, body>>
  /\ UNCHANGED <<streamed, cands, log, cancel, tail, meterVars>>

\* Faulty variant: an unbounded acquire() in place of acquire_with_timeout().
SaturatedNever(r) ==
  /\ pc[r] = "acquire"
  /\ Cand(r).provider \notin Providers
  /\ NextCandidate(r, Unavailable)
  /\ UNCHANGED <<streamed, cands, permit, avail, streamVars, meterVars>>

\* acquire_with_timeout returns None: no such pool, or no permit in time.
Saturated(r) ==
  LET p == Cand(r).provider IN
  /\ pc[r] = "acquire"
  /\ p \in Providers => avail[p] = 0
  /\ NextCandidate(r, Unavailable)
  /\ UNCHANGED <<streamed, cands, permit, avail, streamVars, meterVars>>

\* provider.complete succeeds; usage goes to the tracker if the reply had any.
CallSucceeds(r, reported) ==
  /\ pc[r] = "calling"
  /\ DropPermit(r)
  /\ Respond(r, 200)
  /\ usage' = [usage EXCEPT ![r] = reported]
  /\ recorded' = [recorded EXCEPT ![r] = IF reported THEN @ + 1 ELSE @]
  /\ UNCHANGED <<streamed, cands, log, streamVars>>

\* provider.complete fails: quota aborts with 402, a retryable error falls back,
\* any other error is a 502.  The permit is dropped first.
CallFails(r, reply) ==
  LET e == LlmError(reply) IN
  /\ pc[r] = "calling"
  /\ DropPermit(r)
  /\ \/ /\ IsQuotaExhausted(e)
        /\ Respond(r, 402)
        /\ log' = [log EXCEPT ![r] = Append(@, reply)]
     \/ /\ ~IsQuotaExhausted(e)
        /\ IsRetryable(e)
        /\ NextCandidate(r, reply)
     \/ /\ ~IsQuotaExhausted(e)
        /\ ~IsRetryable(e)
        /\ Respond(r, 502)
        /\ log' = [log EXCEPT ![r] = Append(@, reply)]
  /\ UNCHANGED <<streamed, cands, streamVars, meterVars>>

-----------------------------------------------------------------------------
(* The spawned streaming task and the SSE body. *)

\* The upstream request fails before its headers: an error frame, no fallback.
OpenFails(r) ==
  /\ task[r] = "open"
  /\ task' = [task EXCEPT ![r] = "tail"]
  /\ tail' = [tail EXCEPT ![r] = "error"]
  /\ UNCHANGED <<handlerVars, permit, avail, body, cancel, meterVars>>

\* The upstream answers with headers: the chunk loop starts.
Opens(r) ==
  /\ task[r] = "open"
  /\ task' = [task EXCEPT ![r] = "reading"]
  /\ UNCHANGED <<handlerVars, permit, avail, body, cancel, tail, meterVars>>

\* A chunk that carries token usage (chunks without are not visible here).
UsageChunk(r) ==
  /\ task[r] = "reading"
  /\ ~cancel[r]
  /\ usage' = [usage EXCEPT ![r] = TRUE]
  /\ UNCHANGED <<handlerVars, permit, avail, streamVars, recorded>>

\* Faulty variant: usage is recorded whether or not the upstream reported any.
StreamEndsRecordsAlways(r) ==
  /\ task[r] = "reading"
  /\ task' = [task EXCEPT ![r] = "tail"]
  /\ tail' = [tail EXCEPT ![r] = "done"]
  /\ recorded' = [recorded EXCEPT ![r] = @ + 1]
  /\ UNCHANGED <<handlerVars, permit, avail, body, cancel, usage>>

\* complete_stream returns Ok, at the upstream's end or because cancel fired
\* (the select! is biased: a fired cancel always wins).  Usage is recorded.
StreamEnds(r) ==
  /\ task[r] = "reading"
  /\ task' = [task EXCEPT ![r] = "tail"]
  /\ tail' = [tail EXCEPT ![r] = "done"]
  /\ recorded' = [recorded EXCEPT ![r] = IF usage[r] THEN @ + 1 ELSE @]
  /\ UNCHANGED <<handlerVars, permit, avail, body, cancel, usage>>

\* Idle timeout or transport error inside the chunk loop.
StreamFails(r) ==
  /\ task[r] = "reading"
  /\ ~cancel[r]
  /\ task' = [task EXCEPT ![r] = "tail"]
  /\ tail' = [tail EXCEPT ![r] = "error"]
  /\ UNCHANGED <<handlerVars, permit, avail, body, cancel, meterVars>>

\* Faulty variant: a refused tail frame returns early and forgets the permit.
TaskEndsForgetsPermit(r) ==
  /\ task[r] = "tail"
  /\ task' = [task EXCEPT ![r] = "ended"]
  /\ permit' = [permit EXCEPT ![r] = IF body[r] = "dropped" THEN @ ELSE None]
  /\ UNCHANGED <<handlerVars, avail, body, cancel, tail, meterVars>>

\* The tail frame is sent, refused by a closed channel or given up after 30 s;
\* in each case the task drops the permit and ends.
TaskEnds(r) ==
  /\ task[r] = "tail"
  /\ task' = [task EXCEPT ![r] = "ended"]
  /\ DropPermit(r)
  /\ UNCHANGED <<handlerVars, body, cancel, tail, meterVars>>

\* The server polls the body for the first time: CancelOnDrop is created.
PollBody(r) ==
  /\ body[r] = "fresh"
  /\ body' = [body EXCEPT ![r] = "polled"]
  /\ UNCHANGED <<handlerVars, permit, avail, task, cancel, tail, meterVars>>

\* The channel is closed and the task joined: the body ends, its guard fires.
BodyEnds(r) ==
  /\ body[r] = "polled"
  /\ task[r] = "ended"
  /\ body' = [body EXCEPT ![r] = "eof"]
  /\ cancel' = [cancel EXCEPT ![r] = TRUE]
  /\ UNCHANGED <<handlerVars, permit, avail, task, tail, meterVars>>

\* The client goes away while its handler runs: the future is dropped, and
\* with it the permit of a call in flight.
HandlerDropped(r) ==
  /\ pc[r] \in {"acquire", "calling"}
  /\ pc' = [pc EXCEPT ![r] = "gone"]
  /\ IF pc[r] = "calling" THEN DropPermit(r) ELSE UNCHANGED <<permit, avail>>
  /\ UNCHANGED <<streamed, cands, log, answer, streamVars, meterVars>>

\* The client goes away while the body is alive.  Only a body that has been
\* polled owns the guard, so only then does the token fire.
BodyDropped(r) ==
  /\ body[r] \in {"fresh", "polled"}
  /\ body' = [body EXCEPT ![r] = "dropped"]
  /\ cancel' = [cancel EXCEPT ![r] = body[r] = "polled"]
  /\ UNCHANGED <<handlerVars, permit, avail, task, tail, meterVars>>

-----------------------------------------------------------------------------
Handler(r) ==
  \/ \E form \in Forms, stream \in BOOLEAN : Receive(r, form, stream)
  \/ Granted(r)
  \/ Saturated(r)
  \/ \E reported \in BOOLEAN : CallSucceeds(r, reported)
  \/ \E reply \in Replies : CallFails(r, reply)
  \/ HandlerDropped(r)

Stream(r) ==
  \/ OpenFails(r)
  \/ Opens(r)
  \/ UsageChunk(r)
  \/ StreamEnds(r)
  \/ StreamFails(r)
  \/ TaskEnds(r)
  \/ PollBody(r)
  \/ BodyEnds(r)
  \/ BodyDropped(r)

Next == \E r \in Requests : Handler(r) \/ Stream(r)

Spec == Init /\ [][Next]_vars

-----------------------------------------------------------------------------
(* Safety. *)

Holders(p) == {r \in Requests : permit[r] = p}

\* No exit path of a handler or of a task leaks or doubles a permit: what the
\* semaphore has left and what requests hold always add up to max_concurrency
\* (the `drop(permit)` of each branch of chat_completions, the end of the
\* spawned task, and the drop of a handler whose client has gone).
PermitConservation ==
  \A p \in Providers : avail[p] + Cardinality(Holders(p)) = Limit[p]

\* A permit is held exactly while an upstream call is in flight for it: the
\* awaited complete(), or the streaming task from its spawn to its tail frame.
InFlight(r) == pc[r] = "calling" \/ task[r] \in {"open", "reading", "tail"}
PermitOnlyInFlight == \A r \in Requests : (permit[r] # None) <=> InFlight(r)

\* The answer of a request is explained by its history: a 200 or a stream is
\* given by the first candidate after ones that were saturated or failed
\* retryably, a 402 only follows a quota error of the last candidate tried,
\* and the chain is only exhausted when every candidate was tried.
MovedOn(outcome) ==
  \/ outcome = Unavailable
  \/ IsRetryable(LlmError(outcome)) /\ ~IsQuotaExhausted(LlmError(outcome))
AnswerExplained ==
  \A r \in Requests :
    LET n == Len(log[r]) IN
    /\ \A i \in 1..n - 1 : MovedOn(log[r][i])
    /\ answer[r] \in {0, 200} => n < Len(cands[r]) \/ pc[r] = "idle"
    /\ answer[r] \in {0, 200} => \A i \in 1..n : MovedOn(log[r][i])
    /\ answer[r] = 402 => n > 0 /\ log[r][n] # Unavailable /\ IsQuotaExhausted(LlmError(log[r][n]))
    /\ answer[r] = 502 => n > 0 /\ (MovedOn(log[r][n]) => n = Len(cands[r]))
    /\ (answer[r] = 400) <=> (pc[r] = "done" /\ cands[r] = <<>>)

\* Token usage reaches the tracker exactly once per call that ended well, and
\* never for one that failed or is still running, whatever the client does.
AccountedOnce ==
  \A r \in Requests :
    recorded[r] = IF usage[r] /\ (tail[r] = "done" \/ pc[r] = "done") THEN 1 ELSE 0

\* What the pool promises, for the holders this module computes.
Pool == INSTANCE PermitPool WITH holders <- [p \in Providers |-> Holders(p)]
ImplementsPool == Pool!PoolSpec

-----------------------------------------------------------------------------
(***************************************************************************)
(* Liveness. The daemon's own steps are fair: permit waits end by grant or  *)
(* timer, a fired cancel wins the biased select!, the tail frame has a 30 s *)
(* bound, and the server polls the body of a response.  Nothing is assumed  *)
(* of the upstream or of the client.                                        *)
(***************************************************************************)
Fairness ==
  \A r \in Requests :
    /\ WF_vars(Granted(r) \/ Saturated(r))
    /\ WF_vars(cancel[r] /\ StreamEnds(r))
    /\ WF_vars(TaskEnds(r))
    /\ WF_vars(PollBody(r))
    /\ WF_vars(BodyEnds(r))

FairSpec == Spec /\ Fairness

\* No request waits for a permit forever, however many candidates are
\* saturated and whoever holds their permits.
WaitEnds == \A r \in Requests : (pc[r] = "acquire") ~> (pc[r] # "acquire")

\* A stream whose upstream has answered stops soon after its body is dropped
\* with the guard armed, and its permit goes back.
CancelReleases ==
  \A r \in Requests : (cancel[r] /\ task[r] = "reading") ~> (permit[r] = None)

\* Client disconnect "releases the permit promptly" (server.rs, at the cancel
\* token of streaming_response).
DisconnectReleases ==
  \A r \in Requests : (body[r] = "dropped") ~> (permit[r] = None)

=============================================================================
