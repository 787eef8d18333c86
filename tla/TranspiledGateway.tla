------------------------- MODULE TranspiledGateway -------------------------
(***************************************************************************)
(* The same endpoint in the daemon transpiled from the Auto sources        *)
(* (rust/src/server.rs, openai.rs, anthropic.rs, error.rs, pool.rs): its   *)
(* handler resolves candidates with its own router, calls its providers    *)
(* through the http module of the Auto library and classifies what comes   *)
(* back with its own LlmError.  The permits, the spawned task and the body *)
(* guard are used as ChatGateway uses them, so those actions are its own,  *)
(* and either edition has to keep what ChatGateway states.                 *)
(***************************************************************************)
EXTENDS ChatGateway

CONSTANT TResolve    \* Resolve, by the transpiled router

\* Only a response with a status has a body, in which billing may be spoken of.
ASSUME TranspiledAssumption ==
  /\ TResolve \in [Forms -> Seq(Candidate)]
  /\ \A reply \in Replies : reply.how # "status" => ~reply.billing

VARIABLES
  edition    \* "rust-ref" or "a2r": the program that is running, for good

-----------------------------------------------------------------------------
(* Errors: an Upstream error stores whether it is retryable.               *)

\* LlmError::from_upstream_status.
TFromUpstreamStatus(status, billing) ==
  IF status = 429
  THEN [variant |-> "RateLimited", status |-> 429, billing |-> FALSE, retryable |-> TRUE]
  ELSE [variant |-> "Upstream", status |-> status, billing |-> billing,
        retryable |-> status \in 500..599]

\* send_async answers a call that failed in transport, or that timed out, with
\* a status that is no HTTP status, and the providers read that as 502.
StatusCode(reply) == IF reply.how = "status" THEN reply.status ELSE 502

TLlmError(reply) == TFromUpstreamStatus(StatusCode(reply), reply.billing)

TIsRetryable(e) == e.variant = "RateLimited" \/ e.retryable

TIsQuotaExhausted(e) == e.variant = "Upstream" /\ (e.status = 402 \/ e.billing)

\* The JSON readers answer Null for what is not there: a 2xx whose body does not
\* parse is an empty completion, not an error.
TFailures == {reply \in Replies : reply.how # "body"}

-----------------------------------------------------------------------------
(* The handler.                                                            *)

TReceive(r, form, stream) ==
  /\ pc[r] = "idle"
  /\ streamed' = [streamed EXCEPT ![r] = stream]
  /\ cands' = [cands EXCEPT ![r] = TResolve[form]]
  /\ IF TResolve[form] = <<>>
     THEN Respond(r, 400)
     ELSE pc' = [pc EXCEPT ![r] = "acquire"] /\ UNCHANGED answer
  /\ UNCHANGED <<log, permit, avail, streamVars, meterVars>>

\* acquire_with_timeout: a permit within permit_wait, or None.
TAcquire(r) == Granted(r) \/ Saturated(r)

\* complete() is Ok, for an empty completion too, which carries no usage.
TCallSucceeds(r, reported) == CallSucceeds(r, reported)

\* complete() is an error: the next candidate is tried only after a retryable
\* one, and the permit goes with its match arm.
TCallFails(r, reply) ==
  LET e == TLlmError(reply)
      final == TIsQuotaExhausted(e) \/ ~TIsRetryable(e) IN
  /\ pc[r] = "calling"
  /\ DropPermit(r)
  /\ final => /\ Respond(r, IF TIsQuotaExhausted(e) THEN 402 ELSE 502)
              /\ log' = [log EXCEPT ![r] = Append(@, reply)]
  /\ ~final => NextCandidate(r, reply)
  /\ UNCHANGED <<streamed, cands, streamVars, meterVars>>

THandler(r) ==
  \/ \E form \in Forms, stream \in BOOLEAN : TReceive(r, form, stream)
  \/ TAcquire(r)
  \/ \E reported \in BOOLEAN : TCallSucceeds(r, reported)
  \/ \E reply \in TFailures : TCallFails(r, reply)
  \/ HandlerDropped(r)

\* streaming_response of server_glue.rs spawns the task and builds the body as
\* rust-ref does; its frames are the subject of TranspiledStream.
TStream(r) == Stream(r)

-----------------------------------------------------------------------------
TInit == Init /\ edition \in {"rust-ref", "a2r"}

TNext ==
  /\ \/ edition = "rust-ref" /\ Next
     \/ edition = "a2r" /\ \E r \in Requests : THandler(r) \/ TStream(r)
  /\ UNCHANGED edition

\* The fairness of ChatGateway: its permit wait, biased select!, tail frame and
\* body are the transpiled daemon's too, whose tail frame never waits at all.
TSpec == TInit /\ [][TNext]_<<vars, edition>> /\ Fairness

=============================================================================
