------------------------- MODULE ChatGateway_proof -------------------------
(***************************************************************************)
(* Proofs about the gateway for any number of requests and providers, any  *)
(* limits, any routing and any set of upstream failures, in both editions: *)
(* the steps of either are among those of AnyNext, in which a request may  *)
(* resolve to any list of candidates, and the invariants are AnyNext's.    *)
(***************************************************************************)
EXTENDS TranspiledGateway, TLAPS, FiniteSetTheorems

\* A request arrives and is resolved to a list of candidates.
Arrives(r, list, stream) ==
  /\ pc[r] = "idle"
  /\ streamed' = [streamed EXCEPT ![r] = stream]
  /\ cands' = [cands EXCEPT ![r] = list]
  /\ IF list = <<>>
     THEN Respond(r, 400)
     ELSE pc' = [pc EXCEPT ![r] = "acquire"] /\ UNCHANGED answer
  /\ UNCHANGED <<log, permit, avail, streamVars, meterVars>>

AnyHandler(r) ==
  \/ \E list \in Seq(Candidate), stream \in BOOLEAN : Arrives(r, list, stream)
  \/ Granted(r)
  \/ Saturated(r)
  \/ \E reported \in BOOLEAN : CallSucceeds(r, reported)
  \/ \E reply \in Replies : CallFails(r, reply)
  \/ HandlerDropped(r)

AnyNext == \E r \in Requests : AnyHandler(r) \/ Stream(r)

\* The reference handler's steps are among those.
LEMMA ReferenceSteps ==
  ASSUME NEW r \in Requests, Handler(r)
  PROVE  AnyHandler(r)
<1>1. ASSUME NEW form \in Forms, NEW stream \in BOOLEAN, Receive(r, form, stream)
      PROVE  Resolve[form] \in Seq(Candidate) /\ Arrives(r, Resolve[form], stream)
  BY <1>1, GatewayAssumption DEF Receive, Arrives
<1>. QED
  BY <1>1 DEF Handler, AnyHandler

\* The transpiled daemon's own classification of a failed call comes to the same
\* verdict: what it makes of a failed transport, a 502, is retryable too.
LEMMA SameVerdict ==
  ASSUME NEW reply \in TFailures
  PROVE  /\ TIsQuotaExhausted(TLlmError(reply)) <=> IsQuotaExhausted(LlmError(reply))
         /\ TIsRetryable(TLlmError(reply)) <=> IsRetryable(LlmError(reply))
<1>1. /\ reply \in Replies /\ reply \in ErrorReply /\ reply.how # "body"
      /\ reply.how # "status" => ~reply.billing
  BY GatewayAssumption, TranspiledAssumption DEF TFailures
<1>2. /\ reply.how \in {"status", "transport", "timeout"}
      /\ reply.status \in {0, 400, 402, 429, 503} /\ reply.billing \in BOOLEAN
  BY <1>1 DEF ErrorReply
<1>3. CASE reply.how = "status" /\ reply.status = 429
  <2>1. LlmError(reply) = [variant |-> "RateLimited", status |-> 429, billing |-> FALSE]
    BY <1>3 DEF LlmError, FromUpstreamStatus
  <2>2. TLlmError(reply) = [variant |-> "RateLimited", status |-> 429, billing |-> FALSE,
                            retryable |-> TRUE]
    BY <1>3 DEF TLlmError, StatusCode, TFromUpstreamStatus
  <2>. QED
    BY <2>1, <2>2 DEF TIsQuotaExhausted, TIsRetryable, IsQuotaExhausted, IsRetryable
<1>4. CASE reply.how = "status" /\ reply.status # 429
  <2>1. LlmError(reply) = [variant |-> "Upstream", status |-> reply.status,
                           billing |-> reply.billing]
    BY <1>4 DEF LlmError, FromUpstreamStatus
  <2>2. TLlmError(reply) = [variant |-> "Upstream", status |-> reply.status,
                            billing |-> reply.billing, retryable |-> reply.status \in 500..599]
    BY <1>4 DEF TLlmError, StatusCode, TFromUpstreamStatus
  <2>3. reply.status \in 500..599 <=> reply.status >= 500
    BY <1>2
  <2>4. TIsRetryable(TLlmError(reply)) <=> reply.status \in 500..599
    <3>1. /\ TLlmError(reply).variant = "Upstream"
          /\ TLlmError(reply).retryable = (reply.status \in 500..599)
      BY <2>2, SMT
    <3>2. TLlmError(reply).variant # "RateLimited"
      BY <3>1
    <3>. QED
      BY <3>1, <3>2, Zenon DEF TIsRetryable
  <2>5. IsRetryable(LlmError(reply)) <=> reply.status >= 500
    BY <2>1 DEF IsRetryable
  <2>6. TIsQuotaExhausted(TLlmError(reply)) <=> IsQuotaExhausted(LlmError(reply))
    <3>1. /\ TLlmError(reply).variant = LlmError(reply).variant
          /\ TLlmError(reply).status = LlmError(reply).status
          /\ TLlmError(reply).billing = LlmError(reply).billing
      BY <2>1, <2>2, SMT
    <3>. QED
      BY <3>1, Zenon DEF TIsQuotaExhausted, IsQuotaExhausted
  <2>. QED
    BY <2>3, <2>4, <2>5, <2>6
<1>5. CASE reply.how \in {"transport", "timeout"}
  <2>1. LlmError(reply).variant \in {"Http", "Timeout"}
    BY <1>5 DEF LlmError
  <2>2. TLlmError(reply) = [variant |-> "Upstream", status |-> 502,
                            billing |-> reply.billing, retryable |-> 502 \in 500..599]
    BY <1>5 DEF TLlmError, StatusCode, TFromUpstreamStatus
  <2>3. TIsRetryable(TLlmError(reply)) <=> 502 \in 500..599
    <3>1. /\ TLlmError(reply).variant = "Upstream"
          /\ TLlmError(reply).retryable = (502 \in 500..599)
      BY <2>2, SMT
    <3>2. TLlmError(reply).variant # "RateLimited"
      BY <3>1
    <3>. QED
      BY <3>1, <3>2, Zenon DEF TIsRetryable
  <2>4. 502 \in 500..599 /\ 502 # 402
    OBVIOUS
  <2>5. ~TIsQuotaExhausted(TLlmError(reply))
    BY <1>1, <1>5, <2>2, <2>4 DEF TIsQuotaExhausted
  <2>6. IsRetryable(LlmError(reply)) /\ ~IsQuotaExhausted(LlmError(reply))
    BY <2>1 DEF IsRetryable, IsQuotaExhausted
  <2>. QED
    BY <2>3, <2>4, <2>5, <2>6
<1>. QED
  BY <1>2, <1>3, <1>4, <1>5

\* So are the transpiled handler's steps.
LEMMA TranspiledSteps ==
  ASSUME NEW r \in Requests, THandler(r)
  PROVE  AnyHandler(r)
<1>1. ASSUME NEW form \in Forms, NEW stream \in BOOLEAN, TReceive(r, form, stream)
      PROVE  TResolve[form] \in Seq(Candidate) /\ Arrives(r, TResolve[form], stream)
  BY <1>1, TranspiledAssumption DEF TReceive, Arrives
<1>2. ASSUME NEW reply \in TFailures, TCallFails(r, reply)
      PROVE  reply \in Replies /\ CallFails(r, reply)
  <2> DEFINE quota == IsQuotaExhausted(LlmError(reply))
             retry == IsRetryable(LlmError(reply))
  <2>1. /\ TIsQuotaExhausted(TLlmError(reply)) <=> quota
        /\ TIsRetryable(TLlmError(reply)) <=> retry
    BY SameVerdict
  <2>2. /\ pc[r] = "calling" /\ DropPermit(r)
        /\ UNCHANGED <<streamed, cands, streamVars, meterVars>>
        /\ (quota \/ ~retry) => /\ Respond(r, IF quota THEN 402 ELSE 502)
                                /\ log' = [log EXCEPT ![r] = Append(@, reply)]
        /\ ~(quota \/ ~retry) => NextCandidate(r, reply)
    BY <1>2, <2>1 DEF TCallFails
  <2>3. \/ quota /\ Respond(r, 402) /\ log' = [log EXCEPT ![r] = Append(@, reply)]
        \/ ~quota /\ retry /\ NextCandidate(r, reply)
        \/ ~quota /\ ~retry /\ Respond(r, 502) /\ log' = [log EXCEPT ![r] = Append(@, reply)]
    BY <2>2
  <2>. QED
    BY <2>2, <2>3 DEF CallFails, TFailures
<1>. QED
  BY <1>1, <1>2 DEF THandler, TAcquire, TCallSucceeds, AnyHandler

\* Every behaviour of either edition is one of AnyNext.
Gateway == Init /\ [][AnyNext]_vars

\* Both editions are behaviours of the handlers the proofs are about.
LEMMA Editions == (Spec => Gateway) /\ (TSpec => Gateway)
<1>1. [Next]_vars => [AnyNext]_vars
  BY ReferenceSteps DEF Next, AnyNext
<1>2. [TNext]_<<vars, edition>> => [AnyNext]_vars
  <2>1. edition = "rust-ref" /\ Next => AnyNext
    BY ReferenceSteps DEF Next, AnyNext
  <2>2. edition = "a2r" /\ (\E r \in Requests : THandler(r) \/ TStream(r)) => AnyNext
    BY TranspiledSteps DEF AnyNext, TStream
  <2>. QED
    BY <2>1, <2>2 DEF TNext
<1>. QED
  BY <1>1, <1>2, PTL DEF Spec, TSpec, TInit, Gateway

-----------------------------------------------------------------------------
(* Permits. *)

\* A request in the candidate loop has a candidate to look at.
InChain == \A r \in Requests :
  pc[r] \in {"acquire", "calling"} => Len(log[r]) < Len(cands[r])

\* A request that has not arrived has left no candidate.
IdleLog == \A r \in Requests : pc[r] = "idle" => log[r] = <<>>

\* The streaming task exists exactly for a handler that went streaming.
TaskOfStream == \A r \in Requests : (task[r] # "none") <=> (pc[r] = "streaming")

\* The inductive invariant of the permit properties.
PermitInv ==
  /\ TypeOK
  /\ InChain
  /\ IdleLog
  /\ TaskOfStream
  /\ PermitOnlyInFlight
  /\ PermitConservation

-----------------------------------------------------------------------------
\* The holders of a provider's permits form a finite set.
LEMMA HoldersFinite ==
  ASSUME NEW p
  PROVE  IsFiniteSet(Holders(p)) /\ Cardinality(Holders(p)) \in Nat
<1>1. IsFiniteSet(Requests)
  BY GatewayAssumption
<1>2. Holders(p) \subseteq Requests
  BY DEF Holders
<1>. QED
  BY <1>1, <1>2, FS_Subset, FS_CardinalityType

\* Taking a permit moves it from the semaphore to the request.
LEMMA TakeConserves ==
  ASSUME PermitTypeOK, PermitConservation,
         NEW r \in Requests, NEW p \in Providers,
         permit[r] = None, TakePermit(r, p)
  PROVE  /\ permit' \in [Requests -> Providers \cup {None}]
         /\ avail' \in [Providers -> Nat]
         /\ permit'[r] = p
         /\ \A s \in Requests \ {r} : permit'[s] = permit[s]
         /\ PermitConservation'
<1>. USE DEF PermitTypeOK, TakePermit
<1>0. None \notin Providers
  BY GatewayAssumption
<1>1. /\ permit' \in [Requests -> Providers \cup {None}]
      /\ avail' \in [Providers -> Nat]
      /\ permit'[r] = p
      /\ \A s \in Requests \ {r} : permit'[s] = permit[s]
  OBVIOUS
<1>2. ASSUME NEW q \in Providers
      PROVE  avail'[q] + Cardinality(Holders(q)') = Limit[q]
  <2>1. avail[q] + Cardinality(Holders(q)) = Limit[q]
    BY DEF PermitConservation
  <2>2. CASE q = p
    <3>1. Holders(q)' = Holders(q) \cup {r} /\ r \notin Holders(q)
      BY <1>0, <1>1, <2>2 DEF Holders
    <3>2. Cardinality(Holders(q)') = Cardinality(Holders(q)) + 1
      <4>1. IsFiniteSet(Holders(q))
        BY HoldersFinite
      <4>2. Cardinality(Holders(q) \cup {r}) = Cardinality(Holders(q)) + 1
        BY ONLY <4>1, <3>1, FS_AddElement
      <4>. QED
        BY ONLY <3>1, <4>2
    <3>3. avail'[q] = avail[q] - 1
      BY <2>2
    <3>. QED
      BY <2>1, <3>2, <3>3, HoldersFinite
  <2>3. CASE q # p
    <3>1. Holders(q)' = Holders(q)
      BY <1>0, <1>1, <2>3 DEF Holders
    <3>. QED
      BY <2>1, <2>3, <3>1
  <2>. QED
    BY <2>2, <2>3
<1>. QED
  BY <1>1, <1>2 DEF PermitConservation

\* Dropping a permit moves it back.
LEMMA DropConserves ==
  ASSUME PermitTypeOK, PermitConservation,
         NEW r \in Requests, permit[r] # None, DropPermit(r)
  PROVE  /\ permit' \in [Requests -> Providers \cup {None}]
         /\ avail' \in [Providers -> Nat]
         /\ permit'[r] = None
         /\ \A s \in Requests \ {r} : permit'[s] = permit[s]
         /\ PermitConservation'
<1>. USE DEF PermitTypeOK, DropPermit
<1>0. None \notin Providers /\ permit[r] \in Providers
  BY GatewayAssumption
<1>1. /\ permit' \in [Requests -> Providers \cup {None}]
      /\ avail' \in [Providers -> Nat]
      /\ permit'[r] = None
      /\ \A s \in Requests \ {r} : permit'[s] = permit[s]
  BY <1>0
<1>2. ASSUME NEW q \in Providers
      PROVE  avail'[q] + Cardinality(Holders(q)') = Limit[q]
  <2>1. avail[q] + Cardinality(Holders(q)) = Limit[q]
    BY DEF PermitConservation
  <2>2. CASE q = permit[r]
    <3>1. Holders(q)' = Holders(q) \ {r} /\ r \in Holders(q)
      BY <1>0, <1>1, <2>2 DEF Holders
    <3>2. Cardinality(Holders(q)') = Cardinality(Holders(q)) - 1
      <4>1. IsFiniteSet(Holders(q))
        BY HoldersFinite
      <4>2. Cardinality(Holders(q) \ {r}) = Cardinality(Holders(q)) - 1
        BY ONLY <4>1, <3>1, FS_RemoveElement
      <4>. QED
        BY ONLY <3>1, <4>2
    <3>3. avail'[q] = avail[q] + 1
      BY <2>2
    <3>. QED
      BY <2>1, <3>2, <3>3, HoldersFinite
  <2>3. CASE q # permit[r]
    <3>1. Holders(q)' = Holders(q)
      BY <1>0, <1>1, <2>3 DEF Holders
    <3>. QED
      BY <2>1, <2>3, <3>1, <1>0
  <2>. QED
    BY <2>2, <2>3
<1>. QED
  BY <1>1, <1>2 DEF PermitConservation

\* A step that touches no permit conserves them.
LEMMA IdleConserves ==
  ASSUME PermitConservation, UNCHANGED <<permit, avail>>
  PROVE  PermitConservation'
BY DEF PermitConservation, Holders

-----------------------------------------------------------------------------
\* Moving on appends one outcome and either keeps a candidate or finishes.
LEMMA NextCandidateMoves ==
  ASSUME LoopTypeOK, NEW r \in Requests, NEW outcome \in Outcome,
         NextCandidate(r, outcome), Len(log[r]) < Len(cands[r])
  PROVE  /\ log' \in [Requests -> Seq(Outcome)]
         /\ pc' \in [Requests -> HandlerState]
         /\ answer' \in [Requests -> Statuses]
         /\ \A s \in Requests \ {r} : pc'[s] = pc[s] /\ log'[s] = log[s]
         /\ pc'[r] \in {"acquire", "done"}
         /\ pc'[r] = "acquire" => Len(log'[r]) < Len(cands[r])
<1>1. /\ Append(log[r], outcome) \in Seq(Outcome)
      /\ Len(Append(log[r], outcome)) = Len(log[r]) + 1
  BY DEF LoopTypeOK
<1>2. /\ log' \in [Requests -> Seq(Outcome)]
      /\ log'[r] = Append(log[r], outcome)
      /\ \A s \in Requests \ {r} : log'[s] = log[s]
  BY <1>1 DEF NextCandidate, LoopTypeOK
<1>3. pc \in [Requests -> HandlerState] /\ answer \in [Requests -> Statuses]
  BY DEF LoopTypeOK
<1>4. {"acquire", "done"} \subseteq HandlerState /\ 502 \in Statuses
  BY DEF HandlerState, Statuses
<1>5. CASE Idx(r) < Len(cands[r])
  <2>1. pc' = [pc EXCEPT ![r] = "acquire"] /\ answer' = answer
    BY <1>5 DEF NextCandidate
  <2>2. Len(log'[r]) < Len(cands[r])
    BY <1>1, <1>2, <1>5 DEF Idx
  <2>. QED
    BY <1>2, <1>3, <1>4, <2>1, <2>2
<1>6. CASE ~(Idx(r) < Len(cands[r]))
  <2>1. pc' = [pc EXCEPT ![r] = "done"] /\ answer' = [answer EXCEPT ![r] = 502]
    BY <1>6 DEF NextCandidate, Respond
  <2>. QED
    BY <1>2, <1>3, <1>4, <2>1
<1>. QED
  BY <1>5, <1>6

\* Answering finishes the request.
LEMMA RespondTypes ==
  ASSUME LoopTypeOK, NEW r \in Requests, NEW status \in {200, 400, 402, 502},
         Respond(r, status)
  PROVE  /\ pc' \in [Requests -> HandlerState]
         /\ answer' \in [Requests -> Statuses]
         /\ \A s \in Requests \ {r} : pc'[s] = pc[s]
         /\ pc'[r] = "done"
<1>1. pc' = [pc EXCEPT ![r] = "done"] /\ answer' = [answer EXCEPT ![r] = status]
  BY DEF Respond
<1>2. pc \in [Requests -> HandlerState] /\ answer \in [Requests -> Statuses]
  BY DEF LoopTypeOK
<1>3. "done" \in HandlerState /\ status \in Statuses
  BY DEF HandlerState, Statuses
<1>. QED
  BY ONLY <1>1, <1>2, <1>3

\* The outcomes appended to a log are typed.
LEMMA OutcomeTypes ==
  Unavailable \in Outcome /\ \A reply \in Replies : reply \in Outcome
BY GatewayAssumption DEF Outcome

\* A step that leaves the variables of a group alone keeps their types.
LEMMA IdleTypes ==
  /\ LoopTypeOK /\ UNCHANGED handlerVars => LoopTypeOK'
  /\ PermitTypeOK /\ UNCHANGED <<permit, avail>> => PermitTypeOK'
  /\ StreamTypeOK /\ UNCHANGED streamVars => StreamTypeOK'
  /\ MeterTypeOK /\ UNCHANGED meterVars => MeterTypeOK'
<1>1. LoopTypeOK /\ UNCHANGED handlerVars => LoopTypeOK'
  BY DEF LoopTypeOK, handlerVars
<1>2. PermitTypeOK /\ UNCHANGED <<permit, avail>> => PermitTypeOK'
  BY DEF PermitTypeOK
<1>3. StreamTypeOK /\ UNCHANGED streamVars => StreamTypeOK'
  BY DEF StreamTypeOK, streamVars
<1>4. MeterTypeOK /\ UNCHANGED meterVars => MeterTypeOK'
  BY DEF MeterTypeOK, meterVars
<1>. QED
  BY <1>1, <1>2, <1>3, <1>4

\* Before any request every permit is free.
LEMMA PermitInvInit == Init => PermitInv
<1>. SUFFICES ASSUME Init PROVE PermitInv
  OBVIOUS
<1>. USE DEF Init
<1>1. TypeOK
  BY GatewayAssumption DEF TypeOK, LoopTypeOK, PermitTypeOK, StreamTypeOK, MeterTypeOK,
                           HandlerState, TaskState, Statuses
<1>2. InChain /\ IdleLog /\ TaskOfStream /\ PermitOnlyInFlight
  BY DEF InChain, IdleLog, TaskOfStream, PermitOnlyInFlight, InFlight
<1>3. PermitConservation
  <2>. SUFFICES ASSUME NEW p \in Providers
                PROVE  avail[p] + Cardinality(Holders(p)) = Limit[p]
    BY DEF PermitConservation
  <2>1. Holders(p) = {}
    BY GatewayAssumption DEF Holders
  <2>2. Cardinality(Holders(p)) = 0
    BY <2>1, FS_EmptySet
  <2>. QED
    BY <2>2, GatewayAssumption
<1>. QED
  BY <1>1, <1>2, <1>3 DEF PermitInv

-----------------------------------------------------------------------------
\* How the invariant is kept by a step of request r that leaves the other
\* requests alone.
LEMMA FrameKeepsPermitInv ==
  ASSUME PermitInv, NEW r \in Requests,
         TypeOK', PermitConservation',
         \A s \in Requests \ {r} :
           /\ pc'[s] = pc[s] /\ cands'[s] = cands[s] /\ log'[s] = log[s]
           /\ task'[s] = task[s] /\ permit'[s] = permit[s],
         pc'[r] # "idle",
         pc'[r] \in {"acquire", "calling"} => Len(log'[r]) < Len(cands'[r]),
         (task'[r] # "none") <=> (pc'[r] = "streaming"),
         (permit'[r] # None) <=> InFlight(r)'
  PROVE  PermitInv'
<1>1. InChain' /\ IdleLog'
  BY DEF PermitInv, InChain, IdleLog
<1>2. TaskOfStream'
  BY DEF PermitInv, TaskOfStream
<1>3. PermitOnlyInFlight'
  BY DEF PermitInv, PermitOnlyInFlight, InFlight
<1>. QED
  BY <1>1, <1>2, <1>3 DEF PermitInv

\* Every step of the candidate loop keeps the invariant.
LEMMA HandlerKeepsPermitInv ==
  ASSUME PermitInv, NEW r \in Requests, AnyHandler(r)
  PROVE  PermitInv'
<1>0. /\ LoopTypeOK /\ PermitTypeOK /\ StreamTypeOK /\ MeterTypeOK
      /\ InChain /\ IdleLog /\ TaskOfStream /\ PermitOnlyInFlight /\ PermitConservation
  BY DEF PermitInv, TypeOK
<1>1. /\ pc \in [Requests -> HandlerState] /\ answer \in [Requests -> Statuses]
      /\ cands \in [Requests -> Seq(Candidate)] /\ log \in [Requests -> Seq(Outcome)]
      /\ streamed \in [Requests -> BOOLEAN]
      /\ task \in [Requests -> TaskState]
      /\ {"idle", "acquire", "calling", "streaming", "done", "gone"} \subseteq HandlerState
      /\ {"none", "open", "reading", "tail", "ended"} \subseteq TaskState
      /\ {0, 200, 400, 402, 502} \subseteq Statuses
  BY <1>0 DEF LoopTypeOK, StreamTypeOK, HandlerState, TaskState, Statuses
<1>2. /\ (task[r] # "none") <=> (pc[r] = "streaming")
      /\ (permit[r] # None) <=> InFlight(r)
      /\ pc[r] \in {"acquire", "calling"} => Len(log[r]) < Len(cands[r])
      /\ pc[r] = "idle" => log[r] = <<>>
  BY <1>0 DEF TaskOfStream, PermitOnlyInFlight, InChain, IdleLog
<1>3. ASSUME DropPermit(r), permit[r] # None
      PROVE  /\ PermitTypeOK' /\ PermitConservation'
             /\ permit'[r] = None
             /\ \A s \in Requests \ {r} : permit'[s] = permit[s]
  BY <1>0, <1>3, DropConserves DEF PermitTypeOK
<1>4. ASSUME NEW list \in Seq(Candidate), NEW stream \in BOOLEAN, Arrives(r, list, stream)
      PROVE  PermitInv'
  <2>1. /\ streamed' \in [Requests -> BOOLEAN]
        /\ cands' \in [Requests -> Seq(Candidate)]
        /\ cands'[r] = list
        /\ \A s \in Requests \ {r} : cands'[s] = cands[s]
    BY <1>1, <1>4 DEF Arrives
  <2>2. /\ pc' \in [Requests -> HandlerState] /\ answer' \in [Requests -> Statuses]
        /\ \A s \in Requests \ {r} : pc'[s] = pc[s]
        /\ pc'[r] \in {"acquire", "done"}
        /\ pc'[r] = "acquire" => list # <<>>
    <3>1. CASE list = <<>>
      BY <1>0, <1>4, <3>1, RespondTypes DEF Arrives
    <3>2. CASE list # <<>>
      <4>1. pc' = [pc EXCEPT ![r] = "acquire"] /\ answer' = answer
        BY <1>4, <3>2 DEF Arrives
      <4>. QED
        BY <1>1, <3>2, <4>1
    <3>. QED
      BY <3>1, <3>2
  <2>3. /\ pc[r] = "idle"
        /\ UNCHANGED <<log, permit, avail, streamVars, meterVars, task>>
    BY <1>4 DEF Arrives, streamVars
  <2>4. TypeOK' /\ PermitConservation'
    <3>1. LoopTypeOK'
      BY <1>1, <2>1, <2>2, <2>3 DEF LoopTypeOK
    <3>. QED
      BY <1>0, <2>3, <3>1, IdleTypes, IdleConserves DEF TypeOK
  <2>5. pc'[r] = "acquire" => Len(log'[r]) < Len(cands'[r])
    <3>1. list # <<>> => Len(<<>>) < Len(list)
      OBVIOUS
    <3>. QED
      BY <1>2, <2>1, <2>2, <2>3, <3>1
  <2>6. ~InFlight(r) /\ ~InFlight(r)' /\ task[r] = "none"
    BY <1>1, <1>2, <2>2, <2>3 DEF InFlight
  <2>. QED
    BY <1>2, <2>1, <2>2, <2>3, <2>4, <2>5, <2>6, FrameKeepsPermitInv
<1>5. ASSUME Granted(r) PROVE PermitInv'
  <2>1. /\ pc[r] = "acquire" /\ task[r] = "none"
        /\ Cand(r).provider \in Providers
        /\ TakePermit(r, Cand(r).provider)
        /\ UNCHANGED <<streamed, cands, log, cancel, tail, meterVars>>
    BY <1>2, <1>5 DEF Granted
  <2>2. permit[r] = None
    BY <1>2, <2>1 DEF InFlight
  <2>3. /\ PermitTypeOK' /\ PermitConservation'
        /\ permit'[r] = Cand(r).provider /\ permit'[r] # None
        /\ \A s \in Requests \ {r} : permit'[s] = permit[s]
    BY <1>0, <2>1, <2>2, TakeConserves, GatewayAssumption DEF PermitTypeOK
  <2>4. /\ pc' \in [Requests -> HandlerState] /\ answer' \in [Requests -> Statuses]
        /\ task' \in [Requests -> TaskState]
        /\ \A s \in Requests \ {r} : pc'[s] = pc[s] /\ task'[s] = task[s]
        /\ \/ pc'[r] = "streaming" /\ task'[r] = "open"
           \/ pc'[r] = "calling" /\ task'[r] = "none"
    <3>1. CASE streamed[r]
      <4>1. /\ pc' = [pc EXCEPT ![r] = "streaming"]
            /\ answer' = [answer EXCEPT ![r] = 200]
            /\ task' = [task EXCEPT ![r] = "open"]
        BY <1>5, <3>1 DEF Granted
      <4>. QED
        BY <1>1, <4>1
    <3>2. CASE ~streamed[r]
      <4>1. pc' = [pc EXCEPT ![r] = "calling"] /\ answer' = answer /\ task' = task
        BY <1>5, <3>2 DEF Granted
      <4>. QED
        BY <1>1, <2>1, <4>1
    <3>. QED
      BY <3>1, <3>2
  <2>5. body' \in [Requests -> {"none", "fresh", "polled", "dropped", "eof"}]
    BY <1>0, <1>5 DEF Granted, StreamTypeOK
  <2>6. LoopTypeOK' /\ StreamTypeOK' /\ MeterTypeOK'
    BY <1>0, <2>1, <2>4, <2>5 DEF LoopTypeOK, StreamTypeOK, MeterTypeOK, meterVars
  <2>7. InFlight(r)' /\ Len(log'[r]) < Len(cands'[r])
    BY <1>2, <2>1, <2>4 DEF InFlight
  <2>. QED
    BY <2>1, <2>3, <2>4, <2>6, <2>7, FrameKeepsPermitInv DEF TypeOK
<1>6. ASSUME Saturated(r) PROVE PermitInv'
  <2>1. /\ pc[r] = "acquire" /\ task[r] = "none" /\ permit[r] = None
        /\ NextCandidate(r, Unavailable)
        /\ UNCHANGED <<streamed, cands, permit, avail, streamVars, meterVars, task>>
    BY <1>2, <1>6 DEF Saturated, InFlight, streamVars
  <2>2. /\ log' \in [Requests -> Seq(Outcome)]
        /\ pc' \in [Requests -> HandlerState]
        /\ answer' \in [Requests -> Statuses]
        /\ \A s \in Requests \ {r} : pc'[s] = pc[s] /\ log'[s] = log[s]
        /\ pc'[r] \in {"acquire", "done"}
        /\ pc'[r] = "acquire" => Len(log'[r]) < Len(cands[r])
    BY <1>0, <1>2, <2>1, OutcomeTypes, NextCandidateMoves
  <2>3. LoopTypeOK'
    BY <1>1, <2>1, <2>2 DEF LoopTypeOK
  <2>4. ~InFlight(r)'
    BY <2>1, <2>2 DEF InFlight
  <2>5. TypeOK' /\ PermitConservation'
    BY <1>0, <2>1, <2>3, IdleTypes, IdleConserves DEF TypeOK
  <2>. QED
    BY <2>1, <2>2, <2>4, <2>5, FrameKeepsPermitInv
<1>7. ASSUME NEW reported \in BOOLEAN, CallSucceeds(r, reported) PROVE PermitInv'
  <2>1. /\ pc[r] = "calling" /\ task[r] = "none" /\ DropPermit(r)
        /\ UNCHANGED <<streamed, cands, log, streamVars, task>>
    BY <1>2, <1>7 DEF CallSucceeds, streamVars
  <2>2. permit[r] # None
    BY <1>2, <2>1 DEF InFlight
  <2>3. /\ PermitTypeOK' /\ PermitConservation'
        /\ permit'[r] = None
        /\ \A s \in Requests \ {r} : permit'[s] = permit[s]
    BY <1>3, <2>1, <2>2
  <2>4. /\ pc' \in [Requests -> HandlerState] /\ answer' \in [Requests -> Statuses]
        /\ \A s \in Requests \ {r} : pc'[s] = pc[s]
        /\ pc'[r] = "done"
    BY <1>1, <1>7 DEF CallSucceeds, Respond
  <2>5. LoopTypeOK'
    BY <1>1, <2>1, <2>4 DEF LoopTypeOK
  <2>6. MeterTypeOK'
    BY <1>0, <1>7 DEF CallSucceeds, MeterTypeOK
  <2>7. TypeOK'
    BY <1>0, <2>1, <2>3, <2>5, <2>6, IdleTypes DEF TypeOK
  <2>8. ~InFlight(r)'
    BY <2>1, <2>4 DEF InFlight
  <2>. QED
    BY <2>1, <2>3, <2>4, <2>7, <2>8, FrameKeepsPermitInv
<1>8. ASSUME NEW reply \in Replies, CallFails(r, reply) PROVE PermitInv'
  <2>1. /\ pc[r] = "calling" /\ task[r] = "none" /\ DropPermit(r)
        /\ UNCHANGED <<streamed, cands, streamVars, meterVars, task>>
    BY <1>2, <1>8 DEF CallFails, streamVars
  <2>2. permit[r] # None
    BY <1>2, <2>1 DEF InFlight
  <2>3. /\ PermitTypeOK' /\ PermitConservation'
        /\ permit'[r] = None
        /\ \A s \in Requests \ {r} : permit'[s] = permit[s]
    BY <1>3, <2>1, <2>2
  <2>4. /\ log' \in [Requests -> Seq(Outcome)]
        /\ pc' \in [Requests -> HandlerState]
        /\ answer' \in [Requests -> Statuses]
        /\ \A s \in Requests \ {r} : pc'[s] = pc[s] /\ log'[s] = log[s]
        /\ pc'[r] \in {"acquire", "done"}
        /\ pc'[r] = "acquire" => Len(log'[r]) < Len(cands[r])
    <3>1. CASE NextCandidate(r, reply)
      BY <1>0, <1>2, <2>1, <3>1, OutcomeTypes, NextCandidateMoves
    <3>2. CASE /\ Respond(r, 402) \/ Respond(r, 502)
               /\ log' = [log EXCEPT ![r] = Append(log[r], reply)]
      <4>1. Append(log[r], reply) \in Seq(Outcome)
        BY <1>1, OutcomeTypes
      <4>2. /\ log' \in [Requests -> Seq(Outcome)]
            /\ \A s \in Requests \ {r} : log'[s] = log[s]
        BY <1>1, <3>2, <4>1
      <4>3. /\ pc' \in [Requests -> HandlerState] /\ answer' \in [Requests -> Statuses]
            /\ \A s \in Requests \ {r} : pc'[s] = pc[s]
            /\ pc'[r] = "done"
        BY <1>0, <3>2, RespondTypes
      <4>. QED
        BY <4>2, <4>3
    <3>. QED
      BY <1>8, <3>1, <3>2 DEF CallFails
  <2>5. LoopTypeOK'
    BY <1>1, <2>1, <2>4 DEF LoopTypeOK
  <2>6. TypeOK'
    BY <1>0, <2>1, <2>3, <2>5, IdleTypes DEF TypeOK
  <2>7. ~InFlight(r)'
    BY <2>1, <2>4 DEF InFlight
  <2>. QED
    BY <2>1, <2>3, <2>4, <2>6, <2>7, FrameKeepsPermitInv
<1>9. ASSUME HandlerDropped(r) PROVE PermitInv'
  <2>1. /\ pc[r] \in {"acquire", "calling"} /\ task[r] = "none"
        /\ UNCHANGED <<streamed, cands, log, answer, streamVars, meterVars, task>>
    BY <1>2, <1>9 DEF HandlerDropped, streamVars
  <2>2. /\ pc' \in [Requests -> HandlerState]
        /\ \A s \in Requests \ {r} : pc'[s] = pc[s]
        /\ pc'[r] = "gone"
    BY <1>1, <1>9 DEF HandlerDropped
  <2>3. /\ PermitTypeOK' /\ PermitConservation'
        /\ permit'[r] = None
        /\ \A s \in Requests \ {r} : permit'[s] = permit[s]
    <3>1. CASE pc[r] = "calling"
      <4>1. DropPermit(r) /\ permit[r] # None
        BY <1>2, <1>9, <3>1 DEF HandlerDropped, InFlight
      <4>. QED
        BY <1>3, <4>1
    <3>2. CASE pc[r] = "acquire"
      <4>1. UNCHANGED <<permit, avail>> /\ permit[r] = None
        BY <1>2, <1>9, <2>1, <3>2 DEF HandlerDropped, InFlight
      <4>. QED
        BY <1>0, <4>1, IdleTypes, IdleConserves
    <3>. QED
      BY <2>1, <3>1, <3>2
  <2>4. LoopTypeOK'
    BY <1>1, <2>1, <2>2 DEF LoopTypeOK
  <2>5. TypeOK'
    BY <1>0, <2>1, <2>3, <2>4, IdleTypes DEF TypeOK
  <2>6. ~InFlight(r)'
    BY <2>1, <2>2 DEF InFlight
  <2>. QED
    BY <2>1, <2>2, <2>3, <2>5, <2>6, FrameKeepsPermitInv
<1>. QED
  BY <1>4, <1>5, <1>6, <1>7, <1>8, <1>9 DEF AnyHandler

\* Every step of the streaming task and of its body keeps the invariant.
LEMMA StreamKeepsPermitInv ==
  ASSUME PermitInv, NEW r \in Requests, Stream(r)
  PROVE  PermitInv'
<1>0. /\ LoopTypeOK /\ PermitTypeOK /\ StreamTypeOK /\ MeterTypeOK
      /\ InChain /\ IdleLog /\ TaskOfStream /\ PermitOnlyInFlight /\ PermitConservation
  BY DEF PermitInv, TypeOK
<1>1. /\ task \in [Requests -> TaskState]
      /\ TaskState = {"none", "open", "reading", "tail", "ended"}
      /\ (task[r] # "none") <=> (pc[r] = "streaming")
      /\ (permit[r] # None) <=> InFlight(r)
  BY <1>0 DEF StreamTypeOK, TaskState, TaskOfStream, PermitOnlyInFlight
<1>2. ASSUME OpenFails(r) \/ Opens(r) \/ StreamEnds(r) \/ StreamFails(r) PROVE PermitInv'
  <2>1. /\ UNCHANGED <<handlerVars, permit, avail, pc, cands, log>>
        /\ task' \in [Requests -> TaskState]
        /\ \A s \in Requests \ {r} : task'[s] = task[s]
        /\ task[r] \in {"open", "reading"} /\ task'[r] \in {"reading", "tail"}
    BY <1>1, <1>2 DEF OpenFails, Opens, StreamEnds, StreamFails, handlerVars
  <2>2. StreamTypeOK'
    BY <1>0, <1>2, <2>1 DEF StreamTypeOK, OpenFails, Opens, StreamEnds, StreamFails
  <2>3. MeterTypeOK'
    BY <1>0, <1>2 DEF MeterTypeOK, meterVars, OpenFails, Opens, StreamEnds, StreamFails
  <2>4. TypeOK' /\ PermitConservation'
    BY <1>0, <2>1, <2>2, <2>3, IdleTypes, IdleConserves DEF TypeOK
  <2>5. pc[r] = "streaming" /\ InFlight(r) /\ InFlight(r)'
    BY <1>1, <2>1 DEF InFlight
  <2>. QED
    BY <1>1, <2>1, <2>4, <2>5, FrameKeepsPermitInv
<1>3. ASSUME UsageChunk(r) \/ PollBody(r) \/ BodyEnds(r) \/ BodyDropped(r) PROVE PermitInv'
  <2>1. UNCHANGED <<handlerVars, permit, avail, task, pc, cands, log>>
    BY <1>3 DEF UsageChunk, PollBody, BodyEnds, BodyDropped, streamVars, handlerVars
  <2>2. StreamTypeOK'
    BY <1>0, <1>3 DEF StreamTypeOK, streamVars, UsageChunk, PollBody, BodyEnds, BodyDropped
  <2>3. MeterTypeOK'
    BY <1>0, <1>3 DEF MeterTypeOK, meterVars, UsageChunk, PollBody, BodyEnds, BodyDropped
  <2>4. TypeOK' /\ PermitConservation'
    BY <1>0, <2>1, <2>2, <2>3, IdleTypes, IdleConserves DEF TypeOK
  <2>5. InChain' /\ IdleLog' /\ TaskOfStream' /\ PermitOnlyInFlight'
    BY <1>0, <2>1 DEF InChain, IdleLog, TaskOfStream, PermitOnlyInFlight, InFlight
  <2>. QED
    BY <2>4, <2>5 DEF PermitInv
<1>4. ASSUME TaskEnds(r) PROVE PermitInv'
  <2>1. /\ UNCHANGED <<handlerVars, body, cancel, tail, meterVars, pc, cands, log>>
        /\ task' \in [Requests -> TaskState]
        /\ \A s \in Requests \ {r} : task'[s] = task[s]
        /\ task[r] = "tail" /\ task'[r] = "ended"
        /\ DropPermit(r)
    BY <1>1, <1>4 DEF TaskEnds, handlerVars
  <2>2. pc[r] = "streaming" /\ permit[r] # None /\ ~InFlight(r)'
    BY <1>1, <2>1 DEF InFlight
  <2>3. /\ PermitTypeOK' /\ PermitConservation'
        /\ permit'[r] = None
        /\ \A s \in Requests \ {r} : permit'[s] = permit[s]
    BY <1>0, <2>1, <2>2, DropConserves DEF PermitTypeOK
  <2>4. TypeOK'
    BY <1>0, <2>1, <2>3, IdleTypes DEF TypeOK, StreamTypeOK
  <2>. QED
    BY <2>1, <2>2, <2>3, <2>4, FrameKeepsPermitInv
<1>. QED
  BY <1>2, <1>3, <1>4 DEF Stream

\* A step of nothing keeps the permits.
LEMMA StutterKeepsPermitInv ==
  ASSUME PermitInv, UNCHANGED vars
  PROVE  PermitInv'
<1>1. UNCHANGED <<handlerVars, permit, avail, streamVars, meterVars, pc, cands, log, task>>
  BY DEF vars, handlerVars, streamVars
<1>2. TypeOK' /\ PermitConservation'
  BY <1>1, IdleTypes, IdleConserves DEF PermitInv, TypeOK
<1>. QED
  BY <1>1, <1>2 DEF PermitInv, InChain, IdleLog, TaskOfStream, PermitOnlyInFlight, InFlight

\* Type correctness and the permit invariants hold in every reachable state.
THEOREM PermitInvariant == Gateway => []PermitInv
<1>1. PermitInv /\ [AnyNext]_vars => PermitInv'
  BY HandlerKeepsPermitInv, StreamKeepsPermitInv, StutterKeepsPermitInv DEF AnyNext
<1>. QED
  BY PermitInvInit, <1>1, PTL DEF Gateway

\* The states of the gateway keep their types, in both editions.
THEOREM TypeCorrect == Spec \/ TSpec => []TypeOK
BY PermitInvariant, Editions, PTL DEF PermitInv

\* No permit is leaked or doubled, in either edition: for any number of requests,
\* what the semaphore of a provider has left and what requests hold add up to its
\* limit.
THEOREM PermitsConserved == Spec \/ TSpec => []PermitConservation
BY PermitInvariant, Editions, PTL DEF PermitInv

\* A permit is held exactly while an upstream call is in flight for it.
THEOREM PermitsOnlyInFlight == Spec \/ TSpec => []PermitOnlyInFlight
BY PermitInvariant, Editions, PTL DEF PermitInv

-----------------------------------------------------------------------------
(* Answers and accounts: per request, what its history says of them. *)

Last(r) == log[r][Len(log[r])]

\* A request without an answer has left every candidate tried for a reason to
\* go on, and has one left; so has one that was served.
AnswerInv(r) ==
  /\ pc[r] \in {"idle", "acquire", "calling", "gone"} <=> answer[r] = 0
  /\ pc[r] = "streaming" => answer[r] = 200
  /\ pc[r] # "idle" => (cands[r] = <<>> <=> answer[r] = 400)
  /\ \A i \in 1..Len(log[r]) - 1 : MovedOn(log[r][i])
  /\ answer[r] \in {0, 200} =>
       /\ \A i \in 1..Len(log[r]) : MovedOn(log[r][i])
       /\ pc[r] # "idle" => Len(log[r]) < Len(cands[r])
  /\ answer[r] = 402 =>
       Len(log[r]) > 0 /\ Last(r) # Unavailable /\ IsQuotaExhausted(LlmError(Last(r)))
  /\ answer[r] = 502 => Len(log[r]) > 0 /\ (MovedOn(Last(r)) => Len(log[r]) = Len(cands[r]))

\* Usage is known only of a call that is read or over, a tail frame only at the
\* end, and what was recorded follows from both.
MeterInv(r) ==
  /\ usage[r] = TRUE => pc[r] = "done" \/ task[r] \in {"reading", "tail", "ended"}
  /\ tail[r] # "none" => task[r] \in {"tail", "ended"}
  /\ recorded[r] = IF usage[r] = TRUE /\ (tail[r] = "done" \/ pc[r] = "done") THEN 1 ELSE 0

GatewayInv == PermitInv /\ \A r \in Requests : AnswerInv(r) /\ MeterInv(r)

\* The variables these are about, as functions of the request.
LEMMA PerRequest ==
  ASSUME TypeOK
  PROVE  /\ pc \in [Requests -> HandlerState] /\ answer \in [Requests -> Statuses]
         /\ cands \in [Requests -> Seq(Candidate)] /\ log \in [Requests -> Seq(Outcome)]
         /\ task \in [Requests -> TaskState] /\ tail \in [Requests -> {"none", "done", "error"}]
         /\ usage \in [Requests -> BOOLEAN] /\ recorded \in [Requests -> Nat]
BY DEF TypeOK, LoopTypeOK, StreamTypeOK, MeterTypeOK

\* What the invariants of one request are about.
Record(r) == <<pc[r], answer[r], cands[r], log[r], task[r], tail[r], usage[r], recorded[r]>>

\* A step of one request does not touch another.
LEMMA OthersKept ==
  ASSUME TypeOK, NEW r \in Requests, AnyHandler(r) \/ Stream(r), NEW s \in Requests \ {r}
  PROVE  Record(s)' = Record(s)
<1>. USE PerRequest
<1>0. ASSUME NEW status, Respond(r, status)
      PROVE  pc'[s] = pc[s] /\ answer'[s] = answer[s]
  BY <1>0 DEF Respond
<1>1. ASSUME NEW outcome, NextCandidate(r, outcome)
      PROVE  pc'[s] = pc[s] /\ answer'[s] = answer[s] /\ log'[s] = log[s]
  BY <1>0, <1>1 DEF NextCandidate
<1>2. ASSUME NEW list, NEW stream, Arrives(r, list, stream) PROVE Record(s)' = Record(s)
  BY <1>0, <1>2 DEF Arrives, Record, streamVars, meterVars
<1>3. CASE Granted(r)
  BY <1>3 DEF Granted, Record, meterVars
<1>4. CASE Saturated(r)
  BY <1>1, <1>4 DEF Saturated, Record, streamVars, meterVars
<1>5. ASSUME NEW reported, CallSucceeds(r, reported) PROVE Record(s)' = Record(s)
  BY <1>0, <1>5 DEF CallSucceeds, Record, streamVars
<1>6. ASSUME NEW reply, CallFails(r, reply) PROVE Record(s)' = Record(s)
  <2>1. pc'[s] = pc[s] /\ answer'[s] = answer[s] /\ log'[s] = log[s]
    BY <1>0, <1>1, <1>6 DEF CallFails
  <2>. QED
    BY <1>6, <2>1 DEF CallFails, Record, streamVars, meterVars
<1>7. CASE HandlerDropped(r)
  BY <1>7 DEF HandlerDropped, Record, streamVars, meterVars
<1>8. CASE Stream(r)
  BY <1>8 DEF Stream, OpenFails, Opens, UsageChunk, StreamEnds, StreamFails, TaskEnds, PollBody,
              BodyEnds, BodyDropped, Record, handlerVars, streamVars, meterVars
<1>. QED
  BY <1>2, <1>3, <1>4, <1>5, <1>6, <1>7, <1>8 DEF AnyHandler

\* A request whose record did not change keeps its invariants.
LEMMA RecordKept ==
  ASSUME NEW s, Record(s)' = Record(s), AnswerInv(s), MeterInv(s)
  PROVE  AnswerInv(s)' /\ MeterInv(s)'
BY DEF Record, AnswerInv, MeterInv, Last

\* What a log says after one more outcome.
LEMMA LogGrows ==
  ASSUME TypeOK, NEW r \in Requests, NEW outcome \in Outcome,
         log' = [log EXCEPT ![r] = Append(@, outcome)]
  PROVE  /\ Len(log[r]) \in Nat /\ Len(log'[r]) = Len(log[r]) + 1
         /\ \A i \in 1..Len(log[r]) : log'[r][i] = log[r][i]
         /\ log'[r][Len(log[r]) + 1] = outcome
<1>1. log[r] \in Seq(Outcome) /\ log'[r] = Append(log[r], outcome)
  BY PerRequest
<1>. QED
  BY <1>1

\* Going on to the next candidate, or running out of them, is explained.
LEMMA NextExplained ==
  ASSUME GatewayInv, NEW r \in Requests, NEW outcome \in Outcome, NextCandidate(r, outcome),
         pc[r] \in {"acquire", "calling"}, MovedOn(outcome), UNCHANGED cands
  PROVE  AnswerInv(r)' /\ pc'[r] \in {"acquire", "done"}
<1>. DEFINE n == Len(log[r])
<1>1. TypeOK /\ answer[r] = 0 /\ n < Len(cands[r]) /\ cands[r] # <<>>
      /\ \A i \in 1..n : MovedOn(log[r][i])
  BY DEF GatewayInv, PermitInv, AnswerInv
<1>2. /\ n \in Nat /\ Len(log'[r]) = n + 1
      /\ \A i \in 1..n : log'[r][i] = log[r][i]
      /\ log'[r][n + 1] = outcome
  BY <1>1, LogGrows DEF NextCandidate
<1>3. \A i \in 1..(n + 1) : MovedOn(log'[r][i])
  BY <1>1, <1>2
<1>4. Len(cands[r]) \in Nat
  BY <1>1, PerRequest
<1>5. CASE Idx(r) < Len(cands[r])
  <2>1. pc'[r] = "acquire" /\ answer'[r] = 0
    BY <1>1, <1>5, PerRequest DEF NextCandidate
  <2>. QED
    BY <1>1, <1>2, <1>3, <1>5, <2>1 DEF AnswerInv, Idx
<1>6. CASE ~(Idx(r) < Len(cands[r]))
  <2>1. pc'[r] = "done" /\ answer'[r] = 502
    BY <1>1, <1>6, PerRequest DEF NextCandidate, Respond
  <2>2. n + 1 = Len(cands[r])
    BY <1>1, <1>2, <1>4, <1>6 DEF Idx
  <2>. QED
    BY <1>1, <1>2, <1>3, <2>1, <2>2 DEF AnswerInv
<1>. QED
  BY <1>5, <1>6

\* A request that a candidate's failure ends is explained by that failure.
LEMMA FailureExplained ==
  ASSUME GatewayInv, NEW r \in Requests, NEW reply \in Replies, pc[r] = "calling",
         NEW status, Respond(r, status),
         log' = [log EXCEPT ![r] = Append(@, reply)], UNCHANGED cands,
         \/ status = 402 /\ IsQuotaExhausted(LlmError(reply))
         \/ status = 502 /\ ~MovedOn(reply)
  PROVE  AnswerInv(r)' /\ pc'[r] = "done"
<1>. DEFINE n == Len(log[r])
<1>1. TypeOK /\ answer[r] = 0 /\ cands[r] # <<>> /\ \A i \in 1..n : MovedOn(log[r][i])
  BY DEF GatewayInv, PermitInv, AnswerInv
<1>2. /\ n \in Nat /\ Len(log'[r]) = n + 1
      /\ \A i \in 1..n : log'[r][i] = log[r][i]
      /\ log'[r][n + 1] = reply
  <2>1. reply \in Outcome
    BY OutcomeTypes
  <2>2. /\ Len(log[r]) \in Nat /\ Len(log'[r]) = Len(log[r]) + 1
        /\ \A i \in 1..Len(log[r]) : log'[r][i] = log[r][i]
        /\ log'[r][Len(log[r]) + 1] = reply
    <3>1. log[r] \in Seq(Outcome) /\ log'[r] = Append(log[r], reply)
      BY <1>1, PerRequest
    <3>. QED
      BY <2>1, <3>1
  <2>. QED
    BY <2>2
<1>3. pc'[r] = "done" /\ answer'[r] = status
  BY <1>1, PerRequest DEF Respond
<1>4. reply # Unavailable
  BY GatewayAssumption DEF ErrorReply, Unavailable
<1>5. Last(r)' = reply
  BY <1>2 DEF Last
<1>6. \A i \in 1..Len(log'[r]) - 1 : MovedOn(log'[r][i])
  BY <1>1, <1>2
<1>. QED
  BY <1>1, <1>2, <1>3, <1>4, <1>5, <1>6 DEF AnswerInv

\* So is a request that its candidate serves.
LEMMA ServedExplained ==
  ASSUME NEW r \in Requests, AnswerInv(r), pc[r] \in {"acquire", "calling"}, answer[r] = 0,
         UNCHANGED <<cands, log>>,
         \/ pc'[r] \in {"streaming", "done"} /\ answer'[r] = 200
         \/ pc'[r] = "calling" /\ answer'[r] = 0
  PROVE  AnswerInv(r)'
<1>1. /\ cands[r] # <<>> /\ Len(log[r]) < Len(cands[r])
      /\ \A i \in 1..Len(log[r]) - 1 : MovedOn(log[r][i])
      /\ \A i \in 1..Len(log[r]) : MovedOn(log[r][i])
  BY DEF AnswerInv
<1>2. /\ cands'[r] # <<>> /\ Len(log'[r]) < Len(cands'[r])
      /\ \A i \in 1..Len(log'[r]) - 1 : MovedOn(log'[r][i])
      /\ \A i \in 1..Len(log'[r]) : MovedOn(log'[r][i])
  BY <1>1
<1>3. CASE answer'[r] = 200
  BY <1>2, <1>3 DEF AnswerInv
<1>4. CASE answer'[r] = 0
  BY <1>2, <1>4 DEF AnswerInv
<1>. QED
  BY <1>3, <1>4

\* Every step of a handler keeps its answer explained.
LEMMA HandlerExplained ==
  ASSUME GatewayInv, NEW r \in Requests, AnyHandler(r)
  PROVE  AnswerInv(r)'
<1>0. /\ TypeOK /\ AnswerInv(r) /\ IdleLog /\ InChain
      /\ pc \in [Requests -> HandlerState] /\ answer \in [Requests -> Statuses]
      /\ cands \in [Requests -> Seq(Candidate)] /\ log \in [Requests -> Seq(Outcome)]
  BY PerRequest DEF GatewayInv, PermitInv
<1>1. ASSUME NEW list \in Seq(Candidate), NEW stream \in BOOLEAN, Arrives(r, list, stream)
      PROVE  AnswerInv(r)'
  <2>1. log'[r] = <<>> /\ cands'[r] = list /\ answer[r] = 0
    BY <1>0, <1>1 DEF Arrives, IdleLog, AnswerInv
  <2>2. IF list = <<>> THEN pc'[r] = "done" /\ answer'[r] = 400
                       ELSE pc'[r] = "acquire" /\ answer'[r] = 0
    BY <1>0, <1>1, <2>1 DEF Arrives, Respond
  <2>3. Len(log'[r]) = 0 /\ (list # <<>> => 0 < Len(list))
    BY <2>1
  <2>. QED
    BY <2>1, <2>2, <2>3 DEF AnswerInv
<1>2. CASE Granted(r)
  <2>1. UNCHANGED <<cands, log>> /\ pc[r] = "acquire"
    BY <1>2 DEF Granted
  <2>2. \/ pc'[r] = "streaming" /\ answer'[r] = 200
        \/ pc'[r] = "calling" /\ answer'[r] = answer[r]
    BY <1>0, <1>2 DEF Granted
  <2>3. answer[r] = 0
    BY <1>0, <2>1 DEF AnswerInv
  <2>. QED
    BY <1>0, <2>1, <2>2, <2>3, ServedExplained
<1>3. CASE Saturated(r)
  <2>1. MovedOn(Unavailable)
    BY DEF MovedOn
  <2>. QED
    BY <1>3, <2>1, OutcomeTypes, NextExplained DEF Saturated
<1>4. ASSUME NEW reported \in BOOLEAN, CallSucceeds(r, reported) PROVE AnswerInv(r)'
  <2>1. UNCHANGED <<cands, log>> /\ pc[r] = "calling" /\ pc'[r] = "done" /\ answer'[r] = 200
    BY <1>0, <1>4 DEF CallSucceeds, Respond
  <2>2. answer[r] = 0
    BY <1>0, <2>1 DEF AnswerInv
  <2>. QED
    BY <1>0, <2>1, <2>2, ServedExplained
<1>5. ASSUME NEW reply \in Replies, CallFails(r, reply) PROVE AnswerInv(r)'
  <2>1. pc[r] = "calling" /\ UNCHANGED cands
    BY <1>5 DEF CallFails
  <2>2. reply # Unavailable
    BY GatewayAssumption DEF ErrorReply, Unavailable
  <2>3. CASE /\ IsQuotaExhausted(LlmError(reply)) /\ Respond(r, 402)
             /\ log' = [log EXCEPT ![r] = Append(@, reply)]
    BY <2>1, <2>3, FailureExplained
  <2>4. CASE /\ ~IsQuotaExhausted(LlmError(reply)) /\ IsRetryable(LlmError(reply))
             /\ NextCandidate(r, reply)
    <3>1. MovedOn(reply)
      BY <2>4 DEF MovedOn
    <3>. QED
      BY <2>1, <2>4, <3>1, OutcomeTypes, NextExplained
  <2>5. CASE /\ ~IsRetryable(LlmError(reply)) /\ Respond(r, 502)
             /\ log' = [log EXCEPT ![r] = Append(@, reply)]
    <3>1. ~MovedOn(reply)
      BY <2>2, <2>5 DEF MovedOn
    <3>. QED
      BY <2>1, <2>5, <3>1, FailureExplained
  <2>. QED
    BY <1>5, <2>3, <2>4, <2>5 DEF CallFails
<1>6. CASE HandlerDropped(r)
  <2>1. /\ UNCHANGED <<cands, log, answer>> /\ pc[r] \in {"acquire", "calling"}
        /\ pc'[r] = "gone"
    BY <1>0, <1>6 DEF HandlerDropped
  <2>. QED
    BY <1>0, <2>1 DEF AnswerInv, Last
<1>. QED
  BY <1>1, <1>2, <1>3, <1>4, <1>5, <1>6 DEF AnyHandler

\* Every step of a handler keeps its account.
LEMMA HandlerAccounted ==
  ASSUME GatewayInv, NEW r \in Requests, AnyHandler(r)
  PROVE  MeterInv(r)'
<1>0. /\ TypeOK /\ MeterInv(r)
      /\ pc \in [Requests -> HandlerState] /\ task \in [Requests -> TaskState]
      /\ usage \in [Requests -> BOOLEAN] /\ recorded \in [Requests -> Nat]
      /\ task[r] # "none" <=> pc[r] = "streaming"
  BY PerRequest DEF GatewayInv, PermitInv, TaskOfStream
<1>1. ASSUME pc[r] \in {"idle", "acquire", "calling"}
      PROVE  usage[r] = FALSE /\ tail[r] = "none" /\ recorded[r] = 0
  BY <1>0, <1>1 DEF MeterInv
<1>2. ASSUME NEW reported \in BOOLEAN, CallSucceeds(r, reported) PROVE MeterInv(r)'
  <2>1. /\ pc[r] = "calling" /\ UNCHANGED <<task, tail>> /\ pc'[r] = "done"
        /\ usage'[r] = reported /\ recorded'[r] = IF reported = TRUE THEN recorded[r] + 1 ELSE recorded[r]
    BY <1>0, <1>2 DEF CallSucceeds, Respond, streamVars
  <2>. QED
    BY <1>1, <2>1 DEF MeterInv
<1>3. ASSUME \/ \E list \in Seq(Candidate), stream \in BOOLEAN : Arrives(r, list, stream)
             \/ Granted(r) \/ Saturated(r) \/ HandlerDropped(r)
             \/ \E reply \in Replies : CallFails(r, reply)
      PROVE  MeterInv(r)'
  <2>1. pc[r] \in {"idle", "acquire", "calling"} /\ UNCHANGED <<usage, recorded, tail>>
    BY <1>3 DEF Arrives, Granted, Saturated, HandlerDropped, CallFails, streamVars, meterVars
  <2>. QED
    BY <1>1, <2>1 DEF MeterInv
<1>. QED
  BY <1>2, <1>3 DEF AnyHandler

\* The streaming task and the body change no answer and keep the account.
LEMMA StreamAccounted ==
  ASSUME GatewayInv, NEW r \in Requests, Stream(r)
  PROVE  AnswerInv(r)' /\ MeterInv(r)'
<1>0. /\ task \in [Requests -> TaskState] /\ tail \in [Requests -> {"none", "done", "error"}]
      /\ usage \in [Requests -> BOOLEAN] /\ recorded \in [Requests -> Nat]
  BY PerRequest DEF GatewayInv, PermitInv
<1>1. UNCHANGED <<pc, answer, cands, log>>
  BY DEF Stream, OpenFails, Opens, UsageChunk, StreamEnds, StreamFails, TaskEnds, PollBody,
         BodyEnds, BodyDropped, handlerVars
<1>2. AnswerInv(r)'
  BY <1>1 DEF GatewayInv, AnswerInv, Last
<1>3. MeterInv(r) /\ (task[r] # "none" => pc[r] = "streaming") /\ pc'[r] = pc[r]
  BY <1>1 DEF GatewayInv, PermitInv, TaskOfStream
<1>4. CASE OpenFails(r) \/ Opens(r)
  <2>1. /\ task[r] = "open" /\ usage'[r] = usage[r] /\ recorded'[r] = recorded[r]
        /\ \/ task'[r] = "tail" /\ tail'[r] = "error"
           \/ task'[r] = "reading" /\ tail'[r] = tail[r]
    BY <1>0, <1>4 DEF OpenFails, Opens, meterVars
  <2>. QED
    BY <1>2, <1>3, <2>1 DEF MeterInv
<1>5. CASE UsageChunk(r)
  <2>1. /\ task[r] = "reading" /\ task'[r] = task[r] /\ tail'[r] = tail[r]
        /\ recorded'[r] = recorded[r] /\ usage'[r] = TRUE
    BY <1>0, <1>5 DEF UsageChunk, streamVars
  <2>. QED
    BY <1>2, <1>3, <2>1 DEF MeterInv
<1>6. CASE StreamEnds(r)
  <2>1. /\ task[r] = "reading" /\ task'[r] = "tail" /\ tail'[r] = "done" /\ usage'[r] = usage[r]
        /\ recorded'[r] = IF usage[r] THEN recorded[r] + 1 ELSE recorded[r]
    BY <1>0, <1>6 DEF StreamEnds
  <2>2. recorded[r] = 0
    BY <1>3, <2>1 DEF MeterInv
  <2>3. recorded'[r] = IF usage[r] = TRUE THEN 1 ELSE 0
    BY <1>0, <2>1, <2>2
  <2>. QED
    BY <1>2, <1>3, <2>1, <2>3 DEF MeterInv
<1>7. CASE StreamFails(r)
  <2>1. /\ task[r] = "reading" /\ task'[r] = "tail" /\ tail'[r] = "error"
        /\ usage'[r] = usage[r] /\ recorded'[r] = recorded[r]
    BY <1>0, <1>7 DEF StreamFails, meterVars
  <2>. QED
    BY <1>2, <1>3, <2>1 DEF MeterInv
<1>8. CASE TaskEnds(r)
  <2>1. /\ task[r] = "tail" /\ task'[r] = "ended" /\ tail'[r] = tail[r]
        /\ usage'[r] = usage[r] /\ recorded'[r] = recorded[r]
    BY <1>0, <1>8 DEF TaskEnds, meterVars
  <2>. QED
    BY <1>2, <1>3, <2>1 DEF MeterInv
<1>9. CASE PollBody(r) \/ BodyEnds(r) \/ BodyDropped(r)
  <2>1. /\ task'[r] = task[r] /\ tail'[r] = tail[r]
        /\ usage'[r] = usage[r] /\ recorded'[r] = recorded[r]
    BY <1>9 DEF PollBody, BodyEnds, BodyDropped, meterVars
  <2>. QED
    BY <1>2, <1>3, <2>1 DEF MeterInv
<1>. QED
  BY <1>2, <1>4, <1>5, <1>6, <1>7, <1>8, <1>9 DEF Stream

\* Before any request nothing is answered nor accounted.
LEMMA GatewayInvInit == Init => GatewayInv
<1>. SUFFICES ASSUME Init, NEW r \in Requests PROVE AnswerInv(r) /\ MeterInv(r)
  BY PermitInvInit DEF GatewayInv
<1>1. /\ pc[r] = "idle" /\ answer[r] = 0 /\ log[r] = <<>> /\ Len(log[r]) = 0
      /\ task[r] = "none" /\ tail[r] = "none" /\ usage[r] = FALSE /\ recorded[r] = 0
  BY DEF Init
<1>. QED
  BY <1>1 DEF AnswerInv, MeterInv

\* Answers and accounts are explained in every reachable state.
THEOREM GatewayInvariant == Gateway => []GatewayInv
<1>1. GatewayInv /\ [AnyNext]_vars => GatewayInv'
  <2>. SUFFICES ASSUME GatewayInv, [AnyNext]_vars PROVE GatewayInv'
    OBVIOUS
  <2>1. ASSUME NEW r \in Requests, AnyHandler(r) \/ Stream(r) PROVE GatewayInv'
    <3>1. PermitInv'
      BY <2>1, HandlerKeepsPermitInv, StreamKeepsPermitInv DEF GatewayInv
    <3>2. AnswerInv(r)' /\ MeterInv(r)'
      BY <2>1, HandlerExplained, HandlerAccounted, StreamAccounted
    <3>3. ASSUME NEW s \in Requests \ {r} PROVE AnswerInv(s)' /\ MeterInv(s)'
      BY <2>1, OthersKept, RecordKept DEF GatewayInv, PermitInv
    <3>. QED
      BY <3>1, <3>2, <3>3 DEF GatewayInv
  <2>2. CASE UNCHANGED vars
    <3>1. PermitInv'
      BY <2>2, StutterKeepsPermitInv DEF GatewayInv
    <3>2. \A r \in Requests : Record(r)' = Record(r)
      BY <2>2 DEF vars, handlerVars, streamVars, meterVars, Record
    <3>. QED
      BY <3>1, <3>2, RecordKept DEF GatewayInv
  <2>. QED
    BY <2>1, <2>2 DEF AnyNext
<1>. QED
  BY GatewayInvInit, <1>1, PTL DEF Gateway

\* Every answer is explained by what the candidates did, in both editions.
THEOREM AnswersExplained == Spec \/ TSpec => []AnswerExplained
<1>1. GatewayInv => AnswerExplained
  <2>. SUFFICES ASSUME GatewayInv, NEW r \in Requests
                PROVE  LET n == Len(log[r]) IN
    /\ \A i \in 1..n - 1 : MovedOn(log[r][i])
    /\ answer[r] \in {0, 200} => n < Len(cands[r]) \/ pc[r] = "idle"
    /\ answer[r] \in {0, 200} => \A i \in 1..n : MovedOn(log[r][i])
    /\ answer[r] = 402 => n > 0 /\ log[r][n] # Unavailable /\ IsQuotaExhausted(LlmError(log[r][n]))
    /\ answer[r] = 502 => n > 0 /\ (MovedOn(log[r][n]) => n = Len(cands[r]))
    /\ (answer[r] = 400) <=> (pc[r] = "done" /\ cands[r] = <<>>)
    BY DEF AnswerExplained
  <2>1. AnswerInv(r) /\ pc[r] \in HandlerState /\ answer[r] \in Statuses
    BY PerRequest DEF GatewayInv, PermitInv
  <2>2. (answer[r] = 400) <=> (pc[r] = "done" /\ cands[r] = <<>>)
    BY <2>1 DEF AnswerInv, HandlerState, Statuses
  <2>. QED
    BY <2>1, <2>2 DEF AnswerInv, Last
<1>. QED
  BY <1>1, GatewayInvariant, Editions, PTL

\* Token usage reaches the tracker exactly once per call that ended well, in
\* both editions, whatever the client does.
THEOREM UsageAccounted == Spec \/ TSpec => []AccountedOnce
<1>1. GatewayInv => AccountedOnce
  <2>. SUFFICES ASSUME GatewayInv, NEW r \in Requests
                PROVE  recorded[r] = IF usage[r] /\ (tail[r] = "done" \/ pc[r] = "done") THEN 1 ELSE 0
    BY DEF AccountedOnce
  <2>1. MeterInv(r) /\ usage[r] \in BOOLEAN
    BY PerRequest DEF GatewayInv, PermitInv
  <2>. QED
    BY <2>1 DEF MeterInv
<1>. QED
  BY <1>1, GatewayInvariant, Editions, PTL

-----------------------------------------------------------------------------
(* The gateway implements the permit pool. *)

\* A grant is an Acquire of the pool.
LEMMA TakeAcquires ==
  ASSUME PermitInv, NEW r \in Requests, NEW p \in Providers,
         permit[r] = None, TakePermit(r, p)
  PROVE  Pool!Acquire(r, p)
<1>0. PermitTypeOK /\ PermitConservation
  BY DEF PermitInv, TypeOK
<1>1. None \notin Providers /\ Limit[p] \in Nat
  BY GatewayAssumption
<1>2. \A q \in Providers : r \notin Holders(q)
  BY <1>1 DEF Holders
<1>3. Cardinality(Holders(p)) < Limit[p]
  <2>1. avail[p] + Cardinality(Holders(p)) = Limit[p] /\ avail[p] \in Nat /\ avail[p] > 0
    BY <1>0 DEF PermitConservation, PermitTypeOK, TakePermit
  <2>. QED
    BY <1>1, <2>1, HoldersFinite
<1>4. ASSUME NEW q \in Providers
      PROVE  Holders(q)' = IF q = p THEN Holders(q) \cup {r} ELSE Holders(q)
  BY <1>0, <1>1 DEF Holders, TakePermit, PermitTypeOK
<1>5. Pool!Cardinality(Holders(p)) = Cardinality(Holders(p))
  BY DEF Pool!Cardinality, Cardinality
<1>. QED
  BY <1>2, <1>3, <1>4, <1>5 DEF Pool!Acquire

\* Dropping a permit is a Release of the pool.
LEMMA DropReleases ==
  ASSUME PermitInv, NEW r \in Requests, permit[r] # None, DropPermit(r)
  PROVE  permit[r] \in Providers /\ Pool!Release(r, permit[r])
<1>0. PermitTypeOK
  BY DEF PermitInv, TypeOK
<1>1. permit[r] \in Providers /\ None \notin Providers
  BY <1>0, GatewayAssumption DEF PermitTypeOK
<1>2. r \in Holders(permit[r])
  BY DEF Holders
<1>3. ASSUME NEW q \in Providers
      PROVE  Holders(q)' = IF q = permit[r] THEN Holders(q) \ {r} ELSE Holders(q)
  BY <1>0, <1>1 DEF Holders, DropPermit, PermitTypeOK
<1>. QED
  BY <1>1, <1>2, <1>3 DEF Pool!Release

\* A step that leaves the permits alone is a stutter of the pool.
LEMMA IdleStutters ==
  ASSUME UNCHANGED permit
  PROVE  UNCHANGED [p \in Providers |-> Holders(p)]
BY DEF Holders

\* The idle daemon is the pool with every permit free.
LEMMA InitImplementsPool == Init => Pool!PoolInit
<1>. SUFFICES ASSUME Init PROVE Pool!PoolInit
  OBVIOUS
<1>1. \A p \in Providers : Holders(p) = {}
  BY GatewayAssumption DEF Init, Holders
<1>. QED
  BY <1>1 DEF Pool!PoolInit

\* Every step of the gateway is a step of the pool or leaves it alone.
LEMMA StepImplementsPool ==
  ASSUME PermitInv, [AnyNext]_vars
  PROVE  [Pool!PoolNext]_([p \in Providers |-> Holders(p)])
<1>1. CASE UNCHANGED vars
  BY <1>1, IdleStutters DEF vars
<1>2. ASSUME NEW r \in Requests, AnyHandler(r) \/ Stream(r)
      PROVE  [Pool!PoolNext]_([p \in Providers |-> Holders(p)])
  <2>1. ASSUME permit[r] # None, DropPermit(r)
        PROVE  Pool!PoolNext
    BY <2>1, DropReleases DEF Pool!PoolNext
  <2>2. ASSUME NEW p \in Providers, permit[r] = None, TakePermit(r, p)
        PROVE  Pool!PoolNext
    BY <2>2, TakeAcquires DEF Pool!PoolNext
  <2>3. /\ InFlight(r) <=> (permit[r] # None)
        /\ (task[r] # "none") <=> (pc[r] = "streaming")
    BY DEF PermitInv, PermitOnlyInFlight, TaskOfStream
  <2>4. ASSUME Granted(r) PROVE Pool!PoolNext
    <3>1. /\ pc[r] = "acquire" /\ Cand(r).provider \in Providers
          /\ TakePermit(r, Cand(r).provider)
      BY <2>4 DEF Granted
    <3>2. permit[r] = None
      BY <2>3, <3>1 DEF InFlight
    <3>. QED
      BY <2>2, <3>1, <3>2
  <2>5. ASSUME (\E reported \in BOOLEAN : CallSucceeds(r, reported))
                 \/ \E reply \in Replies : CallFails(r, reply)
        PROVE  Pool!PoolNext
    <3>1. pc[r] = "calling" /\ DropPermit(r)
      BY <2>5 DEF CallSucceeds, CallFails
    <3>. QED
      BY <2>1, <2>3, <3>1 DEF InFlight
  <2>6. ASSUME TaskEnds(r) PROVE Pool!PoolNext
    <3>1. task[r] = "tail" /\ DropPermit(r)
      BY <2>6 DEF TaskEnds
    <3>. QED
      BY <2>1, <2>3, <3>1 DEF InFlight
  <2>7. ASSUME HandlerDropped(r)
        PROVE  [Pool!PoolNext]_([p \in Providers |-> Holders(p)])
    <3>1. CASE pc[r] = "calling"
      BY <2>1, <2>3, <2>7, <3>1 DEF HandlerDropped, InFlight
    <3>2. CASE pc[r] # "calling"
      BY <2>7, <3>2, IdleStutters DEF HandlerDropped
    <3>. QED
      BY <3>1, <3>2
  <2>8. ASSUME \/ \E list \in Seq(Candidate), stream \in BOOLEAN : Arrives(r, list, stream)
               \/ Saturated(r) \/ OpenFails(r) \/ Opens(r) \/ UsageChunk(r)
               \/ StreamEnds(r) \/ StreamFails(r) \/ PollBody(r) \/ BodyEnds(r)
               \/ BodyDropped(r)
        PROVE  UNCHANGED permit
    BY <2>8 DEF Arrives, Saturated, OpenFails, Opens, UsageChunk, StreamEnds,
                StreamFails, PollBody, BodyEnds, BodyDropped
  <2>. QED
    BY <1>2, <2>4, <2>5, <2>6, <2>7, <2>8, IdleStutters DEF AnyHandler, Stream
<1>. QED
  BY <1>1, <1>2 DEF AnyNext

\* However requests interleave, fail, stream or disconnect, the gateway of either
\* edition is a permit pool: no provider ever serves more than its max_concurrency at once
\* and no request holds two permits.
THEOREM GatewayImplementsPool == Spec \/ TSpec => ImplementsPool
<1>1. Init => Pool!PoolInit
  BY InitImplementsPool
<1>2. PermitInv /\ [AnyNext]_vars => [Pool!PoolNext]_([p \in Providers |-> Holders(p)])
  BY StepImplementsPool
<1>3. Gateway => ImplementsPool
  BY <1>1, <1>2, PermitInvariant, PTL DEF Gateway, ImplementsPool, Pool!PoolSpec
<1>. QED
  BY <1>3, Editions, PTL

=============================================================================
