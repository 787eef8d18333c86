--------------------------- MODULE TranspiledAgent ---------------------------
(***************************************************************************)
(* The two editions of the agent.  An agent belongs to one: the            *)
(* hand-written reference (rust-ref, AgentLoop's actions) or the code       *)
(* transpiled from the Auto sources (rust/src/agent.rs, memory.rs and       *)
(* compaction.rs).  The transpiled loop takes the same steps, but for two   *)
(* things.  It counts repeated calls in an append-only log, which comes to  *)
(* the same.  And it has no repair: a run begins on the memory as it is,    *)
(* with the calls that a dropped, failed or looping run left open.          *)
(*                                                                         *)
(* It empties its queues a message at a time and lets the lock go between   *)
(* two; as nothing is awaited there, a message pushed meanwhile is as good  *)
(* as one pushed before, and the queue is emptied in one step here as well. *)
(* truncate_tool_result may panic inside a character: the run is gone as    *)
(* when its future is dropped.                                             *)
(***************************************************************************)
EXTENDS AgentLoop

VARIABLES
  edition,   \* "rust-ref" or "a2r"
  open       \* the calls in memory that an earlier run left open, a2r only

tvars == <<vars, edition, open>>

TInit ==
  /\ Init
  /\ edition \in {"rust-ref", "a2r"}
  /\ open = {}

-----------------------------------------------------------------------------
(* memory.rs and compaction.rs, whose loops are written out here; MemoryKept *)
(* says that they come to what Conversation says of the reference.           *)

\* remove_range: the oldest message, an assistant's with what answers it.
WithoutOldestUnit(msgs) ==
  LET rest   == Tail(msgs)
      assist == {i \in DOMAIN rest : rest[i].role # "user"}
  IN  IF Head(msgs).role = "user" THEN rest
      ELSE SubSeq(rest, IF assist = {} THEN Len(rest) + 1
                        ELSE CHOOSE i \in assist : \A j \in assist : i <= j, Len(rest))

\* insert_at: the synthetic user message.
Anchored(msgs) ==
  IF msgs # <<>> /\ Head(msgs).role = "assistant" THEN <<Human("anchor")>> \o msgs ELSE msgs

\* Memory::add_message and trim.
TAdd(msgs, m, max) ==
  LET trim[have \in Seq(Message)] ==
        IF Len(have) > max * 2 THEN trim[WithoutOldestUnit(have)] ELSE Anchored(have)
      all == Append(msgs, m)
  IN  IF max = NoLimit THEN all ELSE IF max = 0 THEN <<>> ELSE trim[all]

\* find_cut_point, from the tail that fits the budget: ahead to a human turn,
\* else back from there.
TFindCutPoint(msgs, tail) ==
  LET ahead[i \in 1..Len(msgs) + 1] ==
        IF i > Len(msgs) \/ IsTurnBoundary(msgs[i]) THEN i ELSE ahead[i + 1]
      back[i \in DOMAIN msgs] == IF i <= 2 \/ IsTurnBoundary(msgs[i]) THEN i ELSE back[i - 1]
      cut == IF ahead[tail] <= Len(msgs) THEN ahead[tail]
             ELSE back[IF tail > Len(msgs) THEN Len(msgs) ELSE tail]
  IN  IF cut <= 2 THEN 0 ELSE cut

\* compact: a new memory, the summary and then the tail added to it.
TCompact(msgs, tail, max) ==
  LET cut == TFindCutPoint(msgs, tail)
      new == <<Human("summary")>> \o SubSeq(msgs, cut, Len(msgs))
      have[i \in 0..Len(new)] == IF i = 0 THEN <<>> ELSE TAdd(have[i - 1], new[i], max)
  IN  IF cut = 0 THEN <<>> ELSE have[Len(new)]

-----------------------------------------------------------------------------
\* A step of the transpiled agent; what a trim or a compaction drops is no
\* longer open.
A2r(step) == edition = "a2r" /\ step /\ open' = open \cap Used' /\ UNCHANGED edition

\* A provider answers only a request that keeps its rules.
Answerable == OpenAiAccepts(OpenAiBody(memory)) \/ AnthropicAccepts(AnthropicBody(memory))

-----------------------------------------------------------------------------
\* run_inner: nothing comes before the threshold check.
TStartRun ==
  /\ edition = "a2r"
  /\ StartOn(memory)
  /\ open' = open \cup ToSet(Unanswered(memory))
  /\ UNCHANGED edition

\* run_inner: should_compact, try_compact, the task.
TPrepare == A2r(Prepare)

\* run_inner: the loop condition, checkpoint 1, the steering poll.
TBeginTurn == A2r(BeginTurn)

\* request_with_recovery: an Err of the client or an error in the response.
TRequestFails == \E overflow \in BOOLEAN : A2r(RequestFails(overflow))

\* request_with_recovery: try_compact for an overflow, the second request.
TRecover == A2r(Recover)

\* run_inner: checkpoints 2 and 3, the batch into the memory.
TWantsTools == Answerable /\ \E keys \in Batches : A2r(WantsTools(keys))

\* run_inner: checkpoint 2, the answer, the follow-ups.
TAnswers == Answerable /\ A2r(Answers)

\* run_inner: the end of the tool loop, and checkpoints 4 and 5.
TBatchDone == A2r(BatchDone)
TBatchCancelled == A2r(BatchCancelled)

\* run_inner: count_key_occurrences, the hint, the termination, the call.
TNextCall == A2r(NextCall)

\* run_inner: the tool's result.
TToolReturns == A2r(ToolReturns)

\* The host.
TSteer == A2r(Steer)
TFollowUp == A2r(FollowUp)
TCancel == A2r(Cancel)
TDropRun == A2r(DropRun)

-----------------------------------------------------------------------------
TRun ==
  \/ TPrepare \/ TBeginTurn \/ TRequestFails \/ TRecover \/ TWantsTools \/ TAnswers
  \/ TBatchDone \/ TBatchCancelled \/ TNextCall \/ TToolReturns

\* The hand-written edition.
Reference == edition = "rust-ref" /\ Next /\ UNCHANGED <<edition, open>>

TNext == Reference \/ TStartRun \/ TRun \/ TSteer \/ TFollowUp \/ TCancel \/ TDropRun

\* As in AgentLoop, in either edition.
TSpec == TInit /\ [][TNext]_tvars /\ WF_vars(Run)

-----------------------------------------------------------------------------

\* Whatever trimming, compaction, cancels and dropped runs came before, both kinds
\* of provider accept the request bodies the daemon makes of the memory: no call
\* without its result where they look for it, no result without its call, the
\* user first even before the pad.  The transpiled edition is held to it as long
\* as the memory has no call that an earlier run left open, and again once a trim
\* or a compaction has dropped that batch.
ProvidersAccept ==
  (pc = "request" /\ open = {}) =>
    /\ Head(memory).role = "user"
    /\ OpenAiAccepts(OpenAiBody(memory))
    /\ AnthropicAccepts(AnthropicBody(memory))

\* A run that ended by itself or by cancel leaves no call without a result, but
\* for those the transpiled edition found open when it began.
RestAnswered ==
  (pc = "idle" /\ outcome \in {"done", "cancelled", "max"}) =>
    ToSet(Unanswered(memory)) \subseteq open

\* A limited memory holds any batch or text answer, and behind it every run's task
\* and every pushed message.  No promise of the code, whose batches and queues have
\* no bound: without it a trim may take the task a request is about.
Roomy ==
  \A max \in Limits \ {NoLimit} :
    /\ 1 + MaxRuns + MaxPushes <= 2 * max
    /\ \A keys \in Batches : Len(keys) + MaxRuns + MaxPushes <= 2 * max

\* Messages that may come next: of the two with a call, one for the least id.
FirstCall == {c \in CallIds : \A d \in CallIds : c <= d}
Comers == {Human("steer"), Answer} \cup UNION {{ToolUses(<<c>>), ToolResult(c)} : c \in FirstCall}

\* A bounded memory holds at most one message more than twice its limit, and
\* both editions would keep the same of it whatever came next, and compact it to
\* the same.
MemoryKept ==
  /\ limit # NoLimit => Len(memory) <= 2 * limit + 1
  /\ \A m \in Comers : TAdd(memory, m, limit) = Add(memory, m, limit)
  /\ \A tail \in 2..Len(memory) + 1 : TCompact(memory, tail, limit) = Compact(memory, tail, limit)

=============================================================================
