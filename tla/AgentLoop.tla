------------------------------ MODULE AgentLoop ------------------------------
(***************************************************************************)
(* The ReAct loop of an agent (agent.rs run_inner): turns of one model     *)
(* request each, tool batches executed in order, the cycle guard, the      *)
(* cancellation checkpoints, overflow recovery by compaction, and the      *)
(* steering and follow-up queues that hosts push into while a run is in    *)
(* flight.  The host may also drop the run's future at an await (a         *)
(* watchdog); the next run then repairs what it left.                      *)
(*                                                                         *)
(* A run awaits in "compact" (threshold compaction), "request" and         *)
(* "recover" (the model) and "tool".  Between awaits it is one action.     *)
(***************************************************************************)
EXTENDS ProviderWire, FiniteSets

CONSTANTS
  Keys,        \* (tool, args) pairs: [tool, args]
  Batches,     \* the tool calls one response may make: sequences of keys
  Limits,      \* memory limits considered (turns, NoLimit)
  SoftLimit,   \* Role::max_turns
  MaxRuns,     \* bound on runs
  MaxPushes    \* bound on steering and follow-up messages

ASSUME AgentAssumption ==
  /\ Limits \subseteq Nat \cup {NoLimit}
  /\ \A batch \in Batches : batch \in Seq(Keys) /\ batch # <<>>
  /\ SoftLimit \in Nat /\ MaxRuns \in Nat /\ MaxPushes \in Nat

VARIABLES
  limit,       \* the role's memory limit
  memory,      \* Memory.messages
  steering,    \* steering messages waiting
  followUps,   \* follow-up messages waiting
  cancel,      \* the cancel flag of the run
  pc,          \* where the run stands
  turn,        \* turns begun
  todo,        \* calls of the batch not answered yet: [id, key]
  seen,        \* key -> times called in this run
  corrected,   \* keys that have had their hint
  retried,     \* whether this turn's request was retried after a compaction
  outcome,     \* how the last run ended
  runs,        \* runs begun
  pushes,      \* messages pushed
  owed,        \* human messages added since the model was last asked
  executed     \* key -> times its tool was executed in this run

hostVars == <<steering, followUps, cancel, pushes>>
loopVars == <<pc, turn, todo, retried, outcome>>
guardVars == <<seen, corrected, executed>>
vars == <<limit, memory, hostVars, loopVars, guardVars, runs, owed>>

HardLimit == SoftLimit * 5
LoopDetectThreshold == 3

\* loop_terminate_threshold: canvas tools may be polled longer.
TerminateAt(key) == IF key.tool = "canvas" THEN 8 ELSE LoopDetectThreshold + 1

Init ==
  /\ limit \in Limits
  /\ memory = <<>>
  /\ steering = <<>> /\ followUps = <<>> /\ cancel = FALSE /\ pushes = 0
  /\ pc = "idle" /\ turn = 0 /\ todo = <<>> /\ retried = FALSE /\ outcome = "none"
  /\ seen = [k \in Keys |-> 0]
  /\ corrected = {}
  /\ executed = [k \in Keys |-> 0]
  /\ runs = 0
  /\ owed = <<>>

-----------------------------------------------------------------------------
HumanAll(texts) == [i \in DOMAIN texts |-> Human(texts[i])]

\* The run returns.
Leave(how) == pc' = "idle" /\ outcome' = how

\* Faulty variant: calls that were not executed stay unanswered.
CancelledSilently ==
  /\ Leave("cancelled")
  /\ steering' = <<>>
  /\ todo' = <<>>
  /\ UNCHANGED memory

\* A checkpoint finds the flag set: calls without a result get a placeholder,
\* queued steering messages are dropped, follow-ups stay.
Cancelled ==
  /\ Leave("cancelled")
  /\ steering' = <<>>
  /\ todo' = <<>>
  /\ memory' = AddAll(memory, [i \in DOMAIN todo |-> ToolResult(todo[i].id)], limit)

\* run_inner is called; start is the memory its turns begin with.
StartOn(start) ==
  /\ pc = "idle"
  /\ runs < MaxRuns
  /\ runs' = runs + 1
  /\ memory' = start
  /\ pc' = "compact"
  /\ outcome' = "none"
  /\ cancel' = FALSE
  /\ turn' = 0 /\ todo' = <<>> /\ retried' = FALSE
  /\ seen' = [k \in Keys |-> 0] /\ corrected' = {} /\ executed' = [k \in Keys |-> 0]
  /\ owed' = <<>>
  /\ UNCHANGED <<limit, steering, followUps, pushes>>

\* The memory is repaired before anything else.
StartRun == StartOn(Repair(memory, limit))

\* The estimate is over the threshold and the compaction works, or the memory
\* stays as it is; then the task is added.
Prepare ==
  /\ pc = "compact"
  /\ \E start \in {memory} \cup Compactions(memory, limit) :
       memory' = Add(start, Human("task"), limit)
  /\ owed' = <<"task">>
  /\ pc' = "turn"
  /\ UNCHANGED <<limit, hostVars, turn, todo, retried, outcome, guardVars, runs>>

\* The top of the loop: the cap, checkpoint 1, the steering poll.
BeginTurn ==
  /\ pc = "turn"
  /\ \/ /\ turn = HardLimit
        /\ Leave("max")
        /\ UNCHANGED <<memory, steering, turn, todo, owed>>
     \/ /\ turn < HardLimit
        /\ cancel
        /\ Cancelled
        /\ UNCHANGED <<turn, owed>>
     \/ /\ turn < HardLimit
        /\ ~cancel
        /\ memory' = AddAll(memory, HumanAll(steering), limit)
        /\ owed' = owed \o steering
        /\ steering' = <<>>
        /\ turn' = turn + 1
        /\ pc' = "request"
        /\ UNCHANGED <<todo, outcome>>
  /\ retried' = FALSE
  /\ UNCHANGED <<limit, followUps, cancel, pushes, guardVars, runs>>

-----------------------------------------------------------------------------
\* The request fails, by an Err or in band: a first context overflow starts a
\* compaction, anything else ends the run.
RequestFails(overflow) ==
  /\ pc = "request"
  /\ IF overflow /\ ~retried
     THEN pc' = "recover" /\ UNCHANGED outcome
     ELSE Leave("failed")
  /\ UNCHANGED <<limit, memory, hostVars, turn, todo, retried, guardVars, runs, owed>>

\* Faulty variant: the request is made again whether or not anything was cut.
RecoverRetriesAnyway ==
  /\ pc = "recover"
  /\ memory' \in {memory} \cup Compactions(memory, limit)
  /\ pc' = "request"
  /\ UNCHANGED <<limit, hostVars, turn, todo, retried, outcome, guardVars, runs, owed>>

\* The compaction of the recovery returns: the request is made again (the
\* cancel flag is not looked at), or the overflow ends the run.
Recover ==
  /\ pc = "recover"
  /\ \/ /\ memory' \in Compactions(memory, limit)
        /\ pc' = "request"
        /\ retried' = TRUE
        /\ UNCHANGED outcome
     \/ Leave("failed") /\ UNCHANGED <<memory, retried>>
  /\ UNCHANGED <<limit, hostVars, turn, todo, guardVars, runs, owed>>

\* The ids of a batch: the provider never reuses one the memory still holds.
\* CallIds bounds how many there can be.
Used == UNION {ToSet(memory[i].uses) \cup {memory[i].answers} : i \in DOMAIN memory}
Unused(n) == {b \in CallIds : \A i \in 0..n - 1 : b + i \in CallIds \ Used}
Fresh(n) ==
  LET base == CHOOSE b \in Unused(n) : TRUE IN [i \in 1..n |-> base + i - 1]

\* The model wants tools: checkpoints 2 and 3, then the batch is recorded.
WantsTools(keys) ==
  LET ids == Fresh(Len(keys)) IN
  /\ pc = "request"
  /\ Unused(Len(keys)) # {}
  /\ owed' = <<>>
  /\ \/ cancel /\ Cancelled
     \/ /\ ~cancel
        /\ memory' = Add(memory, ToolUses(ids), limit)
        /\ todo' = [i \in DOMAIN keys |-> [id |-> ids[i], key |-> keys[i]]]
        /\ pc' = "batch"
        /\ UNCHANGED <<steering, outcome>>
  /\ UNCHANGED <<limit, followUps, cancel, pushes, turn, retried, guardVars, runs>>

\* Faulty variant: the follow-ups go in front of the answer they follow.
AnswersAfterFollowUps ==
  /\ pc = "request"
  /\ \/ cancel /\ Cancelled /\ owed' = <<>> /\ UNCHANGED followUps
     \/ /\ ~cancel
        /\ memory' = Add(AddAll(memory, HumanAll(followUps), limit), Answer, limit)
        /\ owed' = followUps
        /\ followUps' = <<>>
        /\ IF followUps # <<>> THEN pc' = "turn" /\ UNCHANGED outcome ELSE Leave("done")
        /\ UNCHANGED <<steering, todo>>
  /\ UNCHANGED <<limit, cancel, pushes, turn, retried, guardVars, runs>>

\* The model answers in text: checkpoint 2, the answer, and the follow-ups,
\* which keep the run going if there are any.
Answers ==
  /\ pc = "request"
  /\ \/ cancel /\ Cancelled /\ owed' = <<>> /\ UNCHANGED followUps
     \/ /\ ~cancel
        /\ memory' = AddAll(Add(memory, Answer, limit), HumanAll(followUps), limit)
        /\ owed' = followUps
        /\ followUps' = <<>>
        /\ IF followUps # <<>> THEN pc' = "turn" /\ UNCHANGED outcome ELSE Leave("done")
        /\ UNCHANGED <<steering, todo>>
  /\ UNCHANGED <<limit, cancel, pushes, turn, retried, guardVars, runs>>

-----------------------------------------------------------------------------
Answered == todo' = Tail(todo) /\ memory' = Add(memory, ToolResult(Head(todo).id), limit)

\* The batch is done.
BatchDone ==
  /\ pc = "batch"
  /\ todo = <<>>
  /\ pc' = "turn"
  /\ UNCHANGED <<limit, memory, hostVars, turn, todo, retried, outcome, guardVars, runs, owed>>

\* Checkpoints 4 and 5.
BatchCancelled ==
  /\ pc = "batch"
  /\ todo # <<>>
  /\ cancel
  /\ Cancelled
  /\ UNCHANGED <<limit, followUps, cancel, pushes, turn, retried, guardVars, runs, owed>>

\* Faulty variants: the hint is not remembered; the flag is not looked at
\* between the tools of a batch.
NextCallHintForgotten ==
  LET key == Head(todo).key  n == seen[key] + 1 IN
  /\ pc = "batch"
  /\ todo # <<>>
  /\ ~cancel
  /\ seen' = [seen EXCEPT ![key] = n]
  /\ IF n = LoopDetectThreshold
     THEN Answered /\ UNCHANGED <<pc, outcome, executed>>
     ELSE pc' = "tool" /\ executed' = [executed EXCEPT ![key] = @ + 1]
          /\ UNCHANGED <<todo, memory, outcome>>
  /\ UNCHANGED <<limit, hostVars, turn, retried, runs, owed, corrected>>
NextCallIgnoresCancel ==
  LET key == Head(todo).key  n == seen[key] + 1 IN
  /\ pc = "batch"
  /\ todo # <<>>
  /\ n < TerminateAt(key)
  /\ seen' = [seen EXCEPT ![key] = n]
  /\ pc' = "tool"
  /\ executed' = [executed EXCEPT ![key] = @ + 1]
  /\ UNCHANGED <<limit, hostVars, memory, todo, outcome, turn, retried, runs, owed, corrected>>

\* The next call of the batch: the third of its kind gets a hint in place of
\* a result, one that goes on to its threshold ends the run (its batch stays
\* unanswered), any other is executed.
NextCall ==
  LET key == Head(todo).key  n == seen[key] + 1
      hint == n >= LoopDetectThreshold /\ key \notin corrected
  IN
  /\ pc = "batch"
  /\ todo # <<>>
  /\ ~cancel
  /\ seen' = [seen EXCEPT ![key] = n]
  /\ \/ /\ hint
        /\ corrected' = corrected \cup {key}
        /\ Answered
        /\ UNCHANGED <<pc, outcome, executed>>
     \/ /\ ~hint
        /\ n >= TerminateAt(key)
        /\ Leave("loop")
        /\ UNCHANGED <<memory, todo, corrected, executed>>
     \/ /\ ~hint
        /\ n < TerminateAt(key)
        /\ pc' = "tool"
        /\ executed' = [executed EXCEPT ![key] = @ + 1]
        /\ UNCHANGED <<memory, todo, outcome, corrected>>
  /\ UNCHANGED <<limit, hostVars, turn, retried, runs, owed>>

\* The tool returns, with a result or an error text.
ToolReturns ==
  /\ pc = "tool"
  /\ Answered
  /\ pc' = "batch"
  /\ UNCHANGED <<limit, hostVars, turn, retried, outcome, guardVars, runs, owed>>

-----------------------------------------------------------------------------
(* The host. *)

Steer ==
  /\ pushes < MaxPushes
  /\ pushes' = pushes + 1
  /\ steering' = Append(steering, "steer")
  /\ UNCHANGED <<limit, memory, followUps, cancel, loopVars, guardVars, runs, owed>>

FollowUp ==
  /\ pushes < MaxPushes
  /\ pushes' = pushes + 1
  /\ followUps' = Append(followUps, "follow")
  /\ UNCHANGED <<limit, memory, steering, cancel, loopVars, guardVars, runs, owed>>

Cancel ==
  /\ pc # "idle"
  /\ ~cancel
  /\ cancel' = TRUE
  /\ UNCHANGED <<limit, memory, steering, followUps, pushes, loopVars, guardVars, runs, owed>>

\* The run's future is dropped at an await.
DropRun ==
  /\ pc \in {"compact", "request", "recover", "tool"}
  /\ Leave("dropped")
  /\ todo' = <<>>
  /\ UNCHANGED <<limit, memory, hostVars, turn, retried, guardVars, runs, owed>>

-----------------------------------------------------------------------------
Run ==
  \/ Prepare
  \/ BeginTurn
  \/ \E overflow \in BOOLEAN : RequestFails(overflow)
  \/ Recover
  \/ \E keys \in Batches : WantsTools(keys)
  \/ Answers
  \/ BatchDone
  \/ BatchCancelled
  \/ NextCall
  \/ ToolReturns

Next == StartRun \/ Run \/ Steer \/ FollowUp \/ Cancel \/ DropRun

Spec == Init /\ [][Next]_vars

\* The run is polled to its end and whatever it awaits returns: the client has
\* timeouts; tools are taken to return.
FairSpec == Spec /\ WF_vars(Run)

-----------------------------------------------------------------------------

\* The model is asked with everything the user has said since it was last
\* asked: the task, the steering messages, the follow-ups, in this order.
HumanHeard ==
  (pc = "request" /\ ~retried) =>
    /\ Len(owed) <= Len(memory)
    /\ HumanAll(owed) = SubSeq(memory, Len(memory) - Len(owed) + 1, Len(memory))

\* The cycle guard: no (tool, args) pair is executed up to its termination
\* threshold, and a run only ends for a loop after the model was warned.
CycleBounded ==
  /\ \A k \in Keys : executed[k] <= TerminateAt(k) - 2
  /\ outcome = "loop" => \E k \in corrected : seen[k] = TerminateAt(k)

\* After a cancel no further tool is started in the run and no turn begun.
CancelQuiet ==
  [][(cancel /\ cancel' /\ pc # "idle") => (executed' = executed /\ turn' = turn)]_vars

\* A run ends, however the model and the host behave.
RunEnds == (pc # "idle") ~> (pc = "idle")

=============================================================================
