---------------------------- MODULE ChatSession ----------------------------
(***************************************************************************)
(* The interactive chat (auto-ai-cli): a front end that turns keys into    *)
(* commands and draws events (linear/mod.rs), the resident task that owns  *)
(* the agent and takes one command at a time (agent_task.rs), and the      *)
(* session file a later start may continue (session.rs).  Two unbounded    *)
(* channels connect front end and task.                                    *)
(*                                                                         *)
(* A run of the agent is abstracted to what the front end sees of it: it   *)
(* makes requests, streams text, runs tools, and ends with an answer, by   *)
(* cancel, at the turn cap or by a failure (AgentLoop has the detail).     *)
(* Messages are the numbers of the inputs they were typed as, a run is     *)
(* named by the message it was started with, and of a memory only the      *)
(* user's messages are kept (Conversation has its trimming).               *)
(***************************************************************************)
EXTENDS Naturals, Sequences, SequencesExt, FiniteSets

CONSTANTS
  MaxInputs,   \* bound on what the user types, over all starts
  MaxTurns,    \* hard cap on the turns of a run
  MaxStarts    \* bound on the starts of the program

VARIABLES
  live,       \* whether the process runs
  streaming,  \* is_streaming
  shown,      \* the run current_cancel belongs to, 0 before the first
  answering,  \* whether active_answer has text
  tool,       \* whether running_tool is set
  cmds,       \* commands on their way to the task: [kind, msg, turn]
  events,     \* events on their way to the front end: [kind, run]
  flags,      \* runs whose cancel flag is set
  phase,      \* what the task does
  running,    \* the run it is in, 0 for none
  turn,       \* turns of that run
  spoke,      \* whether this turn's response has streamed text
  memory,     \* the agent's memory
  steering, followUps,   \* the agent's queues
  file,       \* messages in the session file
  inputs,     \* inputs typed
  starts,     \* starts of the program
  said,       \* messages typed since the start
  dropped,    \* messages dropped since the start by a cancel or a rebuild
  cleared     \* messages wiped by /clear, from the agent and from the file

uiVars == <<streaming, shown, answering, tool>>
runVars == <<phase, running, turn, spoke>>
agentVars == <<memory, steering, followUps>>
histVars == <<said, dropped, cleared>>
vars == <<live, uiVars, cmds, events, flags, runVars, agentVars, file, inputs, starts, histVars>>

Inputs == 1..MaxInputs

FreshProcess ==
  /\ live' = TRUE
  /\ streaming' = FALSE /\ shown' = 0 /\ answering' = FALSE /\ tool' = FALSE
  /\ cmds' = <<>> /\ flags' = {}
  /\ phase' = "idle" /\ running' = 0 /\ turn' = 0 /\ spoke' = FALSE
  /\ steering' = <<>> /\ followUps' = <<>>
  /\ said' = {} /\ dropped' = {}

Init ==
  /\ live = TRUE
  /\ streaming = FALSE /\ shown = 0 /\ answering = FALSE /\ tool = FALSE
  /\ cmds = <<>> /\ events = <<>> /\ flags = {}
  /\ phase = "idle" /\ running = 0 /\ turn = 0 /\ spoke = FALSE
  /\ memory = <<>> /\ steering = <<>> /\ followUps = <<>>
  /\ file = <<>>
  /\ inputs = 0 /\ starts = 1
  /\ said = {} /\ dropped = {} /\ cleared = {}

-----------------------------------------------------------------------------
(* The front end. *)

Input == live /\ inputs < MaxInputs /\ inputs' = inputs + 1

Send(kind) == cmds' = Append(cmds, [kind |-> kind, msg |-> inputs + 1, turn |-> turn])

\* use_follow_up: the final answer seems to be streaming.
UseFollowUp == streaming /\ ~tool /\ answering

\* Enter on a text: a run with a cancel flag of its own, or an interjection.
Submit ==
  /\ Input
  /\ said' = said \cup {inputs + 1}
  /\ \/ /\ ~streaming
        /\ Send("run")
        /\ streaming' = TRUE
        /\ shown' = inputs + 1
     \/ /\ streaming
        /\ Send(IF UseFollowUp THEN "follow" ELSE "steer")
        /\ UNCHANGED <<streaming, shown>>
  /\ UNCHANGED <<live, answering, tool, events, flags, runVars, agentVars, file, starts, dropped, cleared>>

\* Esc while streaming.
Esc ==
  /\ live
  /\ streaming
  /\ flags' = flags \cup {shown}
  /\ UNCHANGED <<live, uiVars, cmds, events, runVars, agentVars, file, inputs, starts, histVars>>

\* /clear is refused while streaming.
Clear ==
  /\ Input
  /\ ~streaming
  /\ Send("reset")
  /\ UNCHANGED <<live, uiVars, events, flags, runVars, agentVars, file, starts, histVars>>

\* A role is picked in the selector, streaming or not.
PickRole ==
  /\ Input
  /\ Send("role")
  /\ UNCHANGED <<live, uiVars, events, flags, runVars, agentVars, file, starts, histVars>>

\* handle_stream_event.
ReadEvent ==
  /\ live
  /\ events # <<>>
  /\ events' = Tail(events)
  /\ LET kind == Head(events).kind
         ends == kind \in {"done", "cancelled", "error"}
     IN  /\ streaming' = (streaming /\ ~ends)
         /\ answering' = (kind = "text" \/ (answering /\ kind = "result"))
         /\ tool' = (kind = "tool" \/ (tool /\ kind = "text"))
  /\ UNCHANGED <<live, shown, cmds, flags, runVars, agentVars, file, inputs, starts, histVars>>

\* The user quits, or the process dies: neither waits for the task.
Stop ==
  /\ live
  /\ live' = FALSE
  /\ UNCHANGED <<uiVars, cmds, events, flags, runVars, agentVars, file, inputs, starts, histVars>>

\* The program is started again, with or without -c.
Restart(continue) ==
  /\ ~live
  /\ starts < MaxStarts
  /\ starts' = starts + 1
  /\ FreshProcess
  /\ memory' = IF continue THEN file ELSE <<>>
  /\ UNCHANGED <<file, inputs, cleared>>

Start(continue) == Restart(continue) /\ events' = <<>>

-----------------------------------------------------------------------------
(* The session file: replaced as a whole, or left as it was when it cannot *)
(* be written (a warning on stderr).                                       *)

Saved(messages) == file' = messages

SaveFails == UNCHANGED file

-----------------------------------------------------------------------------
(* The resident task: one command at a time, a run to its end. *)

Take(kind) ==
  /\ live
  /\ phase = "idle"
  /\ cmds # <<>>
  /\ Head(cmds).kind = kind
  /\ cmds' = Tail(cmds)

TakeRun ==
  /\ Take("run")
  /\ memory' = Append(memory, Head(cmds).msg)
  /\ phase' = "turn" /\ running' = Head(cmds).msg
  /\ UNCHANGED <<live, uiVars, events, flags, turn, spoke, steering, followUps, file, inputs, starts, histVars>>

TakeSteer ==
  /\ Take("steer")
  /\ steering' = Append(steering, Head(cmds).msg)
  /\ UNCHANGED <<live, uiVars, events, flags, runVars, memory, followUps, file, inputs, starts, histVars>>

TakeFollowUp ==
  /\ Take("follow")
  /\ followUps' = Append(followUps, Head(cmds).msg)
  /\ UNCHANGED <<live, uiVars, events, flags, runVars, memory, steering, file, inputs, starts, histVars>>

Wiped == ToSet(memory \o steering \o followUps)

\* The agent and its queues are replaced, unless the role cannot be loaded.
Rebuild ==
  \/ /\ memory' = <<>> /\ steering' = <<>> /\ followUps' = <<>>
     /\ dropped' = dropped \cup (Wiped \cap said)
  \/ UNCHANGED <<agentVars, dropped>>

\* Faulty variant: the memory is saved, as on a change of role.
TakeResetSavesMemory ==
  /\ Take("reset")
  /\ Rebuild
  /\ \/ Saved(memory) /\ cleared' = IF Wiped' = {} THEN cleared \cup Wiped ELSE cleared
     \/ SaveFails /\ UNCHANGED cleared
  /\ UNCHANGED <<live, uiVars, events, flags, runVars, inputs, starts, said>>

\* Reset: the session file is emptied and the agent rebuilt.
TakeReset ==
  /\ Take("reset")
  /\ Rebuild
  /\ \/ Saved(<<>>) /\ cleared' = IF Wiped' = {} THEN cleared \cup Wiped ELSE cleared
     \/ SaveFails /\ UNCHANGED cleared
  /\ UNCHANGED <<live, uiVars, events, flags, runVars, inputs, starts, said>>

\* SetRole: the memory is saved, then the agent rebuilt.
TakeRole ==
  /\ Take("role")
  /\ Saved(memory) \/ SaveFails
  /\ Rebuild
  /\ UNCHANGED <<live, uiVars, events, flags, runVars, inputs, starts, said, cleared>>

-----------------------------------------------------------------------------
(* The run. *)

Emit(kind) == events' = Append(events, [kind |-> kind, run |-> running])

Flagged == running \in flags

\* Faulty variant: a cancel also empties the follow-up queue.
CancelledEmptiesBoth ==
  /\ Emit("cancelled")
  /\ dropped' = dropped \cup ToSet(steering)
  /\ steering' = <<>> /\ followUps' = <<>>
  /\ phase' = "save"

\* A checkpoint finds the flag set: queued steering messages are dropped.
Cancelled ==
  /\ Emit("cancelled")
  /\ dropped' = dropped \cup ToSet(steering)
  /\ steering' = <<>>
  /\ phase' = "save"
  /\ UNCHANGED followUps

\* The top of a turn: the cap, the cancel checkpoint, the steering poll.
BeginTurn ==
  /\ live
  /\ phase = "turn"
  /\ \/ /\ turn = MaxTurns
        /\ Emit("error")
        /\ phase' = "save"
        /\ UNCHANGED <<agentVars, turn, spoke, dropped>>
     \/ /\ turn < MaxTurns /\ Flagged
        /\ Cancelled
        /\ UNCHANGED <<memory, turn, spoke>>
     \/ /\ turn < MaxTurns /\ ~Flagged
        /\ memory' = memory \o steering
        /\ steering' = <<>>
        /\ turn' = turn + 1
        /\ spoke' = FALSE
        /\ phase' = "request"
        /\ UNCHANGED <<followUps, events, dropped>>
  /\ UNCHANGED <<live, uiVars, cmds, flags, running, file, inputs, starts, said, cleared>>

\* Text streams in (later chunks change nothing more).
StreamText ==
  /\ live
  /\ phase = "request"
  /\ ~spoke
  /\ spoke' = TRUE
  /\ Emit("text")
  /\ UNCHANGED <<live, uiVars, cmds, flags, phase, running, turn, agentVars, file, inputs, starts, histVars>>

\* The response asks for a tool.
CallTool ==
  /\ live
  /\ phase = "request"
  /\ \/ Flagged /\ Cancelled
     \/ ~Flagged /\ Emit("tool") /\ phase' = "tool" /\ UNCHANGED <<steering, followUps, dropped>>
  /\ UNCHANGED <<live, uiVars, cmds, flags, running, turn, spoke, memory, file, inputs, starts, said, cleared>>

ToolReturns ==
  /\ live
  /\ phase = "tool"
  /\ Emit("result")
  /\ phase' = "turn"
  /\ UNCHANGED <<live, uiVars, cmds, flags, running, turn, spoke, agentVars, file, inputs, starts, histVars>>

\* The response is the answer: waiting follow-ups keep the run going.
Answer ==
  /\ live
  /\ phase = "request"
  /\ \/ Flagged /\ Cancelled /\ UNCHANGED memory
     \/ /\ ~Flagged
        /\ memory' = memory \o followUps
        /\ followUps' = <<>>
        /\ IF followUps # <<>> THEN phase' = "turn" /\ UNCHANGED events
           ELSE phase' = "save" /\ Emit("done")
        /\ UNCHANGED <<steering, dropped>>
  /\ UNCHANGED <<live, uiVars, cmds, flags, running, turn, spoke, file, inputs, starts, said, cleared>>

\* Faulty variant: the error ends the task, not only the run.
RequestFailsEndsTask ==
  /\ live
  /\ phase = "request"
  /\ phase' = "ended"
  /\ UNCHANGED <<live, uiVars, cmds, events, flags, running, turn, spoke, agentVars, file, inputs, starts, histVars>>

\* The request fails: an error in the response is reported as an event, an Err
\* of the client is only returned.
RequestFails ==
  /\ live
  /\ phase = "request"
  /\ phase' = "save"
  /\ Emit("error") \/ UNCHANGED events
  /\ UNCHANGED <<live, uiVars, cmds, flags, running, turn, spoke, agentVars, file, inputs, starts, histVars>>

\* run_stream has returned: the conversation is saved.
Save ==
  /\ live
  /\ phase = "save"
  /\ Saved(memory) \/ SaveFails
  /\ phase' = "idle" /\ running' = 0 /\ turn' = 0 /\ spoke' = FALSE
  /\ UNCHANGED <<live, uiVars, cmds, events, flags, agentVars, inputs, starts, histVars>>

-----------------------------------------------------------------------------
FrontEnd == Submit \/ Esc \/ Clear \/ PickRole \/ ReadEvent

Task ==
  \/ TakeRun \/ TakeSteer \/ TakeFollowUp \/ TakeReset \/ TakeRole
  \/ BeginTurn \/ StreamText \/ CallTool \/ ToolReturns \/ Answer \/ RequestFails \/ Save

Next == FrontEnd \/ Task \/ Stop \/ \E continue \in BOOLEAN : Start(continue)

Spec == Init /\ [][Next]_vars

\* The task is polled, its requests and tools return, the front end drains its
\* channel.  The user may do anything or nothing.
FairSpec == Spec /\ WF_vars(Task) /\ WF_vars(ReadEvent)

-----------------------------------------------------------------------------
Ids(seq) == ToSet(seq)
Commanded == {cmds[i].msg : i \in {j \in DOMAIN cmds : cmds[j].kind \in {"run", "steer", "follow"}}}

\* A message that was typed is on its way, in a queue or in the memory, in one
\* of them and once, unless a cancel or a rebuild dropped it.
MessagesConserved ==
  live =>
    /\ said = Commanded \cup ((Ids(steering \o followUps) \cup Ids(memory)) \cap said) \cup dropped
    /\ IsInjective(memory \o steering \o followUps)
    /\ Commanded \cap Ids(memory \o steering \o followUps) = {}

\* A conversation wiped by a /clear that could empty the file comes back neither
\* into the memory nor into the session file, in this process or after a start
\* with -c (agent_task.rs:
\* "so a later -c doesn't resurrect the cleared conversation").
ClearedStaysCleared ==
  cleared \cap Ids(memory \o steering \o followUps \o file) = {}

\* Every run the user has started is served to its end as long as the process
\* lives, whatever failed before it ("task stays alive").
Pending(m) == running = m \/ \E i \in DOMAIN cmds : cmds[i].kind = "run" /\ cmds[i].msg = m
RunsServed == \A m \in Inputs : Pending(m) ~> (~Pending(m) \/ ~live)

\* A steering message is injected "after the current tool batch, before the
\* next LLM call" (agent_task.rs): one typed in a turn is not still under way
\* when the request after the next is made.
SteeringReachesRun ==
  phase = "request" =>
    \A i \in DOMAIN cmds : cmds[i].kind = "steer" => cmds[i].turn + 1 >= turn

=============================================================================
