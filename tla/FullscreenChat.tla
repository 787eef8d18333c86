--------------------------- MODULE FullscreenChat ---------------------------
(***************************************************************************)
(* The chat in either of its front ends: the linear one (ChatSession's     *)
(* front end) or the fullscreen one of `--mode fullscreen` (tui.rs, with   *)
(* its chat model in chat_model.rs), over the same resident task, the same *)
(* two channels and the same session file.                                 *)
(*                                                                         *)
(* The fullscreen front end takes no text while a run streams (nothing     *)
(* steers), its /clear replaces the chat log and tells the task nothing,   *)
(* and it cannot change the role.  It keeps a log of assistant turns, each *)
(* a list of blocks, and the turn that streams.                            *)
(***************************************************************************)
EXTENDS ChatSession

CONSTANT ScreenInputs   \* bound on what is typed up to the fullscreen front end's last input

VARIABLES
  mode,   \* "linear" or "fullscreen"
  log,    \* the assistant turns of the chat log: [run, blocks]
  at      \* streaming_idx, 0 for None

fvars == <<vars, mode, log, at>>
logVars == <<log, at>>

FInit ==
  /\ Init
  /\ mode \in {"linear", "fullscreen"}
  /\ log = <<>> /\ at = 0

InMode(m, step) == mode = m /\ step /\ UNCHANGED mode

-----------------------------------------------------------------------------
(* The chat model.  A block is the kind it is drawn as; a tool block is     *)
(* "running" until its result is filled in.                                 *)

IsTrailing(blocks, kind) == blocks # <<>> /\ Last(blocks) = kind

\* append_text: into the trailing answer, or a new one.
AppendText(blocks) == IF IsTrailing(blocks, "answer") THEN blocks ELSE Append(blocks, "answer")

\* append_thinking: into the most recent thinking block, wherever it is.
AppendThinking(blocks) ==
  IF "thinking" \in ToSet(blocks) THEN blocks ELSE Append(blocks, "thinking")

\* start_tool: a trailing answer was thinking, then.
StartTool(blocks) ==
  Append(IF IsTrailing(blocks, "answer") THEN Append(Front(blocks), "thinking") ELSE blocks,
         "running")

\* Faulty variant: the result is a block of its own.
FinishToolPushes(blocks) == Append(blocks, "done")

\* finish_tool: the trailing running block is completed; else a finished one is
\* pushed.
FinishTool(blocks) ==
  Append(IF IsTrailing(blocks, "running") THEN Front(blocks) ELSE blocks, "done")

Drawn(kind, blocks) ==
  CASE kind = "text" -> AppendText(blocks)
    [] kind = "think" -> AppendThinking(blocks)
    [] kind = "tool" -> StartTool(blocks)
    [] kind = "result" -> FinishTool(blocks)
    [] OTHER -> blocks

-----------------------------------------------------------------------------
(* handle_key: while a run streams only Esc, paging and quitting. *)

\* Enter on a text.
TypeMessage ==
  /\ Input /\ inputs < ScreenInputs
  /\ ~streaming
  /\ said' = said \cup {inputs + 1}
  /\ Send("run")
  /\ streaming' = TRUE
  /\ shown' = inputs + 1
  /\ log' = Append(log, [run |-> inputs + 1, blocks |-> <<>>])
  /\ at' = Len(log) + 1
  /\ UNCHANGED <<live, answering, tool, events, flags, runVars, agentVars, file, starts,
                 dropped, cleared>>

\* /clear: a new chat log; the agent keeps its memory.
ClearLog ==
  /\ Input /\ inputs < ScreenInputs
  /\ ~streaming
  /\ log' = <<>> /\ at' = 0
  /\ UNCHANGED <<live, uiVars, cmds, events, flags, runVars, agentVars, file, starts, histVars>>

\* handle_stream_event: an error ends the run but not the turn in the log.
DrawEvent ==
  /\ live
  /\ events # <<>>
  /\ events' = Tail(events)
  /\ LET kind == Head(events).kind IN
     /\ streaming' = (streaming /\ kind \notin {"done", "cancelled", "error"})
     /\ log' = IF at = 0 THEN log ELSE [log EXCEPT ![at].blocks = Drawn(kind, @)]
     /\ at' = IF kind \in {"done", "cancelled"} THEN 0 ELSE at
  /\ UNCHANGED <<live, shown, answering, tool, cmds, flags, runVars, agentVars, file, inputs,
                 starts, histVars>>

\* The response's reasoning streams in, once in a run that shows no thinking yet
\* (any more would be merged into it).
StreamReasoning ==
  /\ live
  /\ phase = "request"
  /\ \A i \in DOMAIN events : events[i].kind \notin {"think", "tool"}
  /\ \A i \in DOMAIN log : log[i].run = running => "thinking" \notin ToSet(log[i].blocks)
  /\ Emit("think")
  /\ UNCHANGED <<live, uiVars, cmds, flags, runVars, agentVars, file, inputs, starts, histVars>>

\* run_tui_chat leaves the screen: q, at an empty prompt or in a run, or Ctrl-C.
\* The task has 200 ms more, as if the user had quit later.
Leave == Stop /\ log' = <<>> /\ at' = 0 /\ UNCHANGED mode

\* The program is started again, in either mode.  The fullscreen one announces a
\* loaded session as text of no run, before any turn is there to take it.
Notices(continue) ==
  LET notice == <<[kind |-> "text", run |-> 0]>> IN
  IF ~continue THEN {<<>>} ELSE IF file = <<>> THEN {<<>>, notice} ELSE {notice}

Again(continue) ==
  /\ Restart(continue)
  /\ mode' \in {"linear", "fullscreen"}
  /\ events' \in IF mode' = "linear" THEN {<<>>} ELSE Notices(continue)
  /\ log' = <<>> /\ at' = 0

-----------------------------------------------------------------------------
FNext ==
  \/ InMode("linear", FrontEnd) /\ UNCHANGED logVars
  \/ InMode("fullscreen", Esc) /\ UNCHANGED logVars
  \/ InMode("fullscreen", TypeMessage)
  \/ InMode("fullscreen", ClearLog)
  \/ InMode("fullscreen", DrawEvent)
  \/ InMode("fullscreen", StreamReasoning) /\ UNCHANGED logVars
  \/ Task /\ UNCHANGED <<mode, logVars>>
  \/ Leave
  \/ \E continue \in BOOLEAN : Again(continue)

\* The task is polled, its requests and tools return, the front end drains its
\* channel.  The user may do anything or nothing.
FSpec ==
  /\ FInit /\ [][FNext]_fvars
  /\ WF_vars(Task)
  /\ WF_vars(mode = "linear" /\ ReadEvent) /\ WF_vars(mode = "fullscreen" /\ DrawEvent)

-----------------------------------------------------------------------------

\* What the screen shows is the run that is under way: the events on their way
\* are those of the run the front end shows, it shows one as long as there are
\* any, so a second run is never started before the last event of the first was
\* drawn, and a tool drawn as running still owes its result.
Owed(run) ==
  \/ phase = "tool" /\ running = run
  \/ \E i \in DOMAIN events : events[i] = [kind |-> "result", run |-> run]

OneRunShown ==
  live =>
    /\ \A i \in DOMAIN events : events[i].run # 0 => streaming /\ events[i].run = shown
    /\ phase \in {"turn", "request", "tool"} => shown = running
    /\ Cardinality({i \in DOMAIN cmds : cmds[i].kind = "run"}) <= 1
    /\ \A i \in DOMAIN log : "running" \in ToSet(log[i].blocks) => Owed(log[i].run)

=============================================================================
