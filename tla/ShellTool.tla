------------------------------ MODULE ShellTool ------------------------------
(***************************************************************************)
(* The shell tools of the command line front end: run_command, which goes  *)
(* through ash (AutoShell, sandboxed) first and decides from ash's outcome *)
(* whether the system shell may run the command instead, and               *)
(* run_ash_script, which has no such fallback.  ash is probed once per     *)
(* process.  A command line is a sequence of parts (`a && b`, `a; b`); ash *)
(* and the commands are external: what a part does on ash is its kind.     *)
(***************************************************************************)
EXTENDS Integers, Sequences, FiniteSets

CONSTANTS
  MaxParts,   \* bound: parts of a command line
  MaxCalls,   \* bound: tool calls
  Timeout     \* timeout_ms, in ticks

ASSUME ShellAssumption == MaxParts \in Nat \ {0} /\ MaxCalls \in Nat /\ Timeout \in Nat

VARIABLES
  binary,  \* what discovery finds: "ash", "other" (fails the probe), "missing"
  ash,     \* the OnceLock of ash_available: "unprobed", "present", "absent"
  told,    \* what the description built with the tool says of ash
  calls,   \* tool calls made
  tool,    \* the track of the call: "idle", "ash", "script", "system"
  line,    \* its command line
  forced,  \* called with force: true
  child,   \* [state, next part, exit code, marks on stderr]
  holder,  \* a grandchild is alive and holds the pipes
  clock,   \* ticks since the spawn
  temp,    \* the staged script is on disk
  ran,     \* parts started in this call: [track, part]
  ended,   \* how its runs under ash ended: [spawned, killed, exit code, marks]
  answer   \* what the model is told

callVars == <<tool, line, forced, ran, ended, answer>>
vars == <<binary, ash, told, calls, callVars, child, holder, clock, temp>>

\* What a part does on ash: run and succeed; run and fail; run and fail with
\* output of its own that reads like ash's; not be found; be refused by the
\* sandbox; run for ever.
Kinds == {"works", "fails", "echoes", "unknown", "refused", "hangs"}
Lines == UNION {[1..n -> Kinds] : n \in 1..MaxParts}
NoChild == [state |-> "none", next |-> 1, code |-> "none", marks |-> {}]

Init ==
  /\ binary \in {"ash", "other", "missing"}
  /\ ash = "unprobed" /\ told = "unprobed"
  /\ calls = 0 /\ tool = "idle" /\ line = <<>> /\ forced = FALSE
  /\ child = NoChild /\ holder = FALSE /\ clock = 0 /\ temp = FALSE
  /\ ran = <<>> /\ ended = <<>> /\ answer = "none"

\* ash is installed, removed or shadowed while the front end runs.
DiscoverFrom(b) ==
  /\ binary # b /\ binary' = b
  /\ UNCHANGED <<ash, told, calls, callVars, child, holder, clock, temp>>

\* probe_ash: found, runs, and its help knows --sandbox.
ProbeAsh == IF binary = "ash" THEN "present" ELSE "absent"

\* The probe's result, negative or not, is kept for the process.
AshAvailable == IF ash = "unprobed" THEN ProbeAsh ELSE ash

\* The tools are built with an agent: at the start, and with each new role.
BuildTools ==
  /\ tool = "idle"
  /\ ash' = AshAvailable /\ told' = AshAvailable
  /\ UNCHANGED <<binary, calls, callVars, child, holder, clock, temp>>

-----------------------------------------------------------------------------
(* One call. *)

Idle == tool = "idle" /\ told # "unprobed" /\ calls < MaxCalls

Start(track, l) ==
  /\ tool' = track /\ line' = l
  /\ child' = NoChild /\ clock' = 0
  /\ ran' = <<>> /\ ended' = <<>> /\ answer' = "none"
  /\ calls' = calls + 1

\* force: true, after approval: the system shell, without the sandbox.
Forced(l) ==
  /\ Idle /\ Start("system", l) /\ forced' = TRUE
  /\ UNCHANGED <<binary, ash, told, holder, temp>>

\* A dangerous pattern, or a first word that is not on the whitelist.
Paused ==
  /\ Idle /\ calls' = calls + 1
  /\ answer' = "paused" /\ forced' = FALSE /\ ran' = <<>> /\ ended' = <<>>
  /\ UNCHANGED <<binary, ash, told, tool, line, child, holder, clock, temp>>

Whitelisted(l) ==
  /\ Idle /\ ash' = AshAvailable
  /\ Start(IF AshAvailable = "present" THEN "ash" ELSE "system", l)
  /\ forced' = FALSE
  /\ UNCHANGED <<binary, told, holder, temp>>

\* run_ash_script is registered where the probe found ash; its content is
\* staged in a temporary file, a path is used as it is.
RunAshScript(l, content) ==
  /\ Idle /\ told = "present"
  /\ Start("script", l) /\ forced' = FALSE /\ temp' = content
  /\ UNCHANGED <<binary, ash, told, holder>>

Finish(a) ==
  /\ tool' = "idle" /\ answer' = a
  /\ child' = NoChild /\ clock' = 0
  /\ temp' = FALSE

-----------------------------------------------------------------------------
(* run_with_timeout: the child, its deadline, the two reader threads. *)

Spawn ==
  /\ tool # "idle" /\ child.state = "none"
  /\ tool = "system" \/ binary # "missing"
  /\ child' = [NoChild EXCEPT !.state = "running"]
  /\ UNCHANGED <<binary, ash, told, calls, callVars, holder, clock, temp>>

\* The system shell knows what ash does not, and has no sandbox.
OnTrack(kind) ==
  IF tool = "system" /\ kind \in {"unknown", "refused"} THEN "works" ELSE kind

Marks(kind) ==
  CASE kind \in {"unknown", "echoes"} -> {"pre_exec"}
    [] kind = "refused" -> {"denied"}
    [] OTHER -> {}

\* The next part.  Whether a failed part stops the line is the shell's affair,
\* and ash returns 0 for some errors.
Part ==
  /\ child.state = "running" /\ child.next <= Len(line)
  /\ LET kind == OnTrack(line[child.next])
         failed == kind # "works"
     IN /\ ran' = IF kind \in {"unknown", "refused"} THEN ran
                  ELSE Append(ran, [track |-> tool, part |-> child.next])
        /\ \E code \in IF kind = "fails" THEN {"zero", "other"}
                       ELSE IF failed THEN {"other"} ELSE {"zero"} :
           \E next \in IF failed THEN {child.next + 1, Len(line) + 1}
                       ELSE {child.next + 1} :
             child' = [state |-> IF kind = "hangs" THEN "hung" ELSE "running",
                       next |-> next, code |-> code,
                       marks |-> child.marks \cup Marks(kind)]
  /\ UNCHANGED <<binary, ash, told, calls, tool, line, forced, ended, answer,
                 holder, clock, temp>>

Exits ==
  /\ child.state = "running" /\ child.next > Len(line)
  /\ child' = [child EXCEPT !.state = "exited"]
  /\ \E h \in BOOLEAN : holder' = h     \* something was left in the background
  /\ UNCHANGED <<binary, ash, told, calls, callVars, clock, temp>>

Tick ==
  /\ child.state \in {"running", "hung"} /\ clock < Timeout
  /\ clock' = clock + 1
  /\ UNCHANGED <<binary, ash, told, calls, callVars, child, holder, temp>>

\* Faulty variant: the deadline is only looked at between parts.
KillRunning ==
  /\ child.state = "running" /\ clock = Timeout
  /\ child' = [child EXCEPT !.state = "killed", !.code = "none"]
  /\ \E h \in BOOLEAN : holder' = h
  /\ UNCHANGED <<binary, ash, told, calls, callVars, clock, temp>>

\* The direct child is killed; what it started may survive.
Kill ==
  /\ child.state \in {"running", "hung"} /\ clock = Timeout
  /\ child' = [child EXCEPT !.state = "killed", !.code = "none"]
  /\ \E h \in BOOLEAN : holder' = h
  /\ UNCHANGED <<binary, ash, told, calls, callVars, clock, temp>>

\* The readers end with the last holder of the pipes.
HolderEnds ==
  /\ holder /\ holder' = FALSE
  /\ UNCHANGED <<binary, ash, told, calls, callVars, child, clock, temp>>

\* Faulty variant: the markers are looked at before the exit code.
ClassifyMarksFirst ==
  IF child.state = "killed" THEN "RanFailed"
  ELSE IF "denied" \in child.marks THEN "Denied"
  ELSE IF "pre_exec" \in child.marks THEN "PreExecFailure"
  ELSE IF child.code = "zero" THEN "RanOk" ELSE "RanFailed"

\* classification: the timeout wins over every stderr, the policy over the
\* failure to start.
Classify ==
  IF child.state = "killed" THEN "RanFailed"
  ELSE IF child.code = "zero" THEN "RanOk"
  ELSE IF "denied" \in child.marks THEN "Denied"
  ELSE IF "pre_exec" \in child.marks THEN "PreExecFailure" ELSE "RanFailed"

Joined == child.state \in {"exited", "killed"} /\ ~holder

\* What the run was, apart from how it is classified.
Records ==
  ended' = Append(ended, [spawned |-> child.state # "none", killed |-> child.state = "killed",
                          code |-> child.code, marks |-> child.marks])

Retry ==
  /\ tool' = "system" /\ child' = NoChild /\ clock' = 0
  /\ UNCHANGED <<answer, temp>>

\* run_ash_track: the fallback matrix.
AshDone ==
  /\ tool = "ash" /\ Joined
  /\ Records
  /\ CASE Classify = "PreExecFailure" -> Retry
       [] Classify = "Denied" -> Finish("denied")
       [] OTHER -> Finish(Classify)
  /\ UNCHANGED <<binary, ash, told, calls, line, forced, ran, holder>>

SystemDone ==
  /\ tool = "system" /\ Joined
  /\ Finish(IF child.state = "killed" THEN "timeout" ELSE "output")
  /\ UNCHANGED <<binary, ash, told, calls, line, forced, ran, ended, holder>>

ScriptDone ==
  /\ tool = "script" /\ Joined
  /\ Records
  /\ Finish(Classify)
  /\ UNCHANGED <<binary, ash, told, calls, line, forced, ran, holder>>

\* ash is gone since the probe: the command goes to the system shell, a script
\* is an error.
SpawnError ==
  /\ child.state = "none" /\ tool \in {"ash", "script"} /\ binary = "missing"
  /\ Records
  /\ IF tool = "ash" THEN Retry ELSE Finish("error")
  /\ UNCHANGED <<binary, ash, told, calls, line, forced, ran, holder>>

Call ==
  \/ \E l \in Lines : Forced(l) \/ Whitelisted(l)
  \/ \E l \in Lines : \E content \in BOOLEAN : RunAshScript(l, content)
  \/ Paused

\* What the front end and the processes do by themselves.
Progress ==
  Spawn \/ Part \/ Exits \/ Kill \/ AshDone \/ SystemDone \/ ScriptDone \/ SpawnError

Next ==
  \/ \E b \in {"ash", "other", "missing"} : DiscoverFrom(b)
  \/ BuildTools \/ Call \/ Progress \/ Tick \/ HolderEnds

\* The front end runs and time passes; a process left behind may never end.
Fairness == WF_vars(Progress) /\ WF_vars(Tick)
Spec == Init /\ [][Next]_vars /\ Fairness

-----------------------------------------------------------------------------
\* ash was gone before it was started: "ash is absent".
Vanished(run) == ~run.spawned

\* ash ran, ended by itself, reported a failure to start and no refusal.
StartFailed(run) ==
  /\ run.spawned /\ ~run.killed /\ run.code = "other"
  /\ "pre_exec" \in run.marks /\ "denied" \notin run.marks

\* The sandbox comes first and its verdict is final (tools.rs:132-137).  A tool
\* that was told of ash never gives a command to the system shell without
\* approval before ash has had its turn, and after it only in two cases.  Either
\* ash was gone when it was to be started (shell_exec.rs:207-210), and then
\* nothing of the line has run on it; or ash ended by itself, not with success,
\* with a failure to start and no refusal in its output.  A line that
\* succeeded, failed for itself, was refused in part or had to be killed is
\* never given on.  That the failure to start may be the words of a command
\* which ran is not ruled out here: EffectsOnce, which the code violates, is
\* about that case.  Without ash told of, ash runs nothing.
SandboxDecides ==
  /\ (tool = "system" /\ ~forced) =>
       /\ told = "present" => ended # <<>>
       /\ \A i \in DOMAIN ended : Vanished(ended[i]) \/ StartFailed(ended[i])
       /\ (\E i \in DOMAIN ended : Vanished(ended[i])) =>
            \A j \in DOMAIN ran : ran[j].track = "system"
  /\ tool \in {"ash", "script"} => told = "present" /\ ended = <<>>

\* A tool call returns at its timeout, or its fallback's, unless a process that
\* the killed child left behind keeps the pipes.
ToolReturns == (tool # "idle") ~> (tool = "idle" \/ holder)

\* A command is only retried when ash "could not even start" it, with "zero side
\* effects" (tools.rs, at RunCommand): no part of a line is started twice.
EffectsOnce ==
  \A i, j \in DOMAIN ran : i # j => ran[i].part # ran[j].part

=============================================================================
