---------------------------- MODULE EnsureRunning ----------------------------
(***************************************************************************)
(* Starting a process on demand: the client library's ensure_daemon (probe *)
(* the URL, find the binary, spawn it detached, poll until a deadline) and *)
(* the daemon's ServiceRegistry::ensure, which does the same for web       *)
(* services.  Callers are processes, or requests, unaware of each other;   *)
(* each uses one of the functions there are for it, in the hand-written or *)
(* the transpiled crate, which differ in how they wait.                    *)
(* The daemon binds one address and exits when it is taken; what a service *)
(* does then is its own affair (external: it may listen elsewhere).        *)
(* A tick is a second or so: shorter than a deadline, longer than a poll.  *)
(***************************************************************************)
EXTENDS Integers, Sequences, FiniteSets

CONSTANTS
  Callers,
  Used,         \* bound: the functions the callers choose from
  MaxCalls,     \* bound: calls of ensure per caller
  StartTicks,   \* a healthy process answers at most so long after its spawn
  Deadline      \* by function: 3 s or, async, 10 s for the daemon, 15 s for a service

\* ensure_daemon and ensure_daemon_async of either client crate, and ensure of
\* the service registry, which the two daemons share but for their handlers.
ClientCalls == {"ensure_daemon", "ensure_daemon_async", "a2r", "a2r_async"}
ServiceCalls == {"service"}

\* Those that probe once more before they look at the clock; the others look at
\* the clock, sleep and then probe.
PollsFirst == {"ensure_daemon_async", "a2r_async"}

ASSUME EnsureAssumption ==
  /\ Used \subseteq ClientCalls \cup ServiceCalls
  /\ StartTicks \in Nat
  /\ Deadline \in [ClientCalls \cup ServiceCalls -> Nat]
  /\ \A f \in DOMAIN Deadline : StartTicks < Deadline[f]

VARIABLES
  kind,      \* what is ensured: "aaid" or "service"
  uses,      \* the function each caller uses
  aligned,   \* whether the url that is probed is where the process listens
  call,      \* "idle", "probe", "spawn", "wait"; "ok" (a url) or "none"
  calls,     \* calls made
  clock,     \* ticks since the caller's spawn, 0 once it stopped waiting
  procs,     \* processes spawned, in order: [state, age]
  trouble    \* something failed by itself: the promises are off

setup == <<kind, uses, aligned>>
vars == <<setup, call, calls, clock, procs, trouble>>

Ready == {p \in DOMAIN procs : procs[p].state = "ready"}

\* What a probe can reach.  $AAID_URL moves the url, for one, and is not passed
\* on to the daemon that is spawned.
Reachable == IF aligned THEN Ready ELSE {}
Answered == {"ok", "none"}

Init ==
  /\ kind \in {"aaid", "service"} /\ aligned \in BOOLEAN
  /\ uses \in [Callers -> Used \cap (IF kind = "aaid" THEN ClientCalls ELSE ServiceCalls)]
  /\ call = [c \in Callers |-> "idle"] /\ calls = [c \in Callers |-> 0]
  /\ clock = [c \in Callers |-> 0]
  /\ procs = <<>> /\ trouble = FALSE

Goto(c, state) ==
  call' = [call EXCEPT ![c] = state] /\ clock' = [clock EXCEPT ![c] = 0]

Ensure(c) ==
  /\ call[c] \in {"idle"} \cup Answered /\ calls[c] < MaxCalls
  /\ Goto(c, "probe") /\ calls' = [calls EXCEPT ![c] = @ + 1]
  /\ UNCHANGED <<setup, procs, trouble>>

\* is_running: a success within 500 ms.  A busy server may answer too late,
\* which looks like none.
Probe(c) ==
  /\ call[c] = "probe"
  /\ \/ Reachable # {} /\ Goto(c, "ok")
     \/ Goto(c, "spawn")
  /\ UNCHANGED <<setup, calls, procs, trouble>>

GivesUp(c) ==
  /\ call[c] = "spawn"
  /\ Goto(c, "none") /\ trouble' = TRUE
  /\ UNCHANGED <<setup, calls, procs>>

\* No binary in $AAID_PATH, $PATH or the places it is built in.
NoBinary(c) == kind = "aaid" /\ GivesUp(c)

\* No directory of that service in a parent directory.
NoDirectory(c) == kind = "service" /\ GivesUp(c)

\* The command could not be started.
SpawnFails(c) == GivesUp(c)

Spawn(c) ==
  /\ call[c] = "spawn"
  /\ Goto(c, "wait")
  /\ procs' = Append(procs, [state |-> "loading", age |-> 0])
  /\ UNCHANGED <<setup, calls, trouble>>

Poll(c) ==
  /\ call[c] = "wait" /\ Reachable # {}
  /\ Goto(c, "ok")
  /\ UNCHANGED <<setup, calls, procs, trouble>>

Timeup(c) == clock[c] = Deadline[uses[c]]

\* Faulty variant: the deadline is checked only while nothing answers at all.
ExpiredIfAlone(c) ==
  /\ call[c] = "wait" /\ Timeup(c) /\ Len(procs) = 1 /\ Goto(c, "none")
  /\ UNCHANGED <<setup, calls, procs, trouble>>

\* The deadline has passed; who polls first found nothing, or too late.
Expired(c) ==
  /\ call[c] = "wait" /\ Timeup(c)
  /\ uses[c] \in PollsFirst => Reachable = {} \/ trouble
  /\ Goto(c, "none")
  /\ UNCHANGED <<setup, calls, procs, trouble>>

-----------------------------------------------------------------------------
(* The spawned processes. *)

Becomes(p, state) == procs' = [procs EXCEPT ![p] = [state |-> state, age |-> 0]]

\* Faulty variant: the address can be shared.
ListensShared(p) ==
  /\ procs[p].state = "loading"
  /\ Becomes(p, "ready")
  /\ UNCHANGED <<setup, call, calls, clock, trouble>>

\* main: bind, or panic when the address is taken.
Listens(p) ==
  /\ procs[p].state = "loading"
  /\ Becomes(p, IF kind = "aaid" /\ Ready # {} THEN "exited" ELSE "ready")
  /\ UNCHANGED <<setup, call, calls, clock, trouble>>

\* No provider configured, an unreadable config; or a running one is killed.
Dies(p) ==
  /\ procs[p].state # "exited"
  /\ Becomes(p, "exited") /\ trouble' = TRUE
  /\ UNCHANGED <<setup, call, calls, clock>>

\* A process takes longer than StartTicks, or a poll is answered too late.
Slow == ~trouble /\ trouble' = TRUE /\ UNCHANGED <<setup, call, calls, clock, procs>>

Waiting(c) == call[c] = "wait" /\ clock[c] < Deadline[uses[c]]

\* Polls and starts are faster than ticks unless there is trouble.
Tick ==
  /\ \E c \in Callers : Waiting(c)
  /\ \A c \in Callers : call[c] = "wait" => Waiting(c) /\ (Reachable = {} \/ trouble)
  /\ \A p \in DOMAIN procs :
       procs[p].state = "loading" => procs[p].age < StartTicks \/ trouble
  /\ clock' = [c \in Callers |-> IF Waiting(c) THEN clock[c] + 1 ELSE clock[c]]
  /\ procs' = [p \in DOMAIN procs |->
                IF procs[p].state = "loading" /\ procs[p].age < StartTicks
                THEN [procs[p] EXCEPT !.age = @ + 1] ELSE procs[p]]
  /\ UNCHANGED <<setup, call, calls, trouble>>

Caller(c) == Probe(c) \/ NoBinary(c) \/ NoDirectory(c) \/ SpawnFails(c) \/ Spawn(c) \/ Poll(c) \/ Expired(c)
Process(p) == Listens(p)

Next ==
  \/ \E c \in Callers : Ensure(c) \/ Caller(c)
  \/ \E p \in DOMAIN procs : Process(p) \/ Dies(p)
  \/ Slow \/ Tick

\* The callers run, time passes, and a process that is not killed starts.
Fairness ==
  /\ \A c \in Callers : WF_vars(Caller(c))
  /\ \A p \in 1..Cardinality(Callers) * MaxCalls :
       WF_vars(p \in DOMAIN procs /\ Process(p))
  /\ WF_vars(Tick)

Spec == Init /\ [][Next]_vars /\ Fairness

-----------------------------------------------------------------------------
\* However many callers find no server and start one: a single daemon serves,
\* and unless something fails by itself, or nothing ever listens at the url that
\* is probed, every caller gets the url, by whichever function it asks.
RacersServed ==
  /\ kind = "aaid" => Cardinality(Ready) <= 1
  /\ ~trouble /\ aligned => \A c \in Callers : call[c] # "none"

Loading(p) == p \in DOMAIN procs /\ procs[p].state = "loading"

\* Every call returns by its deadline, whatever the processes do, and every
\* process started ends up serving or gone.
EnsureReturns ==
  /\ \A c \in Callers : call[c] = "probe" ~> call[c] \in Answered
  /\ \A p \in 1..Cardinality(Callers) * MaxCalls :
       Loading(p) ~> p \in DOMAIN procs /\ ~Loading(p)
=============================================================================
