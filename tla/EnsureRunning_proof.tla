------------------------ MODULE EnsureRunning_proof -------------------------
(***************************************************************************)
(* However many callers race to start a process, and however long it takes *)
(* within its allowance: a single daemon serves, and unless something      *)
(* fails by itself every caller gets the url.                              *)
(*                                                                         *)
(* The second half is a race against the clock.  The argument: while        *)
(* nothing is ready, every process is still loading, and each caller that   *)
(* waits has a process at least as old as its own wait; a loading process   *)
(* is never older than StartTicks, which is less than any deadline.         *)
(***************************************************************************)
EXTENDS EnsureRunning, TLAPS, FiniteSetTheorems

States == {"idle", "probe", "spawn", "wait", "ok", "none"}
Proc == [state : {"loading", "ready", "exited"}, age : Nat]

TypeOK ==
  /\ kind \in {"aaid", "service"} /\ aligned \in BOOLEAN /\ trouble \in BOOLEAN
  /\ uses \in [Callers -> ClientCalls \cup ServiceCalls]
  /\ call \in [Callers -> States]
  /\ clock \in [Callers -> Nat]
  /\ procs \in Seq(Proc)

\* The address is bound once.
OneBinds == kind = "aaid" => \A p, q \in Ready : p = q

\* Nothing has failed, and what is probed is where the processes listen.
Smooth == ~trouble /\ aligned

\* A process that loads does so within its allowance, and none has left while
\* no other one serves.
StartsInTime ==
  /\ \A p \in DOMAIN procs : procs[p].state = "loading" => procs[p].age <= StartTicks
  /\ Ready = {} => \A p \in DOMAIN procs : procs[p].state = "loading"

\* A caller that waits has waited no longer than some process has been loading.
WaitCovered(c) ==
  call[c] = "wait" =>
    /\ clock[c] <= StartTicks
    /\ Ready = {} => \E p \in DOMAIN procs : clock[c] <= procs[p].age

EnsureInv ==
  /\ TypeOK
  /\ OneBinds
  /\ Smooth => /\ StartsInTime
               /\ \A c \in Callers : call[c] # "none" /\ WaitCovered(c)

\* One daemon and no caller without a url is what the invariant comes to.
LEMMA InvServes == EnsureInv => RacersServed
<1> SUFFICES ASSUME EnsureInv PROVE RacersServed
  OBVIOUS
<1>1. ASSUME kind = "aaid" PROVE Cardinality(Ready) <= 1
  <2>1. CASE Ready = {}
    BY <2>1, FS_EmptySet
  <2>2. ASSUME NEW p \in Ready PROVE Cardinality(Ready) <= 1
    <3>1. Ready = {p}
      BY <1>1, <2>2 DEF EnsureInv, OneBinds
    <3>2. Cardinality(Ready) = 1
      BY <3>1, FS_Singleton
    <3> QED BY <3>2
  <2> QED BY <2>1, <2>2
<1> QED BY <1>1 DEF EnsureInv, Smooth, RacersServed

\* A waiting caller's deadline is not over.
LEMMA NotExpired ==
  ASSUME EnsureInv, EnsureAssumption, Smooth, NEW c \in Callers, call[c] = "wait"
  PROVE  ~Timeup(c)
<1>1. clock[c] <= StartTicks /\ clock[c] \in Nat
  BY DEF EnsureInv, TypeOK, WaitCovered
<1>2. uses[c] \in ClientCalls \cup ServiceCalls
  BY DEF EnsureInv, TypeOK
<1>3. StartTicks < Deadline[uses[c]] /\ Deadline[uses[c]] \in Nat /\ StartTicks \in Nat
  BY <1>2 DEF EnsureAssumption
<1> QED BY <1>1, <1>3 DEF Timeup

\* Before any process has looked, no daemon is started.
LEMMA InitInv == Init => EnsureInv
<1> SUFFICES ASSUME Init PROVE EnsureInv
  OBVIOUS
<1>1. procs = <<>> /\ procs \in Seq(Proc) /\ DOMAIN procs = {}
  BY DEF Init
<1>2. Ready = {}
  BY <1>1 DEF Ready
<1>3. TypeOK
  BY <1>1 DEF Init, TypeOK, States
<1>4. \A c \in Callers : call[c] = "idle"
  BY DEF Init
<1> QED BY <1>1, <1>2, <1>3, <1>4 DEF EnsureInv, OneBinds, StartsInTime, WaitCovered

\* What a caller does beside the processes: it moves, its clock starts again,
\* and if it begins to wait there is a process it covers.
LEMMA CallerMoves ==
  ASSUME EnsureInv, EnsureAssumption, NEW c \in Callers, NEW s \in States \ {"wait"}, Goto(c, s),
         UNCHANGED <<setup, procs>>, trouble' \in BOOLEAN, trouble => trouble',
         s = "none" => trouble' \/ ~aligned
  PROVE  EnsureInv'
<1>1. TypeOK'
  BY DEF EnsureInv, TypeOK, Goto, setup
<1>2. Ready' = Ready
  BY DEF Ready
<1>3. OneBinds'
  BY <1>2 DEF EnsureInv, OneBinds, setup
<1>4. ASSUME Smooth' PROVE StartsInTime' /\ \A d \in Callers : call'[d] # "none" /\ WaitCovered(d)'
  <2>1. Smooth /\ s # "none"
    BY <1>4 DEF Smooth, setup
  <2>2. StartsInTime'
    BY <1>2, <2>1 DEF EnsureInv, StartsInTime
  <2>3. \A d \in Callers : IF d = c THEN call'[d] = s
                           ELSE call'[d] = call[d] /\ clock'[d] = clock[d]
    BY DEF EnsureInv, TypeOK, Goto
  <2> QED BY <1>2, <2>1, <2>2, <2>3 DEF EnsureInv, WaitCovered
<1> QED BY <1>1, <1>3, <1>4 DEF EnsureInv

\* A spawned process joins the others, and its caller begins to wait with it.
LEMMA SpawnInv ==
  ASSUME EnsureInv, EnsureAssumption, NEW c \in Callers, Spawn(c)
  PROVE  EnsureInv'
<1> DEFINE n == [state |-> "loading", age |-> 0]
<1>1. /\ n \in Proc /\ n.state = "loading" /\ n.age = 0
      /\ procs \in Seq(Proc) /\ procs' = Append(procs, n)
  BY DEF Proc, EnsureInv, TypeOK, Spawn
<1> HIDE DEF n
<1>2. /\ procs' \in Seq(Proc) /\ DOMAIN procs' = DOMAIN procs \cup {Len(procs) + 1}
      /\ \A p \in DOMAIN procs : procs'[p] = procs[p]
      /\ procs'[Len(procs) + 1] = n
      /\ DOMAIN procs = 1..Len(procs) /\ Len(procs) \in Nat
  BY <1>1
<1>3. Ready' = Ready
  BY <1>1, <1>2 DEF Ready
<1>4. TypeOK'
  BY <1>2 DEF EnsureInv, TypeOK, Spawn, Goto, setup, States
<1>5. OneBinds'
  BY <1>3 DEF EnsureInv, OneBinds, Spawn, setup
<1>6. ASSUME Smooth' PROVE StartsInTime' /\ \A d \in Callers : call'[d] # "none" /\ WaitCovered(d)'
  <2>1. Smooth /\ StartTicks \in Nat
    BY <1>6 DEF Smooth, setup, Spawn, EnsureAssumption
  <2>2. StartsInTime'
    BY <1>1, <1>2, <1>3, <2>1 DEF EnsureInv, StartsInTime
  <2>3. \A d \in Callers : IF d = c THEN call'[d] = "wait" /\ clock'[d] = 0
                           ELSE call'[d] = call[d] /\ clock'[d] = clock[d]
    BY DEF EnsureInv, TypeOK, Spawn, Goto
  <2>4. WaitCovered(c)'
    <3>1. procs'[Len(procs) + 1].age = 0 /\ Len(procs) + 1 \in DOMAIN procs'
      BY <1>1, <1>2
    <3>2. clock'[c] = 0
      BY <2>3
    <3> QED BY <2>1, <3>1, <3>2 DEF WaitCovered
  <2>5. ASSUME NEW d \in Callers, d # c PROVE call'[d] # "none" /\ WaitCovered(d)'
    <3>1. call'[d] = call[d] /\ clock'[d] = clock[d] /\ call[d] # "none" /\ WaitCovered(d)
      BY <2>1, <2>3, <2>5 DEF EnsureInv
    <3> QED BY <1>2, <1>3, <3>1 DEF WaitCovered
  <2> QED BY <2>2, <2>3, <2>4, <2>5
<1> QED BY <1>4, <1>5, <1>6 DEF EnsureInv

\* The callers' other steps.
LEMMA CallerInv ==
  ASSUME EnsureInv, EnsureAssumption, NEW c \in Callers, Ensure(c) \/ Caller(c)
  PROVE  EnsureInv'
<1>t. trouble \in BOOLEAN /\ {"probe", "ok", "spawn", "none"} \subseteq States \ {"wait"}
  BY DEF EnsureInv, TypeOK, States
<1>1. CASE Ensure(c)
  <2>1. Goto(c, "probe") /\ UNCHANGED <<setup, procs, trouble>>
    BY <1>1 DEF Ensure
  <2> QED BY <1>t, <2>1, CallerMoves
<1>2. CASE Probe(c)
  <2>1. PICK s \in {"ok", "spawn"} : Goto(c, s) /\ UNCHANGED <<setup, procs, trouble>>
    BY <1>2 DEF Probe
  <2> QED BY <1>t, <2>1, CallerMoves
<1>3. CASE GivesUp(c)
  <2>1. Goto(c, "none") /\ UNCHANGED <<setup, procs>> /\ trouble' = TRUE
    BY <1>3 DEF GivesUp
  <2> QED BY <1>t, <2>1, CallerMoves
<1>4. CASE Spawn(c)
  BY <1>4, SpawnInv
<1>5. CASE Poll(c)
  <2>1. Goto(c, "ok") /\ UNCHANGED <<setup, procs, trouble>>
    BY <1>5 DEF Poll
  <2> QED BY <1>t, <2>1, CallerMoves
<1>6. CASE Expired(c)
  <2>1. Goto(c, "none") /\ UNCHANGED <<setup, procs, trouble>>
    BY <1>6 DEF Expired
  <2>2. ~Smooth
    BY <1>6, NotExpired DEF Expired
  <2>3. trouble \/ ~aligned
    BY <2>2 DEF Smooth
  <2> QED BY <1>t, <2>1, <2>3, CallerMoves
<1> QED BY <1>1, <1>2, <1>3, <1>4, <1>5, <1>6 DEF Caller, NoBinary, NoDirectory, SpawnFails

\* A process that comes up or goes.
LEMMA ProcessInv ==
  ASSUME EnsureInv, NEW p \in DOMAIN procs, Process(p) \/ Dies(p)
  PROVE  EnsureInv'
<1>1. PICK s \in {"ready", "exited"} :
        /\ procs' = [procs EXCEPT ![p] = [state |-> s, age |-> 0]]
        /\ s = "ready" => kind = "service" \/ Ready = {}
        /\ s = "exited" => trouble' = TRUE \/ (Ready # {} /\ procs[p].state = "loading")
        /\ trouble' = trouble \/ trouble' = TRUE
  <2>0. trouble \in BOOLEAN /\ kind \in {"aaid", "service"}
    BY DEF EnsureInv, TypeOK
  <2>1. CASE Listens(p)
    <3>1. UNCHANGED trouble /\ procs[p].state = "loading"
      BY <2>1 DEF Listens
    <3>2. CASE kind = "aaid" /\ Ready # {}
      <4>1. procs' = [procs EXCEPT ![p] = [state |-> "exited", age |-> 0]]
        BY <2>1, <3>2 DEF Listens, Becomes
      <4> QED BY <2>0, <3>1, <3>2, <4>1
    <3>3. CASE ~(kind = "aaid" /\ Ready # {})
      <4>1. procs' = [procs EXCEPT ![p] = [state |-> "ready", age |-> 0]]
        BY <2>1, <3>3 DEF Listens, Becomes
      <4> QED BY <2>0, <3>1, <3>3, <4>1
    <3> QED BY <3>2, <3>3
  <2>2. CASE Dies(p)
    <3>1. procs' = [procs EXCEPT ![p] = [state |-> "exited", age |-> 0]] /\ trouble' = TRUE
      BY <2>2 DEF Dies, Becomes
    <3> QED BY <3>1
  <2> QED BY <2>1, <2>2 DEF Process
<1>2. UNCHANGED <<setup, call, clock>>
  BY DEF Process, Listens, Dies
<1>3. /\ procs' \in Seq(Proc) /\ DOMAIN procs' = DOMAIN procs
      /\ \A q \in DOMAIN procs : q # p => procs'[q] = procs[q]
      /\ procs'[p].state = s
  <2>1. [state |-> s, age |-> 0] \in Proc
    BY DEF Proc
  <2> QED BY <1>1, <2>1 DEF EnsureInv, TypeOK
<1>4. TypeOK'
  BY <1>1, <1>2, <1>3 DEF EnsureInv, TypeOK, setup
<1>5. Ready' = IF s = "ready" THEN Ready \cup {p} ELSE Ready \ {p}
  BY <1>3 DEF Ready
<1>6. OneBinds'
  BY <1>1, <1>2, <1>5 DEF EnsureInv, OneBinds, setup
<1>7. ASSUME Smooth' PROVE StartsInTime' /\ \A c \in Callers : call'[c] # "none" /\ WaitCovered(c)'
  <2>1. Smooth
    BY <1>1, <1>2, <1>7 DEF Smooth, setup
  <2>2. Ready' # {}
    <3>1. CASE s = "ready"
      BY <1>5, <3>1
    <3>2. CASE s = "exited"
      <4>1. Ready # {} /\ p \notin Ready
        BY <1>1, <1>7, <3>2 DEF Smooth, Ready
      <4> QED BY <1>5, <3>2, <4>1
    <3> QED BY <3>1, <3>2
  <2>3. StartsInTime'
    BY <1>3, <2>1, <2>2 DEF EnsureInv, StartsInTime
  <2> QED BY <1>2, <2>1, <2>2, <2>3 DEF EnsureInv, WaitCovered
<1> QED BY <1>4, <1>6, <1>7 DEF EnsureInv

\* Time passes: with nothing ready every process ages with its callers.
LEMMA TickInv ==
  ASSUME EnsureInv, EnsureAssumption, Tick
  PROVE  EnsureInv'
<1>1. /\ UNCHANGED <<setup, call, trouble>>
      /\ clock' = [c \in Callers |-> IF Waiting(c) THEN clock[c] + 1 ELSE clock[c]]
      /\ procs' = [p \in DOMAIN procs |->
                    IF procs[p].state = "loading" /\ procs[p].age < StartTicks
                    THEN [procs[p] EXCEPT !.age = @ + 1] ELSE procs[p]]
  BY DEF Tick
<1>2. procs \in Seq(Proc) /\ clock \in [Callers -> Nat] /\ StartTicks \in Nat
  BY DEF EnsureInv, TypeOK, EnsureAssumption
<1>3. ASSUME NEW p \in DOMAIN procs
      PROVE  /\ procs'[p] \in Proc /\ procs'[p].state = procs[p].state
             /\ (procs[p].state = "loading" /\ procs[p].age < StartTicks)
                  => procs'[p].age = procs[p].age + 1
             /\ ~(procs[p].state = "loading" /\ procs[p].age < StartTicks)
                  => procs'[p].age = procs[p].age
  <2>1. procs[p] \in Proc
    BY <1>2
  <2> QED BY <1>1, <2>1 DEF Proc
<1>4. DOMAIN procs' = DOMAIN procs /\ procs' \in Seq(Proc)
  <2>1. DOMAIN procs = 1..Len(procs) /\ Len(procs) \in Nat
    BY <1>2
  <2>2. procs' \in [1..Len(procs) -> Proc]
    BY <1>1, <1>3, <2>1
  <2> QED BY <2>1, <2>2
<1>5. clock' \in [Callers -> Nat]
  BY <1>1, <1>2
<1>6. TypeOK'
  BY <1>1, <1>4, <1>5 DEF EnsureInv, TypeOK, setup
<1>7. Ready' = Ready
  BY <1>3, <1>4 DEF Ready
<1>8. OneBinds'
  BY <1>1, <1>7 DEF EnsureInv, OneBinds, setup
<1>9. ASSUME Smooth' PROVE StartsInTime' /\ \A c \in Callers : call'[c] # "none" /\ WaitCovered(c)'
  <2>1. Smooth /\ Ready = {}
    BY <1>1, <1>9 DEF Smooth, setup, Tick, Waiting, Reachable
  <2>2. \A p \in DOMAIN procs : /\ procs[p].state = "loading" /\ procs[p].age < StartTicks
                                /\ procs[p].age \in Nat
    <3>1. \A p \in DOMAIN procs : procs[p].state = "loading" /\ procs[p] \in Proc
      BY <1>2, <2>1 DEF EnsureInv, StartsInTime
    <3>2. \A p \in DOMAIN procs : procs[p].age < StartTicks
      BY <2>1, <3>1 DEF Tick, Smooth
    <3> QED BY <3>1, <3>2 DEF Proc
  <2>3. \A p \in DOMAIN procs : procs'[p].age = procs[p].age + 1 /\ procs'[p].state = "loading"
    BY <1>3, <2>2
  <2>4. StartsInTime'
    BY <1>2, <1>4, <2>2, <2>3 DEF StartsInTime
  <2>5. ASSUME NEW c \in Callers PROVE call'[c] # "none" /\ WaitCovered(c)'
    <3>1. call'[c] = call[c] /\ call[c] # "none" /\ WaitCovered(c)
      BY <1>1, <2>1 DEF EnsureInv
    <3>2. CASE call[c] = "wait"
      <4>1. PICK p \in DOMAIN procs : clock[c] <= procs[p].age
        BY <2>1, <3>1, <3>2 DEF WaitCovered
      <4>2. clock'[c] \in {clock[c], clock[c] + 1} /\ clock[c] \in Nat
        BY <1>1, <1>2
      <4>3. clock'[c] <= procs'[p].age /\ procs'[p].age <= StartTicks
        BY <1>2, <2>2, <2>3, <4>1, <4>2
      <4>4. clock'[c] <= StartTicks
        BY <1>2, <2>2, <2>3, <4>2, <4>3
      <4> QED BY <1>4, <3>1, <4>3, <4>4 DEF WaitCovered
    <3> QED BY <3>1, <3>2 DEF WaitCovered
  <2> QED BY <2>4, <2>5
<1> QED BY <1>6, <1>8, <1>9 DEF EnsureInv

\* The conjunction is an invariant of the callers and what they start.
THEOREM EnsureInvariant == Spec => []EnsureInv
<1>1. Init => EnsureInv
  BY InitInv
<1>2. EnsureInv /\ [Next]_vars => EnsureInv'
  <2> SUFFICES ASSUME EnsureInv, [Next]_vars PROVE EnsureInv'
    OBVIOUS
  <2>1. ASSUME NEW c \in Callers, Ensure(c) \/ Caller(c) PROVE EnsureInv'
    BY <2>1, EnsureAssumption, CallerInv
  <2>2. ASSUME NEW p \in DOMAIN procs, Process(p) \/ Dies(p) PROVE EnsureInv'
    BY <2>2, ProcessInv
  <2>3. CASE Slow
    <3>1. UNCHANGED <<kind, uses, aligned, call, clock, procs>> /\ trouble' = TRUE
      BY <2>3 DEF Slow, setup
    <3> QED BY <3>1 DEF EnsureInv, TypeOK, OneBinds, Ready, Smooth
  <2>4. CASE Tick
    BY <2>4, EnsureAssumption, TickInv
  <2>5. CASE UNCHANGED vars
    BY <2>5 DEF vars, setup, EnsureInv, TypeOK, OneBinds, Ready, Smooth, StartsInTime, WaitCovered
  <2> QED BY <2>1, <2>2, <2>3, <2>4, <2>5 DEF Next
<1> QED BY <1>1, <1>2, PTL DEF Spec

\* A single daemon serves, and every caller gets the url unless something fails
\* by itself: for any number of callers, functions and deadlines.
THEOREM RacersSafe == Spec => []RacersServed
BY EnsureInvariant, InvServes, PTL
=============================================================================
