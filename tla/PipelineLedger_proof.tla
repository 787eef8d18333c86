------------------------- MODULE PipelineLedger_proof -------------------------
(***************************************************************************)
(* Proofs about the pipeline, for every set of flows and any number of     *)
(* calls of the application.  The reference driver: what each engine       *)
(* operation does to an engine in order, stated as lemmas on its fields;   *)
(* the inductive invariant IInv, action by action; its consequences.  The  *)
(* two editions: the transpiled engine's operations are the reference's on *)
(* every engine in order, so that IInv carries over to the transpiled      *)
(* driver, and every step of that driver is one of the reference's or its  *)
(* extra round.  Last the ledger kept beside either.                       *)
(***************************************************************************)
EXTENDS PipelineLedger, WellFoundedInduction, TLAPS

\* The engines of a flow.
EngineOf(f) ==
  [flow : {f}, step : 1..(Len(f) + 1), status : Statuses,
   pending : {Missing} \cup DOMAIN f, resolved : {Missing} \cup DOMAIN f,
   loops : [DOMAIN f -> Nat], history : Seq(DOMAIN f)]

\* A running step exists and has passed its gate; a waiting engine waits for
\* the gate of the step it stands at, which is not decided.
InOrder(e) ==
  /\ e.status = "running" => /\ e.step \in DOMAIN e.flow
                             /\ e.flow[e.step].gate = "human" => e.resolved = e.step
  /\ e.status = "waiting" => /\ e.step \in DOMAIN e.flow /\ e.pending = e.step
                             /\ e.flow[e.step].gate = "human" /\ e.resolved # e.step

\* Successor and HistoryIsWalk of an engine given by name.
After(e, s) ==
  LET x == e.flow[s] IN
  IF x.exit = "next" THEN s + 1 ELSE IF x.target \in DOMAIN e.flow THEN x.target ELSE s
Walk(e) ==
  /\ e.history # <<>> => e.history[1] = 1
  /\ \A i \in 1..Len(e.history) - 1 : e.history[i + 1] = After(e, e.history[i])
  /\ e.step = IF e.history = <<>> THEN 1 ELSE After(e, e.history[Len(e.history)])

\* e2 differs from e in status and pending at most.
SamePlace(e2, e) ==
  /\ e2.flow = e.flow
  /\ e2.step = e.step
  /\ e2.history = e.history
  /\ e2.loops = e.loops
  /\ e2.resolved = e.resolved

-----------------------------------------------------------------------------
(* The engine's operations *)

\* advance leaves idle and running engines in order, where they were.
LEMMA AdvanceFacts ==
  ASSUME NEW f \in Seq(FlowSteps), NEW e \in EngineOf(f), e.status \in {"idle", "running"}
  PROVE  /\ Advance(e) \in EngineOf(f)
         /\ InOrder(Advance(e))
         /\ SamePlace(Advance(e), e)
         /\ Advance(e).status \in {"running", "waiting", "completed"}
<1>1. CASE e.step > Len(e.flow)
  <2>1. Advance(e) = [e EXCEPT !.status = "completed"]
    BY <1>1 DEF Advance
  <2>2. QED  BY <2>1 DEF EngineOf, InOrder, SamePlace, Statuses
<1>2. CASE e.step <= Len(e.flow)
  <2>0. e.flow = f /\ e.step \in DOMAIN f /\ e.step \in 1..Len(f)
    BY <1>2 DEF EngineOf
  <2>1. CASE e.flow[e.step].gate = "human" /\ e.resolved # e.step
    <3>1. Advance(e) = [e EXCEPT !.status = "waiting", !.pending = e.step]
      BY <1>2, <2>0, <2>1 DEF Advance, EngineOf
    <3>2. /\ Advance(e).status = "waiting" /\ Advance(e).pending = e.step
          /\ SamePlace(Advance(e), e)
      BY <3>1 DEF EngineOf, SamePlace
    <3>3. Advance(e) \in EngineOf(f)
      BY <2>0, <3>1 DEF EngineOf, Statuses
    <3>4. InOrder(Advance(e))
      BY <2>0, <2>1, <3>2 DEF InOrder, SamePlace
    <3>5. QED  BY <3>2, <3>3, <3>4
  <2>2. CASE ~(e.flow[e.step].gate = "human" /\ e.resolved # e.step)
    <3>1. Advance(e) = [e EXCEPT !.status = "running"]
      BY <1>2, <2>0, <2>2 DEF Advance, EngineOf
    <3>2. QED  BY <2>0, <2>2, <3>1 DEF EngineOf, InOrder, SamePlace, Statuses
  <2>3. QED  BY <2>1, <2>2
<1>3. QED  BY <1>1, <1>2 DEF EngineOf

\* advance on any engine in order.
LEMMA AdvanceInOrder ==
  ASSUME NEW f \in Seq(FlowSteps), NEW e \in EngineOf(f), InOrder(e)
  PROVE  /\ Advance(e) \in EngineOf(f)
         /\ InOrder(Advance(e))
         /\ SamePlace(Advance(e), e)
         /\ \/ Advance(e) = e
            \/ /\ e.status \in {"idle", "running"}
               /\ Advance(e).status \in {"running", "waiting", "completed"}
         /\ Advance(e).status # "idle"
<1>1. CASE e.status \in {"idle", "running"}
  BY <1>1, AdvanceFacts
<1>2. CASE e.status \notin {"idle", "running"}
  BY <1>2 DEF Advance, SamePlace
<1>3. QED  BY <1>1, <1>2

\* An engine moved to a step of its flow, or past the last, is one of its engines.
Moved(e2, e, k, st) ==
  /\ e2.flow = e.flow /\ e2.step = k /\ e2.status = st
  /\ e2.loops = e.loops /\ e2.resolved = e.resolved /\ e2.history = e.history

\* The three orders in which the code sets step and status come to the same.
LEMMA MovedFacts ==
  ASSUME NEW f \in Seq(FlowSteps), NEW e \in EngineOf(f), NEW k \in 1..(Len(f) + 1), NEW st \in Statuses
  PROVE  /\ [e EXCEPT !.step = k] \in EngineOf(f)
         /\ Moved([e EXCEPT !.step = k], e, k, e.status)
         /\ [e EXCEPT !.step = k, !.status = st] \in EngineOf(f)
         /\ Moved([e EXCEPT !.step = k, !.status = st], e, k, st)
         /\ [e EXCEPT !.status = st, !.step = k] \in EngineOf(f)
         /\ Moved([e EXCEPT !.status = st, !.step = k], e, k, st)
BY DEF EngineOf, Moved

\* What submit_handoff leaves of a running engine: the step recorded, its gate
\* decision spent, the engine at the step's successor, and a loop that reached
\* its bound stopped.
Submitted(e2, e) ==
  /\ e2.flow = e.flow
  /\ e2.step = After(e, e.step)
  /\ e2.history = Append(e.history, e.step)
  /\ e2.resolved = Missing
  /\ e2.status # "idle"
  /\ \A t \in DOMAIN e.flow : t # e.step => e2.loops[t] = e.loops[t]
  /\ e.flow[e.step].exit = "loop" =>
       /\ e2.loops[e.step] = e.loops[e.step] + 1
       /\ e2.loops[e.step] >= e.flow[e.step].max => e2.status \in {"paused", "failed"}

\* submit_handoff, by the five ways resolve_next_step answers.
LEMMA SubmitFacts ==
  ASSUME NEW f \in Seq(FlowSteps), NEW e \in EngineOf(f), InOrder(e), e.status = "running"
  PROVE  /\ SubmitHandoff(e) \in EngineOf(f)
         /\ InOrder(SubmitHandoff(e))
         /\ Submitted(SubmitHandoff(e), e)
<1> DEFINE s == e.step
           x == f[s]
           r == [e EXCEPT !.resolved = Missing, !.history = Append(@, e.step)]
           n == e.loops[s] + 1
           counted == [r EXCEPT !.loops[s] = n]
<1>1. /\ e.flow = f /\ s \in DOMAIN f /\ s \in 1..Len(f) /\ DOMAIN f = 1..Len(f)
      /\ x \in FlowSteps /\ x.exit \in Exits /\ x.max \in Nat
      /\ x.target \in {Missing} \cup Nat /\ n \in Nat /\ Len(f) \in Nat
  <2>1. e.flow = f /\ s \in DOMAIN f
    BY DEF EngineOf, InOrder
  <2>2. DOMAIN f = 1..Len(f) /\ Len(f) \in Nat
    OBVIOUS
  <2>3. x \in FlowSteps
    BY <2>1, <2>2
  <2>4. n \in Nat
    <3>1. e.loops \in [DOMAIN f -> Nat]
      BY DEF EngineOf
    <3>2. QED  BY <2>1, <3>1
  <2>5. x.exit \in Exits /\ x.max \in Nat /\ x.target \in {Missing} \cup Nat
    BY <2>3 DEF FlowSteps
  <2>6. QED  BY <2>1, <2>2, <2>3, <2>4, <2>5
<1>2. /\ r \in EngineOf(f) /\ r.flow = f /\ r.step = s /\ r.loops = e.loops
      /\ r.resolved = Missing /\ r.history = Append(e.history, s) /\ r.status = "running"
  <2>1. e.history \in Seq(DOMAIN f)
    BY DEF EngineOf
  <2>2. Append(e.history, s) \in Seq(DOMAIN f)
    BY <1>1, <2>1
  <2>3. QED  BY <1>1, <2>2 DEF EngineOf
<1>3. /\ counted \in EngineOf(f) /\ counted.flow = f /\ counted.step = s
      /\ counted.loops = [e.loops EXCEPT ![s] = n]
      /\ counted.resolved = Missing /\ counted.history = Append(e.history, s)
      /\ counted.status = "running"
  BY <1>1, <1>2 DEF EngineOf
<1>4. /\ counted.loops[s] = n
      /\ \A t \in DOMAIN f : t # s => counted.loops[t] = e.loops[t]
  BY <1>1, <1>3 DEF EngineOf
<1>5. SubmitHandoff(e) = Route(r)
  BY DEF SubmitHandoff
<1> HIDE DEF r, counted
<1>6. CASE x.exit = "next" /\ s < Len(f)
  <2> DEFINE t == [r EXCEPT !.step = s + 1]
  <2>1. Route(r) = Advance(t)
    BY <1>1, <1>2, <1>6 DEF Route
  <2>2. /\ t \in EngineOf(f) /\ t.flow = f /\ t.step = s + 1 /\ t.loops = e.loops
        /\ t.resolved = Missing /\ t.history = Append(e.history, s) /\ t.status = "running"
    <3>1. s + 1 \in 1..(Len(f) + 1)
      BY <1>1, <1>6
    <3>2. "completed" \in Statuses /\ "paused" \in Statuses
      BY DEF Statuses
    <3>3. t \in EngineOf(f) /\ Moved(t, r, s + 1, r.status)
      BY <1>2, <3>1, <3>2, MovedFacts
    <3>4. QED  BY <1>2, <3>3 DEF Moved
  <2>3. After(e, s) = s + 1
    BY <1>1, <1>6 DEF After
  <2> HIDE DEF t
  <2>4. QED  BY <1>1, <1>5, <1>6, <2>1, <2>2, <2>3, AdvanceFacts DEF SamePlace, Submitted
<1>7. CASE x.exit = "next" /\ s = Len(f)
  <2> DEFINE t == [r EXCEPT !.step = s + 1, !.status = "completed"]
  <2>1. Route(r) = t
    BY <1>1, <1>2, <1>7 DEF Route
  <2>2. /\ t \in EngineOf(f) /\ t.flow = f /\ t.step = s + 1 /\ t.loops = e.loops
        /\ t.resolved = Missing /\ t.history = Append(e.history, s) /\ t.status = "completed"
    <3>1. s + 1 \in 1..(Len(f) + 1)
      BY <1>1, <1>7
    <3>2. "completed" \in Statuses /\ "paused" \in Statuses
      BY DEF Statuses
    <3>3. t \in EngineOf(f) /\ Moved(t, r, s + 1, "completed")
      BY <1>2, <3>1, <3>2, MovedFacts
    <3>4. QED  BY <1>2, <3>3 DEF Moved
  <2>3. After(e, s) = s + 1
    BY <1>1, <1>7 DEF After
  <2> HIDE DEF t
  <2>4. QED  BY <1>1, <1>5, <1>7, <2>1, <2>2, <2>3 DEF Submitted, InOrder
<1>8. CASE x.exit = "loop" /\ n >= x.max
  <2> DEFINE to == IF x.target \in DOMAIN f THEN x.target ELSE s
             t == [counted EXCEPT !.status = "paused", !.step = to]
  <2>1. Route(r) = t
    BY <1>1, <1>2, <1>8 DEF Route, counted
  <2>2. /\ t \in EngineOf(f) /\ t.flow = f /\ t.step = to /\ t.loops = counted.loops
        /\ t.resolved = Missing /\ t.history = Append(e.history, s) /\ t.status = "paused"
    <3>1. to \in 1..(Len(f) + 1)
      BY <1>1, <1>8
    <3>2. "completed" \in Statuses /\ "paused" \in Statuses
      BY DEF Statuses
    <3>3. t \in EngineOf(f) /\ Moved(t, counted, to, "paused")
      BY <1>3, <3>1, <3>2, MovedFacts
    <3>4. QED  BY <1>3, <3>3 DEF Moved
  <2>3. After(e, s) = to
    BY <1>1, <1>8 DEF After
  <2> HIDE DEF t, to
  <2>4. QED  BY <1>1, <1>4, <1>5, <1>8, <2>1, <2>2, <2>3 DEF Submitted, InOrder
<1>9. CASE x.exit = "loop" /\ n < x.max /\ x.target \in DOMAIN f
  <2> DEFINE t == [counted EXCEPT !.step = x.target]
  <2>1. Route(r) = Advance(t)
    BY <1>1, <1>2, <1>9 DEF Route, counted
  <2>2. /\ t \in EngineOf(f) /\ t.flow = f /\ t.step = x.target /\ t.loops = counted.loops
        /\ t.resolved = Missing /\ t.history = Append(e.history, s) /\ t.status = "running"
    <3>1. x.target \in 1..(Len(f) + 1)
      BY <1>1, <1>9
    <3>2. "completed" \in Statuses /\ "paused" \in Statuses
      BY DEF Statuses
    <3>3. t \in EngineOf(f) /\ Moved(t, counted, x.target, counted.status)
      BY <1>3, <3>1, <3>2, MovedFacts
    <3>4. QED  BY <1>3, <3>3 DEF Moved
  <2>3. After(e, s) = x.target
    BY <1>1, <1>9 DEF After
  <2> HIDE DEF t
  <2>4. QED  BY <1>1, <1>4, <1>5, <1>9, <2>1, <2>2, <2>3, AdvanceFacts DEF SamePlace, Submitted
<1>10. CASE x.exit = "loop" /\ n < x.max /\ x.target \notin DOMAIN f
  <2> DEFINE t == [counted EXCEPT !.status = "failed"]
  <2>1. Route(r) = t
    BY <1>1, <1>2, <1>10 DEF Route, counted
  <2>2. /\ t \in EngineOf(f) /\ t.flow = f /\ t.step = s /\ t.loops = counted.loops
        /\ t.resolved = Missing /\ t.history = Append(e.history, s) /\ t.status = "failed"
    BY <1>1, <1>3, <1>10 DEF EngineOf, Statuses
  <2>3. After(e, s) = s
    BY <1>1, <1>10 DEF After
  <2> HIDE DEF t
  <2>4. QED  BY <1>1, <1>4, <1>5, <1>10, <2>1, <2>2, <2>3 DEF Submitted, InOrder
<1>11. QED  BY <1>1, <1>6, <1>7, <1>8, <1>9, <1>10 DEF Exits

\* A gate decided on a waiting engine lets its step run.
LEMMA ResolveFacts ==
  ASSUME NEW f \in Seq(FlowSteps), NEW e \in EngineOf(f), InOrder(e), e.status = "waiting"
  PROVE  LET e2 == ResolveGate(e) IN
         /\ e2 \in EngineOf(f) /\ InOrder(e2)
         /\ e2.step = e.step /\ e2.history = e.history /\ e2.loops = e.loops
         /\ e2.resolved = e.pending /\ e2.status = "running"
         /\ e.pending \in DOMAIN f
<1> DEFINE t == [e EXCEPT !.resolved = e.pending, !.pending = Missing, !.status = "idle"]
<1>1. /\ e.flow = f /\ e.step \in DOMAIN f /\ e.pending = e.step
      /\ DOMAIN f = 1..Len(f) /\ Len(f) \in Nat
  BY DEF EngineOf, InOrder
<1>2. e.pending # Missing
  BY <1>1, MissingAssumption
<1>3. /\ t \in EngineOf(f) /\ t.flow = f /\ t.step = e.step /\ t.history = e.history
      /\ t.loops = e.loops /\ t.resolved = e.step /\ t.status = "idle"
  BY <1>1 DEF EngineOf, Statuses
<1>4. ResolveGate(e) = Advance(t)
  BY <1>2 DEF ResolveGate
<1> HIDE DEF t
<1>5. Advance(t).status = "running"
  <2>1. ~(t.step > Len(t.flow))
    BY <1>1, <1>3
  <2>2. Advance(t) = [t EXCEPT !.status = "running"]
    BY <1>3, <2>1 DEF Advance
  <2>3. QED  BY <2>2, <1>3 DEF EngineOf
<1>6. QED  BY <1>1, <1>3, <1>4, <1>5, AdvanceFacts DEF SamePlace

\* resume clears the loop counters of a paused engine and lets it go on.
LEMMA ResumeFacts ==
  ASSUME NEW f \in Seq(FlowSteps), NEW e \in EngineOf(f), InOrder(e), e.status = "paused"
  PROVE  LET e2 == Resume(e) IN
         /\ e2 \in EngineOf(f) /\ InOrder(e2) /\ e2.status # "idle"
         /\ e2.step = e.step /\ e2.history = e.history /\ e2.resolved = e.resolved
<1> DEFINE t == [e EXCEPT !.loops = [s \in DOMAIN e.flow |-> 0], !.status = "idle"]
<1>1. /\ t \in EngineOf(f) /\ t.flow = f /\ t.step = e.step /\ t.history = e.history
      /\ t.resolved = e.resolved /\ t.status = "idle"
  BY DEF EngineOf, Statuses
<1>2. Resume(e) = Advance(t)
  BY DEF Resume
<1> HIDE DEF t
<1>3. QED  BY <1>1, <1>2, AdvanceFacts DEF SamePlace

\* rerun takes back the decision at the failed step's gate.
LEMMA RerunFacts ==
  ASSUME NEW f \in Seq(FlowSteps), NEW e \in EngineOf(f), InOrder(e), e.status = "failed",
         e.step <= Len(f)
  PROVE  LET e2 == Rerun(e) IN
         /\ e2 \in EngineOf(f) /\ InOrder(e2) /\ e2.status # "idle"
         /\ e2.step = e.step /\ e2.history = e.history /\ e2.resolved = Missing
<1> DEFINE t == [e EXCEPT !.loops[e.step] = 0, !.resolved = Missing, !.status = "idle"]
<1>1. /\ t \in EngineOf(f) /\ t.flow = f /\ t.step = e.step /\ t.history = e.history
      /\ t.resolved = Missing /\ t.status = "idle"
  BY DEF EngineOf, Statuses
<1>2. Rerun(e) = Advance(t)
  BY DEF Rerun, CanRerun, EngineOf
<1> HIDE DEF t
<1>3. QED  BY <1>1, <1>2, AdvanceFacts DEF SamePlace

-----------------------------------------------------------------------------
(* The inductive invariant *)

\* The engine is one of its flow's and in order; drive() stands where the
\* engine's status says, and has returned nothing while it runs.
DriverInv ==
  /\ eng.flow \in Seq(FlowSteps)
  /\ eng \in EngineOf(eng.flow)
  /\ InOrder(eng)
  /\ drv \in {"idle", "top", "agent", "gate"}
  /\ drv = "agent" => eng.status = "running"
  /\ drv = "gate" => eng.status = "waiting"
  /\ drv # "idle" => outcome = "none"
  /\ outcome \in {"none", "ok", "err"}

\* A human step has a decision of the visit under way exactly when the engine
\* holds one for it, and the engine holds one for its current step only.
CreditInv ==
  /\ credit \in [DOMAIN eng.flow -> Int]
  /\ \A s \in DOMAIN eng.flow : eng.flow[s].gate = "human" =>
       /\ credit[s] = IF eng.resolved = s THEN 1 ELSE 0
       /\ eng.resolved = s => eng.step = s

\* A loop is recorded no more often than its counter says, and only a stopped
\* engine has a recorded loop at its bound.
RunsInv ==
  /\ runs \in [DOMAIN eng.flow -> Nat]
  /\ \A s \in DOMAIN eng.flow : eng.flow[s].exit = "loop" =>
       /\ runs[s] <= eng.loops[s]
       /\ runs[s] <= IF eng.flow[s].max = 0 THEN 1 ELSE eng.flow[s].max
       /\ (runs[s] >= 1 /\ eng.loops[s] >= eng.flow[s].max) => eng.status \in {"paused", "failed"}

\* The step whose agent failed is one of the flow's, and the engine stays there.
OwingInv ==
  /\ owing \in {Missing} \cup DOMAIN eng.flow
  /\ owing # Missing => eng.step = owing /\ eng.status # "completed"

IInv ==
  DriverInv /\ CreditInv /\ RunsInv /\ OwingInv /\ HistoryIsWalk /\ OutcomeMatchesEngine

\* HistoryIsWalk is about eng; Walk says the same of an engine given by name.
LEMMA WalkOfEng == HistoryIsWalk <=> Walk(eng)
BY DEF HistoryIsWalk, Walk, Successor, After

\* The walk is a property of the engine alone, also after a step.
LEMMA WalkOfEngPrime == HistoryIsWalk' <=> Walk(eng')
BY DEF HistoryIsWalk, Walk, Successor, After

\* A walk stays one when the engine stays where it is.
LEMMA WalkKept ==
  ASSUME NEW e, NEW e2, Walk(e), e2.flow = e.flow, e2.step = e.step, e2.history = e.history
  PROVE  Walk(e2)
BY DEF Walk, After

\* A walk stays one when the current step is recorded.
LEMMA WalkGrows ==
  ASSUME NEW f \in Seq(FlowSteps), NEW e \in EngineOf(f), NEW e2, Walk(e),
         e.step \in DOMAIN f, Submitted(e2, e)
  PROVE  Walk(e2)
<1> DEFINE h == e.history
           g == e2.history
<1>1. /\ h \in Seq(DOMAIN f) /\ e.flow = f /\ e2.flow = f /\ g = Append(h, e.step)
      /\ Len(h) \in Nat
  BY DEF EngineOf, Submitted
<1>2. /\ Len(g) = Len(h) + 1 /\ g[Len(h) + 1] = e.step /\ g # <<>>
      /\ \A i \in 1..Len(h) : g[i] = h[i]
  <2>1. e.step \in DOMAIN f /\ g \in Seq(DOMAIN f) /\ Len(g) = Len(h) + 1
    BY <1>1
  <2>2. g # <<>>
    BY <1>1, <2>1
  <2>3. g[Len(h) + 1] = e.step /\ \A i \in 1..Len(h) : g[i] = h[i]
    BY <1>1, <2>1
  <2>4. QED  BY <2>1, <2>2, <2>3
<1>3. \A s : After(e2, s) = After(e, s)
  BY <1>1 DEF After
<1>4. h # <<>> => Len(h) >= 1
  BY <1>1
<1>5. h = <<>> => Len(h) = 0
  BY <1>1
<1> HIDE DEF h, g
<1>6. g[1] = 1
  <2>1. CASE h = <<>>
    BY <1>2, <1>5, <2>1 DEF Walk, h
  <2>2. CASE h # <<>>
    BY <1>1, <1>2, <1>4, <2>2 DEF Walk, h
  <2>3. QED  BY <2>1, <2>2
<1>7. \A i \in 1..Len(g) - 1 : g[i + 1] = After(e2, g[i])
  <2> SUFFICES ASSUME NEW i \in 1..Len(g) - 1  PROVE g[i + 1] = After(e2, g[i])
    OBVIOUS
  <2>1. i \in 1..Len(h) /\ g[i] = h[i]
    BY <1>1, <1>2
  <2>2. CASE i = Len(h)
    <3>1. h # <<>>
      BY <1>5, <2>1, <2>2
    <3>2. e.step = After(e, h[Len(h)])
      BY <3>1 DEF Walk, h
    <3>3. QED  BY <1>2, <1>3, <2>1, <2>2, <3>2
  <2>3. CASE i # Len(h)
    <3>1. i \in 1..Len(h) - 1 /\ i + 1 \in 1..Len(h)
      BY <1>1, <2>1, <2>3
    <3>2. h[i + 1] = After(e, h[i])
      BY <3>1 DEF Walk, h
    <3>3. QED  BY <1>2, <1>3, <2>1, <3>1, <3>2
  <2>4. QED  BY <2>2, <2>3
<1>8. e2.step = After(e2, g[Len(g)])
  BY <1>2, <1>3 DEF Submitted
<1>9. QED  BY <1>2, <1>6, <1>7, <1>8 DEF Walk, g

\* Every step of a flow has a bound, used or not.
LEMMA FlowBounds ==
  ASSUME NEW f \in Seq(FlowSteps), NEW s \in DOMAIN f
  PROVE  f[s].max \in Nat
<1>1. f[s] \in FlowSteps
  OBVIOUS
<1>2. QED  BY <1>1 DEF FlowSteps

\* Only past its last step does an engine complete without a handoff.
LEMMA StaysIncomplete ==
  ASSUME NEW f \in Seq(FlowSteps), NEW e \in EngineOf(f), e.step \in DOMAIN f,
         e.status # "completed"
  PROVE  /\ Advance(e).status # "completed"
         /\ Resume(e).status # "completed"
         /\ Rerun(e).status # "completed"
<1>1. \A d \in EngineOf(f) :
        d.step = e.step /\ d.status # "completed" => Advance(d).status # "completed"
  <2> SUFFICES ASSUME NEW d \in EngineOf(f), d.step = e.step, d.status # "completed"
               PROVE  Advance(d).status # "completed"
    OBVIOUS
  <2>1. d.flow = f /\ ~(d.step > Len(d.flow))
    BY DEF EngineOf
  <2>2. QED  BY <2>1 DEF Advance, EngineOf
<1>2. Resume(e).status # "completed"
  <2> DEFINE t == [e EXCEPT !.loops = [s \in DOMAIN e.flow |-> 0], !.status = "idle"]
  <2>1. t \in EngineOf(f) /\ t.step = e.step /\ t.status = "idle"
    BY DEF EngineOf, Statuses
  <2>2. Resume(e) = e \/ Resume(e) = Advance(t)
    BY DEF Resume
  <2> HIDE DEF t
  <2>3. QED  BY <1>1, <2>1, <2>2
<1>3. Rerun(e).status # "completed"
  <2> DEFINE t == [e EXCEPT !.loops[e.step] = 0, !.resolved = Missing, !.status = "idle"]
  <2>1. t \in EngineOf(f) /\ t.step = e.step /\ t.status = "idle"
    BY DEF EngineOf, Statuses
  <2>2. Rerun(e) = e \/ Rerun(e) = Advance(t)
    BY DEF Rerun
  <2> HIDE DEF t
  <2>3. QED  BY <1>1, <2>1, <2>2
<1>4. QED  BY <1>1, <1>2, <1>3

\* The debt stays where it is while the engine does.
LEMMA OwingKept ==
  ASSUME IInv, owing' = owing, eng'.flow = eng.flow, eng'.step = eng.step,
         eng.step \in DOMAIN eng.flow /\ eng.status # "completed" => eng'.status # "completed"
  PROVE  OwingInv'
BY DEF IInv, OwingInv

\* A new engine satisfies the invariant.
LEMMA InitIInv == Init => IInv
<1> SUFFICES ASSUME Init PROVE IInv
  OBVIOUS
<1>1. PICK flow \in Flows : eng = New(flow) /\ credit = Zero(flow) /\ runs = Zero(flow)
  BY DEF Init
<1>2. flow \in Seq(FlowSteps) /\ Len(flow) \in Nat /\ DOMAIN flow = 1..Len(flow)
  BY FlowsAssumption DEF IsFlow
<1>3. /\ eng.flow = flow /\ eng.step = 1 /\ eng.status = "idle" /\ eng.resolved = Missing
      /\ eng.loops = [s \in DOMAIN flow |-> 0] /\ eng.history = <<>>
  BY <1>1 DEF New
<1>4. eng \in EngineOf(flow)
  <2>1. <<>> \in Seq(DOMAIN flow) /\ 1 \in 1..(Len(flow) + 1) /\ "idle" \in Statuses
    BY <1>2 DEF Statuses
  <2>2. QED  BY <1>1, <2>1 DEF New, EngineOf
<1>5. DriverInv
  BY <1>2, <1>3, <1>4 DEF DriverInv, InOrder, Init
<1>6. CreditInv
  <2>1. Missing \notin DOMAIN flow
    BY <1>2, MissingAssumption
  <2>2. credit = [s \in DOMAIN eng.flow |-> 0] /\ credit \in [DOMAIN eng.flow -> Int]
    BY <1>1, <1>3 DEF Zero
  <2>3. \A s \in DOMAIN eng.flow : credit[s] = 0 /\ eng.resolved # s
    BY <1>3, <2>1, <2>2
  <2>4. QED  BY <2>2, <2>3 DEF CreditInv
<1>7. RunsInv
  <2>1. runs = [s \in DOMAIN eng.flow |-> 0] /\ runs \in [DOMAIN eng.flow -> Nat]
    BY <1>1, <1>3 DEF Zero
  <2>2. \A s \in DOMAIN eng.flow : eng.flow[s].max \in Nat /\ eng.loops[s] = 0
    BY <1>2, <1>3, FlowBounds
  <2>3. \A s \in DOMAIN eng.flow : runs[s] = 0
    BY <2>1
  <2>4. \A s \in DOMAIN eng.flow :
          /\ runs[s] <= eng.loops[s]
          /\ runs[s] <= IF eng.flow[s].max = 0 THEN 1 ELSE eng.flow[s].max
          /\ ~(runs[s] >= 1)
    BY <2>2, <2>3
  <2>5. QED  BY <2>1, <2>4 DEF RunsInv
<1>8. HistoryIsWalk
  <2>1. Len(eng.history) = 0
    BY <1>3
  <2>2. QED  BY <1>3, <2>1 DEF HistoryIsWalk
<1>9. OutcomeMatchesEngine /\ OwingInv
  BY DEF Init, OutcomeMatchesEngine, OwingInv
<1>10. QED  BY <1>5, <1>6, <1>7, <1>8, <1>9 DEF IInv

\* Loop, gate and walk facts when the engine stays where it is.
LEMMA SamePlaceKeeps ==
  ASSUME IInv, SamePlace(eng', eng), UNCHANGED <<credit, runs>>,
         \/ eng.status \notin {"paused", "failed"}
         \/ eng'.status \in {"paused", "failed"}
  PROVE  CreditInv' /\ RunsInv' /\ HistoryIsWalk'
<1>1. CreditInv'
  BY DEF IInv, CreditInv, SamePlace
<1>2. RunsInv'
  BY DEF IInv, RunsInv, SamePlace
<1>3. HistoryIsWalk'
  BY WalkOfEng, WalkOfEngPrime, WalkKept DEF IInv, SamePlace
<1>4. QED  BY <1>1, <1>2, <1>3

\* The driver's actions, one by one.
LEMMA DriveKeeps == IInv /\ Drive => IInv'
<1> SUFFICES ASSUME IInv, Drive PROVE IInv'
  OBVIOUS
<1>1. DriverInv' /\ OwingInv' /\ OutcomeMatchesEngine'
  BY DEF IInv, DriverInv, OwingInv, OutcomeMatchesEngine, Drive
<1>2. eng' = eng /\ SamePlace(eng', eng) /\ UNCHANGED <<credit, runs>>
  BY DEF Drive, SamePlace
<1>3. QED  BY <1>1, <1>2, SamePlaceKeeps DEF IInv

\* The top of drive()'s loop keeps the invariant.
LEMMA TopOfLoopKeeps == IInv /\ TopOfLoop => IInv'
<1> SUFFICES ASSUME IInv, TopOfLoop PROVE IInv'
  OBVIOUS
<1>1. /\ eng' = Advance(eng) /\ eng' \in EngineOf(eng.flow) /\ InOrder(eng') /\ SamePlace(eng', eng)
      /\ \/ eng' = eng
         \/ eng.status \in {"idle", "running"}
  BY AdvanceInOrder DEF IInv, DriverInv, TopOfLoop
<1>2. OwingInv'
  <2>1. eng.step \in DOMAIN eng.flow /\ eng.status # "completed" => eng'.status # "completed"
    BY <1>1, StaysIncomplete DEF IInv, DriverInv
  <2>2. QED  BY <1>1, <2>1, OwingKept DEF TopOfLoop, SamePlace
<1>3. DriverInv'
  BY <1>1 DEF IInv, DriverInv, TopOfLoop, Follow, Return, SamePlace
<1>4. OutcomeMatchesEngine'
  BY <1>1, <1>2 DEF IInv, DriverInv, OwingInv, OutcomeMatchesEngine, TopOfLoop, Follow, Return
<1>5. CreditInv' /\ RunsInv' /\ HistoryIsWalk'
  BY <1>1, SamePlaceKeeps DEF TopOfLoop
<1>6. QED  BY <1>2, <1>3, <1>4, <1>5 DEF IInv

\* What submitting the handoff of the running step does, however drive() goes on.
LEMMA SubmitKeeps ==
  ASSUME IInv, drv = "agent",
         eng' = SubmitHandoff(eng),
         credit' = [credit EXCEPT ![eng.step] =
                      IF eng.flow[eng.step].gate = "human" THEN @ - 1 ELSE @],
         runs' = [runs EXCEPT ![eng.step] = @ + 1]
  PROVE  /\ eng.status = "running" /\ eng.step \in DOMAIN eng.flow
         /\ eng'.flow = eng.flow /\ eng' \in EngineOf(eng.flow) /\ InOrder(eng')
         /\ Submitted(eng', eng)
         /\ CreditInv' /\ RunsInv' /\ HistoryIsWalk'
<1> DEFINE f == eng.flow
           s == eng.step
<1>1. /\ f \in Seq(FlowSteps) /\ eng \in EngineOf(f) /\ InOrder(eng) /\ eng.status = "running"
      /\ s \in DOMAIN f
      /\ f[s].gate = "human" => eng.resolved = s
  BY DEF IInv, DriverInv, InOrder
<1>2. /\ eng' = SubmitHandoff(eng) /\ eng' \in EngineOf(f) /\ InOrder(eng') /\ Submitted(eng', eng)
  BY <1>1, SubmitFacts
<1>3. eng'.flow = f /\ eng'.resolved = Missing /\ Missing \notin DOMAIN f
  <2>1. DOMAIN f = 1..Len(f) /\ Len(f) \in Nat
    BY <1>1
  <2>2. QED  BY <1>2, <2>1, MissingAssumption DEF Submitted
<1>4. CreditInv'
  BY <1>1, <1>3 DEF IInv, CreditInv
<1>5. RunsInv'
  <2>1. /\ runs \in [DOMAIN f -> Nat] /\ runs' = [runs EXCEPT ![s] = @ + 1]
        /\ eng.loops \in [DOMAIN f -> Nat] /\ eng'.loops \in [DOMAIN f -> Nat]
    BY <1>1, <1>2 DEF IInv, RunsInv, EngineOf
  <2>2. runs' \in [DOMAIN f -> Nat]
    BY <1>1, <2>1
  <2> SUFFICES ASSUME NEW t \in DOMAIN f, f[t].exit = "loop"
               PROVE  /\ runs'[t] <= eng'.loops[t]
                      /\ runs'[t] <= IF f[t].max = 0 THEN 1 ELSE f[t].max
                      /\ (runs'[t] >= 1 /\ eng'.loops[t] >= f[t].max) => eng'.status \in {"paused", "failed"}
    BY <1>3, <2>2 DEF RunsInv
  <2>3. /\ f[t].max \in Nat /\ runs[t] \in Nat /\ eng.loops[t] \in Nat
        /\ runs[t] <= eng.loops[t]
        /\ runs[t] <= IF f[t].max = 0 THEN 1 ELSE f[t].max
        /\ ~(runs[t] >= 1 /\ eng.loops[t] >= f[t].max)
    <3>1. f[t] \in FlowSteps
      BY <1>1
    <3>2. f[t].max \in Nat
      BY <3>1 DEF FlowSteps
    <3>3. runs[t] \in Nat /\ eng.loops[t] \in Nat
      BY <2>1
    <3>4. QED  BY <1>1, <3>2, <3>3 DEF IInv, RunsInv
  <2>4. CASE t = s
    <3>1. runs'[t] = runs[t] + 1 /\ eng'.loops[t] = eng.loops[t] + 1
      BY <1>1, <1>2, <2>1, <2>4 DEF Submitted
    <3>2. eng'.loops[t] >= f[t].max => eng'.status \in {"paused", "failed"}
      BY <1>2, <2>4 DEF Submitted
    <3>3. QED  BY <2>3, <3>1, <3>2
  <2>5. CASE t # s
    <3>1. runs'[t] = runs[t] /\ eng'.loops[t] = eng.loops[t]
      BY <1>2, <2>1, <2>5 DEF Submitted
    <3>2. QED  BY <2>3, <3>1
  <2>6. QED  BY <2>4, <2>5
<1>6. HistoryIsWalk'
  BY <1>1, <1>2, WalkOfEng, WalkOfEngPrime, WalkGrows DEF IInv
<1>7. QED  BY <1>1, <1>2, <1>3, <1>4, <1>5, <1>6

\* An answering agent only hands its result to drive().
LEMMA AgentAnswersKeeps == IInv /\ AgentAnswers => IInv'
<1> SUFFICES ASSUME IInv, AgentAnswers PROVE IInv'
  OBVIOUS
<1>1. /\ drv = "agent" /\ eng' = SubmitHandoff(eng)
      /\ credit' = [credit EXCEPT ![eng.step] =
                      IF eng.flow[eng.step].gate = "human" THEN @ - 1 ELSE @]
      /\ runs' = [runs EXCEPT ![eng.step] = @ + 1]
  BY DEF AgentAnswers, Submit
<1>2. /\ eng'.flow = eng.flow /\ eng' \in EngineOf(eng.flow) /\ InOrder(eng')
      /\ CreditInv' /\ RunsInv' /\ HistoryIsWalk'
  BY <1>1, SubmitKeeps
<1>3. DriverInv' /\ OwingInv' /\ OutcomeMatchesEngine'
  BY <1>2 DEF IInv, DriverInv, OwingInv, OutcomeMatchesEngine, AgentAnswers, Submit, Follow, Return
<1>4. QED  BY <1>2, <1>3 DEF IInv

\* A failing agent ends the drive with its error.
LEMMA AgentFailsKeeps == IInv /\ AgentFails => IInv'
<1> SUFFICES ASSUME IInv, AgentFails PROVE IInv'
  OBVIOUS
<1>1. DriverInv' /\ OwingInv' /\ OutcomeMatchesEngine'
  BY DEF IInv, DriverInv, InOrder, OwingInv, OutcomeMatchesEngine, AgentFails, Return
<1>2. SamePlace(eng', eng) /\ UNCHANGED <<credit, runs>> /\ eng' = eng
  BY DEF AgentFails, SamePlace
<1>3. QED  BY <1>1, <1>2, SamePlaceKeeps DEF IInv

\* The gate is decided.
LEMMA DecideKeeps == IInv /\ Decide => IInv'
<1> SUFFICES ASSUME IInv, Decide PROVE IInv'
  OBVIOUS
<1> DEFINE f == eng.flow
           p == eng.pending
<1>1. f \in Seq(FlowSteps) /\ eng \in EngineOf(f) /\ InOrder(eng) /\ eng.status = "waiting"
  BY DEF IInv, DriverInv, Decide
<1>2. /\ eng' = ResolveGate(eng) /\ eng' \in EngineOf(f) /\ InOrder(eng')
      /\ eng'.step = eng.step /\ eng'.history = eng.history /\ eng'.loops = eng.loops
      /\ eng'.resolved = p /\ eng'.status = "running" /\ p \in DOMAIN f
  BY <1>1, ResolveFacts DEF Decide
<1>3. eng'.flow = f
  BY <1>2 DEF EngineOf
<1>4. DriverInv' /\ OwingInv' /\ OutcomeMatchesEngine'
  BY <1>1, <1>2, <1>3 DEF IInv, DriverInv, OwingInv, OutcomeMatchesEngine, Decide, Return
<1>5. CreditInv'
  <2>1. credit' = [credit EXCEPT ![p] = @ + 1] /\ credit \in [DOMAIN f -> Int]
    BY DEF IInv, CreditInv, Decide
  <2>2. eng.step = p /\ f[p].gate = "human" /\ eng.resolved # p
    BY <1>1 DEF IInv, DriverInv, InOrder
  <2>3. credit[p] = 0
    BY <1>2, <2>2 DEF IInv, CreditInv
  <2>4. credit' \in [DOMAIN f -> Int] /\ credit'[p] = 1
        /\ \A s \in DOMAIN f : s # p => credit'[s] = credit[s]
    BY <1>2, <2>1, <2>3
  <2>5. \A s \in DOMAIN f : f[s].gate = "human" /\ s # p => credit[s] = 0
    BY <2>2 DEF IInv, CreditInv
  <2>6. QED  BY <1>2, <1>3, <2>2, <2>4, <2>5 DEF CreditInv
<1>6. RunsInv'
  BY <1>1, <1>2, <1>3 DEF IInv, RunsInv, Decide
<1>7. HistoryIsWalk'
  BY <1>2, <1>3, WalkOfEng, WalkOfEngPrime, WalkKept DEF IInv
<1>8. QED  BY <1>4, <1>5, <1>6, <1>7 DEF IInv

\* The application's actions, one by one.
LEMMA AppPausesKeeps == IInv /\ AppPauses => IInv'
<1> SUFFICES ASSUME IInv, AppPauses PROVE IInv'
  OBVIOUS
<1>1. /\ eng \in EngineOf(eng.flow) /\ drv = "idle" /\ drv' = "idle" /\ outcome' = "none" /\ owing' = owing
      /\ eng' = Pause(eng) /\ UNCHANGED <<credit, runs>>
  BY DEF IInv, DriverInv, AppPauses, Operate
<1>2. /\ eng' \in EngineOf(eng.flow) /\ SamePlace(eng', eng)
      /\ eng' = eng \/ (eng.status = "running" /\ eng'.status = "paused")
  BY <1>1 DEF Pause, EngineOf, SamePlace, Statuses
<1>3. DriverInv' /\ OwingInv' /\ OutcomeMatchesEngine'
  BY <1>1, <1>2 DEF IInv, DriverInv, OwingInv, OutcomeMatchesEngine, SamePlace, InOrder
<1>4. QED  BY <1>1, <1>2, <1>3, SamePlaceKeeps DEF IInv

\* The application fails the run.
LEMMA AppFailsKeeps == IInv /\ AppFails => IInv'
<1> SUFFICES ASSUME IInv, AppFails PROVE IInv'
  OBVIOUS
<1>1. /\ eng \in EngineOf(eng.flow) /\ drv = "idle" /\ drv' = "idle" /\ outcome' = "none" /\ owing' = owing
      /\ eng' = Fail(eng) /\ UNCHANGED <<credit, runs>>
  BY DEF IInv, DriverInv, AppFails, Operate
<1>2. eng' \in EngineOf(eng.flow) /\ SamePlace(eng', eng) /\ eng'.status = "failed"
  BY <1>1 DEF Fail, EngineOf, SamePlace, Statuses
<1>3. DriverInv' /\ OwingInv' /\ OutcomeMatchesEngine'
  BY <1>1, <1>2 DEF IInv, DriverInv, OwingInv, OutcomeMatchesEngine, SamePlace, InOrder
<1>4. QED  BY <1>1, <1>2, <1>3, SamePlaceKeeps DEF IInv

\* Fresh run counts are within every bound.
LEMMA ZeroRuns ==
  ASSUME NEW f \in Seq(FlowSteps), eng' \in EngineOf(f), runs' = Zero(f)
  PROVE  RunsInv'
<1>1. eng'.flow = f /\ eng'.loops \in [DOMAIN f -> Nat]
  BY DEF EngineOf
<1>2. \A s \in DOMAIN f : f[s].max \in Nat /\ eng'.loops[s] \in Nat
  BY <1>1, FlowBounds
<1>3. runs' = [s \in DOMAIN f |-> 0] /\ runs' \in [DOMAIN f -> Nat]
  BY DEF Zero
<1>4. QED  BY <1>1, <1>2, <1>3 DEF RunsInv

\* The application resumes a paused run.
LEMMA AppResumesKeeps == IInv /\ AppResumes => IInv'
<1> SUFFICES ASSUME IInv, AppResumes PROVE IInv'
  OBVIOUS
<1> DEFINE f == eng.flow
<1>1. /\ f \in Seq(FlowSteps) /\ eng \in EngineOf(f) /\ InOrder(eng)
      /\ drv = "idle" /\ drv' = "idle" /\ outcome' = "none" /\ owing' = owing
      /\ credit' = credit /\ eng' = Resume(eng)
  BY DEF IInv, DriverInv, AppResumes, Operate
<1>2. CASE eng.status # "paused"
  <2>1. eng' = eng /\ runs' = runs /\ SamePlace(eng', eng)
    BY <1>1, <1>2 DEF Resume, AppResumes, SamePlace
  <2>2. DriverInv' /\ OwingInv' /\ OutcomeMatchesEngine'
    BY <1>1, <2>1 DEF IInv, DriverInv, OwingInv, OutcomeMatchesEngine
  <2>3. QED  BY <1>1, <2>1, <2>2, SamePlaceKeeps DEF IInv
<1>3. CASE eng.status = "paused"
  <2>1. /\ eng' \in EngineOf(f) /\ InOrder(eng') /\ eng'.flow = f /\ runs' = Zero(f)
        /\ eng'.step = eng.step /\ eng'.history = eng.history /\ eng'.resolved = eng.resolved
    <3>1. eng' \in EngineOf(f)
      BY <1>1, <1>3, ResumeFacts
    <3>2. QED  BY <1>1, <1>3, <3>1, ResumeFacts DEF AppResumes, EngineOf
  <2>2. DriverInv' /\ OwingInv' /\ OutcomeMatchesEngine'
    <3>1. eng.step \in DOMAIN eng.flow => eng'.status # "completed"
      BY <1>1, <1>3, StaysIncomplete
    <3>2. OwingInv'
      BY <1>1, <2>1, <3>1, OwingKept
    <3>3. QED  BY <1>1, <2>1, <3>2 DEF DriverInv, OwingInv, OutcomeMatchesEngine
  <2>3. CreditInv'
    BY <1>1, <2>1 DEF IInv, CreditInv
  <2>4. HistoryIsWalk'
    BY <2>1, WalkOfEng, WalkOfEngPrime, WalkKept DEF IInv
  <2>5. QED  BY <1>1, <2>1, <2>2, <2>3, <2>4, ZeroRuns DEF IInv
<1>4. QED  BY <1>2, <1>3

\* The application reruns a failed step.
LEMMA AppRerunsKeeps == IInv /\ AppReruns => IInv'
<1> SUFFICES ASSUME IInv, AppReruns PROVE IInv'
  OBVIOUS
<1> DEFINE f == eng.flow
<1>1. /\ f \in Seq(FlowSteps) /\ eng \in EngineOf(f) /\ InOrder(eng)
      /\ drv = "idle" /\ drv' = "idle" /\ outcome' = "none" /\ owing' = owing
      /\ eng' = Rerun(eng)
      /\ Len(f) \in Nat /\ eng.flow = f /\ eng.step \in 1..(Len(f) + 1)
  BY DEF IInv, DriverInv, AppReruns, Operate, EngineOf
<1>2. CASE ~CanRerun(eng)
  <2>1. eng' = eng /\ runs' = runs /\ credit' = credit /\ SamePlace(eng', eng)
    BY <1>1, <1>2 DEF Rerun, AppReruns, SamePlace
  <2>2. DriverInv' /\ OwingInv' /\ OutcomeMatchesEngine'
    BY <1>1, <2>1 DEF IInv, DriverInv, OwingInv, OutcomeMatchesEngine
  <2>3. QED  BY <1>1, <2>1, <2>2, SamePlaceKeeps DEF IInv
<1>3. CASE CanRerun(eng)
  <2>1. eng.status = "failed" /\ eng.step <= Len(f)
    BY <1>3 DEF CanRerun
  <2>2. eng' \in EngineOf(f)
    BY <1>1, <2>1, RerunFacts
  <2>3. /\ InOrder(eng') /\ eng'.flow = f /\ runs' = Zero(f) /\ credit' = Zero(f)
        /\ eng'.step = eng.step /\ eng'.history = eng.history /\ eng'.resolved = Missing
    BY <1>1, <1>3, <2>1, <2>2, RerunFacts DEF AppReruns, EngineOf
  <2>4. eng'.status # "completed"
    <3>1. eng.step \in DOMAIN f
      BY <1>1, <2>1
    <3>2. QED  BY <1>1, <2>1, <3>1, StaysIncomplete
  <2>5. DriverInv' /\ OwingInv' /\ OutcomeMatchesEngine'
    <3>1. OwingInv'
      BY <1>1, <2>3, <2>4, OwingKept
    <3>2. QED  BY <1>1, <2>2, <2>3, <3>1 DEF DriverInv, OwingInv, OutcomeMatchesEngine
  <2>6. CreditInv'
    <3>1. Missing \notin DOMAIN f
      BY <1>1, MissingAssumption
    <3>2. \A s \in DOMAIN f : credit'[s] = 0
      BY <2>3 DEF Zero
    <3>3. credit' \in [DOMAIN f -> Int]
      BY <2>3 DEF Zero
    <3>4. QED  BY <2>3, <3>1, <3>2, <3>3 DEF CreditInv
  <2>7. HistoryIsWalk'
    BY <2>3, WalkOfEng, WalkOfEngPrime, WalkKept DEF IInv
  <2>8. QED  BY <1>1, <2>2, <2>3, <2>5, <2>6, <2>7, ZeroRuns DEF IInv
<1>4. QED  BY <1>2, <1>3

\* Every step preserves the invariant.
LEMMA NextIInv == IInv /\ [Next]_vars => IInv'
<1>1. IInv /\ UNCHANGED vars => IInv'
  <2> SUFFICES ASSUME IInv, UNCHANGED vars PROVE IInv'
    OBVIOUS
  <2>1. DriverInv' /\ CreditInv' /\ RunsInv' /\ OwingInv'
    BY DEF vars, IInv, DriverInv, CreditInv, RunsInv, OwingInv
  <2>2. HistoryIsWalk' /\ OutcomeMatchesEngine'
    BY DEF vars, IInv, HistoryIsWalk, Successor, OutcomeMatchesEngine
  <2>3. QED  BY <2>1, <2>2 DEF IInv
<1>2. QED
  BY <1>1, DriveKeeps, TopOfLoopKeeps, AgentAnswersKeeps, AgentFailsKeeps, DecideKeeps,
     AppPausesKeeps, AppFailsKeeps, AppResumesKeeps, AppRerunsKeeps DEF Next

-----------------------------------------------------------------------------
(* The theorems *)

\* The engine is always one of its flow's and in order, and drive() stands
\* where the engine's status says.
THEOREM Invariance == Spec => []IInv
BY InitIInv, NextIInv, PTL DEF Spec

\* Whatever fails, pauses, is resumed or run again, the steps recorded are a
\* walk through the flow that ends before the current step.
THEOREM WalkSafe == Spec => []HistoryIsWalk
<1>1. IInv => HistoryIsWalk
  BY DEF IInv
<1>2. QED  BY <1>1, Invariance, PTL

\* Every visit of a step behind a human gate has one decision of its own before
\* the step runs, a loop's next round and a rerun included, and leaves none.
THEOREM GateSafe == Spec => []GateBeforeWork
<1>1. IInv => GateBeforeWork
  BY DEF IInv, DriverInv, InOrder, CreditInv, GateBeforeWork
<1>2. QED  BY <1>1, Invariance, PTL

\* No loop step is recorded more often than its bound between two resumes or
\* reruns.
THEOREM LoopSafe == Spec => []LoopBounded
<1>1. IInv => LoopBounded
  BY DEF IInv, RunsInv, LoopBounded
<1>2. QED  BY <1>1, Invariance, PTL

\* What drive() returns and what the engine says then: an error with a running
\* engine is exactly an agent that failed, and until the agent of that step has
\* answered, the flow does not leave the step.
THEOREM OutcomeSafe == Spec => []OutcomeMatchesEngine
<1>1. IInv => OutcomeMatchesEngine
  BY DEF IInv
<1>2. QED  BY <1>1, Invariance, PTL

-----------------------------------------------------------------------------
(* The two engines *)

\* advance: the code differs in the order of its tests.
LEMMA AdvanceAgrees == \A e : e.status \in Statuses => T!Advance(e) = Advance(e)
BY DEF T!Advance, Advance, Statuses

\* submit_handoff: resolve_next_step and advance_after_step against Route.
LEMMA SubmitAgrees ==
  ASSUME NEW f \in Seq(FlowSteps), NEW e \in EngineOf(f), InOrder(e), e.status = "running"
  PROVE  T!SubmitHandoff(e) = SubmitHandoff(e)
<1> DEFINE s == e.step
           x == f[s]
           r == [e EXCEPT !.resolved = Missing, !.history = Append(@, e.step)]
           n == e.loops[s] + 1
           counted == [r EXCEPT !.loops[s] = n]
           answer == T!ResolveNextStep(r)
<1>1. /\ e.flow = f /\ s \in DOMAIN f /\ DOMAIN f = 1..Len(f) /\ Len(f) \in Nat
      /\ x.exit \in Exits /\ x.max \in Nat /\ n \in Nat
  <2>1. e.flow = f /\ s \in DOMAIN f
    BY DEF EngineOf, InOrder
  <2>2. x \in FlowSteps /\ e.loops \in [DOMAIN f -> Nat]
    BY <2>1 DEF EngineOf
  <2>3. QED  BY <2>1, <2>2 DEF FlowSteps
<1>2. /\ r.flow = f /\ r.step = s /\ r.loops = e.loops /\ r.status = "running"
      /\ r.history = Append(e.history, s)
      /\ r \in EngineOf(f)
  <2>1. Append(e.history, s) \in Seq(DOMAIN f)
    BY <1>1 DEF EngineOf
  <2>2. QED  BY <1>1, <2>1 DEF EngineOf
<1>3. /\ counted \in EngineOf(f) /\ counted.flow = f /\ counted.step = s
      /\ counted.loops[s] = n /\ counted.status = "running"
      /\ T!BumpLoopCounter(r) = counted
  <2>1. T!BumpLoopCounter(r) = counted
    BY <1>2 DEF T!BumpLoopCounter, T!SetLoopCounter
  <2>2. QED  BY <1>1, <1>2, <2>1 DEF EngineOf
<1>4. /\ SubmitHandoff(e) = Route(r)
      /\ T!SubmitHandoff(e) = T!AdvanceAfterStep(answer)
  BY DEF SubmitHandoff, T!SubmitHandoff
<1> HIDE DEF r, counted
<1>5. \A k :
        /\ T!Advance([r EXCEPT !.step = k]) = Advance([r EXCEPT !.step = k])
        /\ T!Advance([counted EXCEPT !.step = k]) = Advance([counted EXCEPT !.step = k])
  <2> TAKE k
  <2> DEFINE a == [r EXCEPT !.step = k]
             b == [counted EXCEPT !.step = k]
  <2>1. a.status = "running" /\ b.status = "running"
    BY <1>2, <1>3 DEF EngineOf
  <2> HIDE DEF a, b
  <2>2. T!Advance(a) = Advance(a) /\ T!Advance(b) = Advance(b)
    BY <2>1, AdvanceAgrees DEF Statuses
  <2>3. QED  BY <2>2 DEF a, b
<1>6. CASE x.exit = "next" /\ s < Len(f)
  <2>1. answer.eng = r /\ answer.to = s + 1 /\ answer.kind = "index"
    BY <1>1, <1>2, <1>6 DEF T!ResolveNextStep
  <2>2. Route(r) = Advance([r EXCEPT !.step = s + 1])
    BY <1>1, <1>2, <1>6 DEF Route
  <2>3. T!AdvanceAfterStep(answer) = T!Advance([r EXCEPT !.step = s + 1])
    BY <2>1 DEF T!AdvanceAfterStep
  <2>4. QED  BY <1>4, <1>5, <2>2, <2>3 DEF Statuses
<1>7. CASE x.exit = "next" /\ s = Len(f)
  <2>1. answer.eng = r /\ answer.to = s + 1 /\ answer.kind = "complete"
    BY <1>1, <1>2, <1>7 DEF T!ResolveNextStep
  <2>2. Route(r) = [r EXCEPT !.step = s + 1, !.status = "completed"]
    BY <1>1, <1>2, <1>7 DEF Route
  <2>3. T!AdvanceAfterStep(answer) = [r EXCEPT !.step = s + 1, !.status = "completed"]
    BY <1>2, <1>7, <2>1 DEF T!AdvanceAfterStep
  <2>4. QED  BY <1>4, <2>2, <2>3
<1>8. CASE x.exit = "loop" /\ n >= x.max
  <2>1. answer.eng = counted /\ answer.to = x.target /\ answer.kind = "pause"
    BY <1>1, <1>2, <1>3, <1>8 DEF T!ResolveNextStep
  <2>2. Route(r) = [counted EXCEPT !.status = "paused",
                                   !.step = IF x.target \in DOMAIN f THEN x.target ELSE s]
    BY <1>1, <1>2, <1>8 DEF Route, counted
  <2>3. T!AdvanceAfterStep(answer) =
          [counted EXCEPT !.status = "paused",
                          !.step = IF x.target \in DOMAIN f THEN x.target ELSE s]
    BY <1>3, <2>1 DEF T!AdvanceAfterStep, T!Indexes
  <2>4. QED  BY <1>4, <2>2, <2>3
<1>9. CASE x.exit = "loop" /\ n < x.max /\ x.target \in DOMAIN f
  <2>0. T!Indexes(r, x.target) # {} /\ ~(n >= x.max) /\ x.exit # "next"
    BY <1>1, <1>2, <1>9 DEF T!Indexes
  <2>1. answer.eng = counted /\ answer.to = x.target /\ answer.kind = "index"
    BY <1>1, <1>2, <1>3, <2>0 DEF T!ResolveNextStep
  <2>2. Route(r) = Advance([counted EXCEPT !.step = x.target])
    BY <1>1, <1>2, <1>9 DEF Route, counted
  <2>3. T!AdvanceAfterStep(answer) = T!Advance([counted EXCEPT !.step = x.target])
    BY <2>1 DEF T!AdvanceAfterStep
  <2>4. QED  BY <1>4, <1>5, <2>2, <2>3 DEF Statuses
<1>10. CASE x.exit = "loop" /\ n < x.max /\ x.target \notin DOMAIN f
  <2>1. answer.eng = counted /\ answer.to = x.target /\ answer.kind = "error"
    BY <1>1, <1>2, <1>3, <1>10 DEF T!ResolveNextStep, T!Indexes
  <2>2. Route(r) = [counted EXCEPT !.status = "failed"]
    BY <1>1, <1>2, <1>10 DEF Route, counted
  <2>3. T!AdvanceAfterStep(answer) = [counted EXCEPT !.status = "failed"]
    BY <2>1 DEF T!AdvanceAfterStep, T!Fail
  <2>4. QED  BY <1>4, <2>2, <2>3
<1>11. QED  BY <1>1, <1>6, <1>7, <1>8, <1>9, <1>10 DEF Exits

\* The other operations differ in the order of their assignments.
LEMMA OperationsAgree ==
  ASSUME NEW f \in Seq(FlowSteps), NEW e \in EngineOf(f)
  PROVE  /\ T!New(f) = New(f)
         /\ T!Fail(e) = Fail(e)
         /\ T!Pause(e) = Pause(e)
         /\ T!ResolveGate(e) = ResolveGate(e)
         /\ T!Resume(e) = Resume(e)
         /\ T!Rerun(e) = Rerun(e)
<1>1. T!New(f) = New(f) /\ T!Fail(e) = Fail(e) /\ T!Pause(e) = Pause(e)
  BY DEF T!New, New, T!Fail, Fail, T!Pause, Pause
<1>2. T!ResolveGate(e) = ResolveGate(e)
  <2> DEFINE t == [e EXCEPT !.resolved = e.pending, !.pending = Missing, !.status = "idle"]
             u == [e EXCEPT !.pending = Missing, !.resolved = e.pending, !.status = "idle"]
  <2>1. t = u /\ t.status = "idle"
    BY DEF EngineOf
  <2> HIDE DEF t, u
  <2>2. T!Advance(u) = Advance(t)
    BY <2>1, AdvanceAgrees DEF Statuses
  <2>3. QED  BY <2>2 DEF T!ResolveGate, ResolveGate, t, u
<1>3. T!Resume(e) = Resume(e)
  <2> DEFINE t == [e EXCEPT !.loops = [s \in DOMAIN e.flow |-> 0], !.status = "idle"]
  <2>1. t.status = "idle"
    BY DEF EngineOf
  <2> HIDE DEF t
  <2>2. T!Advance(t) = Advance(t)
    BY <2>1, AdvanceAgrees DEF Statuses
  <2>3. QED  BY <2>2 DEF T!Resume, Resume, t
<1>4. T!Rerun(e) = Rerun(e)
  <2> DEFINE t == [e EXCEPT !.loops[e.step] = 0, !.resolved = Missing, !.status = "idle"]
             u == [T!SetLoopCounter(e, e.step, 0) EXCEPT !.resolved = Missing, !.status = "idle"]
  <2>1. t = u /\ t.status = "idle"
    BY DEF EngineOf, T!SetLoopCounter
  <2> HIDE DEF t, u
  <2>2. T!Advance(u) = Advance(t)
    BY <2>1, AdvanceAgrees DEF Statuses
  <2>3. CASE CanRerun(e)
    <3>1. Rerun(e) = Advance(t)
      BY <2>3 DEF Rerun, t
    <3>2. T!Rerun(e) = T!Advance(u)
      BY <2>3 DEF T!Rerun, CanRerun, EngineOf, u
    <3>3. QED  BY <2>2, <3>1, <3>2
  <2>4. CASE ~CanRerun(e)
    BY <2>4 DEF T!Rerun, Rerun, CanRerun, EngineOf
  <2>5. QED  BY <2>3, <2>4
<1>5. QED  BY <1>1, <1>2, <1>3, <1>4

-----------------------------------------------------------------------------
(* The two drivers *)

\* The reference's invariant, and when the transpiled driver has its extra
\* round to go: it is in drive(), and the engine has stopped.
TIInv ==
  /\ IInv
  /\ edition \in {"rust-ref", "a2r"}
  /\ again \in BOOLEAN
  /\ again = TRUE => edition = "a2r" /\ drv = "top" /\ eng.status \in {"completed", "paused"}

\* Both editions start in the invariant.
LEMMA TInitTIInv == TInit => TIInv
<1> SUFFICES ASSUME TInit PROVE TIInv
  OBVIOUS
<1>1. Init /\ edition \in {"rust-ref", "a2r"} /\ again = FALSE
  BY DEF TInit
<1>2. IInv
  BY <1>1, InitIInv
<1>3. QED  BY <1>1, <1>2 DEF TIInv

\* Every step of the transpiled driver but its submit is one of the
\* reference's, or the extra round of an engine that has stopped.
LEMMA TopOfLoopMaps ==
  ASSUME TIInv, TTopOfLoop
  PROVE  /\ TopOfLoop
         /\ again = TRUE => eng' = eng /\ Return("ok")
<1>1. eng.status \in Statuses
  BY DEF TIInv, IInv, DriverInv, EngineOf
<1>2. eng' = Advance(eng)
  BY <1>1, AdvanceAgrees DEF TTopOfLoop
<1>3. TopOfLoop
  BY <1>2 DEF TTopOfLoop, Dispatch, TopOfLoop, Follow, Return
<1>4. ASSUME again = TRUE PROVE eng' = eng /\ Return("ok")
  <2>1. eng.status \in {"completed", "paused"}
    BY <1>4 DEF TIInv
  <2>2. eng' = eng
    BY <1>2, <2>1 DEF Advance
  <2>3. QED  BY <2>1, <2>2 DEF TTopOfLoop, Dispatch, Return
<1>5. QED  BY <1>3, <1>4

\* The transpiled decision is the reference's.
LEMMA TDecideMaps == TIInv /\ TDecide => Decide
<1> SUFFICES ASSUME TIInv, TDecide PROVE Decide
  OBVIOUS
<1>1. T!ResolveGate(eng) = ResolveGate(eng)
  BY OperationsAgree DEF TIInv, IInv, DriverInv
<1>2. QED  BY <1>1 DEF TDecide, Decide, Return

\* The transpiled error path is the reference's.
LEMMA TAgentFailsMaps == TAgentFails => AgentFails
BY DEF TAgentFails, AgentFails, Return

\* The application's calls on the transpiled engine are those on the reference.
LEMMA TOperatesMaps ==
  TIInv /\ TOperates => AppPauses \/ AppFails \/ AppResumes \/ AppReruns
<1> SUFFICES ASSUME TIInv, TOperates PROVE AppPauses \/ AppFails \/ AppResumes \/ AppReruns
  OBVIOUS
<1>1. /\ T!Pause(eng) = Pause(eng) /\ T!Fail(eng) = Fail(eng)
      /\ T!Resume(eng) = Resume(eng) /\ T!Rerun(eng) = Rerun(eng)
  BY OperationsAgree DEF TIInv, IInv, DriverInv
<1>2. QED  BY <1>1 DEF TOperates, AppPauses, AppFails, AppResumes, AppReruns

\* The submit: the reference's, except that a flow that has completed or paused
\* keeps drive() going for one round.
LEMMA TAgentAnswersMaps ==
  ASSUME TIInv, TAgentAnswers
  PROVE  /\ IInv'
         /\ drv = "agent" /\ again = FALSE /\ eng' = SubmitHandoff(eng)
         /\ again' \in BOOLEAN
         /\ again' = TRUE => drv' = "top" /\ eng'.status \in {"completed", "paused"} /\ outcome' = outcome
         /\ again' = FALSE =>
              /\ eng'.status \notin {"completed", "paused"}
              /\ Follow(eng', "top")
<1>1. /\ IInv /\ drv = "agent" /\ again = FALSE /\ outcome = "none"
      /\ eng.flow \in Seq(FlowSteps) /\ eng \in EngineOf(eng.flow)
      /\ InOrder(eng) /\ eng.status = "running"
  BY DEF TIInv, IInv, DriverInv, TAgentAnswers
<1>2. eng' = SubmitHandoff(eng)
  BY <1>1, SubmitAgrees DEF TAgentAnswers
<1>3. /\ credit' = [credit EXCEPT ![eng.step] =
                      IF eng.flow[eng.step].gate = "human" THEN @ - 1 ELSE @]
      /\ runs' = [runs EXCEPT ![eng.step] = @ + 1]
  BY DEF TAgentAnswers
<1>4. /\ eng'.flow = eng.flow /\ eng' \in EngineOf(eng.flow) /\ InOrder(eng')
      /\ CreditInv' /\ RunsInv' /\ HistoryIsWalk'
  BY <1>1, <1>2, <1>3, SubmitKeeps
<1>5. \/ eng'.status = "running" /\ drv' = "top" /\ again' = FALSE /\ outcome' = outcome
      \/ /\ eng'.status \in {"completed", "paused"} /\ drv' = "top" /\ again' = TRUE
         /\ outcome' = outcome
      \/ eng'.status = "waiting" /\ drv' = "gate" /\ again' = FALSE /\ outcome' = outcome
      \/ eng'.status = "failed" /\ drv' = "idle" /\ again' = FALSE /\ outcome' = "err"
  BY DEF TAgentAnswers, HandleAfterSubmit
<1>6. DriverInv' /\ OwingInv' /\ OutcomeMatchesEngine'
  <2>1. owing' = Missing
    BY DEF TAgentAnswers
  <2>2. QED  BY <1>1, <1>4, <1>5, <2>1 DEF DriverInv, OwingInv, OutcomeMatchesEngine
<1>7. IInv'
  BY <1>4, <1>6 DEF IInv
<1>8. again' = FALSE => eng'.status \notin {"completed", "paused"} /\ Follow(eng', "top")
  BY <1>5 DEF Follow, Return
<1>9. QED  BY <1>1, <1>2, <1>5, <1>7, <1>8

\* Every step of either edition preserves the invariant.
LEMMA TNextTIInv == TIInv /\ [TNext]_tvars => TIInv'
<1> SUFFICES ASSUME TIInv, [TNext]_tvars PROVE TIInv'
  OBVIOUS
<1>1. CASE Reference
  <2>1. IInv' /\ edition' = edition /\ edition = "rust-ref" /\ again' = again
    BY <1>1, NextIInv DEF TIInv, Reference
  <2>2. QED  BY <2>1 DEF TIInv
<1>2. CASE TDrive
  <2>1. Drive /\ UNCHANGED <<edition, again>> /\ drv = "idle"
    BY <1>2 DEF TDrive, Drive
  <2>2. IInv'
    BY <2>1, DriveKeeps DEF TIInv
  <2>3. QED  BY <2>1, <2>2 DEF TIInv
<1>3. CASE TTopOfLoop
  <2>1. IInv' /\ edition' = edition /\ again' = FALSE
    BY <1>3, TopOfLoopMaps, TopOfLoopKeeps DEF TIInv, TTopOfLoop
  <2>2. QED  BY <2>1 DEF TIInv
<1>4. CASE TAgentAnswers
  <2>1. edition' = edition /\ edition = "a2r"
    BY <1>4 DEF TAgentAnswers
  <2>2. QED  BY <1>4, <2>1, TAgentAnswersMaps DEF TIInv
<1>5. CASE TAgentFails
  <2>1. IInv' /\ UNCHANGED <<edition, again>> /\ drv = "agent"
    BY <1>5, TAgentFailsMaps, AgentFailsKeeps DEF TIInv, TAgentFails
  <2>2. QED  BY <2>1 DEF TIInv
<1>6. CASE TDecide
  <2>1. IInv' /\ UNCHANGED <<edition, again>> /\ drv = "gate"
    BY <1>6, TDecideMaps, DecideKeeps DEF TIInv, TDecide
  <2>2. QED  BY <2>1 DEF TIInv
<1>7. CASE TOperates
  <2>1. UNCHANGED <<edition, again>> /\ drv = "idle"
    BY <1>7 DEF TOperates, Operate
  <2>2. IInv'
    BY <1>7, TOperatesMaps, AppPausesKeeps, AppFailsKeeps, AppResumesKeeps, AppRerunsKeeps DEF TIInv
  <2>3. QED  BY <2>1, <2>2 DEF TIInv
<1>8. CASE UNCHANGED tvars
  <2>1. UNCHANGED vars /\ UNCHANGED <<edition, again>>
    BY <1>8 DEF tvars
  <2>2. IInv'
    BY <2>1, NextIInv DEF TIInv
  <2>3. QED  BY <2>1, <2>2 DEF TIInv, vars
<1>9. QED  BY <1>1, <1>2, <1>3, <1>4, <1>5, <1>6, <1>7, <1>8 DEF TNext

\* A run of both editions, and the same run with its ledger kept.
LEMMA LedgerIsBeside == LInit => TInit
BY DEF LInit
\* The ledger watches the pipeline and never changes it.
LEMMA LedgerStepsBeside == [LNext]_lvars => [TNext]_tvars
BY DEF LNext, lvars

\* Both editions keep the invariant of the pipeline, whether or not the ledger
\* is kept beside it.
THEOREM EditionsInvariance == TSpec \/ LSpec => []TIInv
BY TInitTIInv, TNextTIInv, LedgerIsBeside, LedgerStepsBeside, PTL DEF TSpec, LSpec

\* What the reference's driver guarantees the transpiled one guarantees too:
\* the recorded steps are a walk through the flow, a step behind a human gate
\* has one decision for every visit, no loop exceeds its bound, and no flow gets
\* past a step whose agent failed.
THEOREM EditionsSafe ==
  TSpec \/ LSpec => [](HistoryIsWalk /\ GateBeforeWork /\ LoopBounded /\ OutcomeMatchesEngine)
<1>1. TIInv => HistoryIsWalk /\ GateBeforeWork /\ LoopBounded /\ OutcomeMatchesEngine
  <2>1. IInv => HistoryIsWalk /\ OutcomeMatchesEngine
    BY DEF IInv
  <2>2. IInv => GateBeforeWork
    BY DEF IInv, DriverInv, InOrder, CreditInv, GateBeforeWork
  <2>3. IInv => LoopBounded
    BY DEF IInv, RunsInv, LoopBounded
  <2>4. QED  BY <2>1, <2>2, <2>3 DEF TIInv
<1>2. QED  BY <1>1, EditionsInvariance, PTL

-----------------------------------------------------------------------------
(* The transpiled driver implements the reference's *)

\* The engine's operations do not look at drive().
LEMMA RefOperations ==
  /\ \A e : Ref!Advance(e) = Advance(e)
  /\ \A e : Ref!SubmitHandoff(e) = SubmitHandoff(e)
  /\ \A e : Ref!ResolveGate(e) = ResolveGate(e)
  /\ \A e : Ref!Resume(e) = Resume(e)
  /\ \A e : Ref!Rerun(e) = Rerun(e)
  /\ \A e : Ref!Pause(e) = Pause(e) /\ Ref!Fail(e) = Fail(e)
  /\ \A f : Ref!New(f) = New(f) /\ Ref!Zero(f) = Zero(f)
<1>1. \A e : Ref!Advance(e) = Advance(e)
  BY DEF Ref!Advance, Advance
<1>2. \A e : Ref!Route(e) = Route(e)
  BY <1>1 DEF Ref!Route, Route
<1>3. QED
  BY <1>1, <1>2 DEF Ref!SubmitHandoff, SubmitHandoff, Ref!ResolveGate, ResolveGate, Ref!Resume, Resume,
     Ref!Rerun, Rerun, Ref!CanRerun, CanRerun, Ref!Pause, Pause, Ref!Fail, Fail, Ref!New, New, Ref!Zero, Zero

\* Outside the extra round the reference seen through the mapping is the
\* reference.
LEMMA RefNext ==
  ASSUME again = FALSE, again' = FALSE, Next
  PROVE  Ref!Next
<1>1. \A e, r : Follow(e, r) => Ref!Follow(e, r)
  BY DEF Follow, Ref!Follow, Return, Ref!Return
<1>2. \A h : Return(h) => Ref!Return(h)
  BY DEF Return, Ref!Return
<1>3. Drive => Ref!Drive
  BY DEF Drive, Ref!Drive
<1>4. TopOfLoop => Ref!TopOfLoop
  BY <1>1, RefOperations DEF TopOfLoop, Ref!TopOfLoop
<1>5. AgentAnswers => Ref!AgentAnswers
  BY <1>1, RefOperations DEF AgentAnswers, Submit, Ref!AgentAnswers, Ref!Submit
<1>6. AgentFails => Ref!AgentFails
  BY <1>2 DEF AgentFails, Ref!AgentFails
<1>7. Decide => Ref!Decide
  BY <1>2, RefOperations DEF Decide, Ref!Decide
<1>8. \A e : Operate(e) => Ref!Operate(e)
  BY DEF Operate, Ref!Operate
<1>9. AppPauses => Ref!AppPauses
  BY <1>8, RefOperations DEF AppPauses, Ref!AppPauses
<1>10. AppFails => Ref!AppFails
  BY <1>8, RefOperations DEF AppFails, Ref!AppFails
<1>11. AppResumes => Ref!AppResumes
  BY <1>8, RefOperations DEF AppResumes, Ref!AppResumes
<1>12. AppReruns => Ref!AppReruns
  BY <1>8, RefOperations DEF AppReruns, Ref!AppReruns, CanRerun, Ref!CanRerun
<1>13. QED
  BY <1>3, <1>4, <1>5, <1>6, <1>7, <1>9, <1>10, <1>11, <1>12 DEF Next, Ref!Next

\* The submit that ends the flow: for the reference drive() has returned.
LEMMA RefAgentAnswers ==
  ASSUME TIInv, TAgentAnswers
  PROVE  Ref!AgentAnswers
<1>1. /\ drv = "agent" /\ again = FALSE /\ eng' = SubmitHandoff(eng) /\ again' \in BOOLEAN
      /\ again' = TRUE => eng'.status \in {"completed", "paused"}
      /\ again' = FALSE => Follow(eng', "top")
  BY TAgentAnswersMaps
<1>2. Ref!Follow(eng', "top")
  <2>1. CASE again' = TRUE
    BY <1>1, <2>1 DEF Ref!Follow, Ref!Return
  <2>2. CASE again' = FALSE
    BY <1>1, <2>2 DEF Follow, Ref!Follow, Return, Ref!Return
  <2>3. QED  BY <1>1, <2>1, <2>2
<1>3. eng' = Ref!SubmitHandoff(eng)
  BY <1>1, RefOperations
<1>4. QED
  BY <1>1, <1>2, <1>3 DEF TAgentAnswers, Ref!AgentAnswers, Ref!Submit

\* The extra round changes nothing the reference has.
LEMMA RefExtraRound ==
  ASSUME TIInv, TTopOfLoop, again = TRUE
  PROVE  UNCHANGED Ref!vars
<1>1. eng' = eng /\ drv' = "idle" /\ outcome' = "ok"
  BY TopOfLoopMaps DEF Return
<1>2. QED
  BY <1>1 DEF Ref!vars, TTopOfLoop

\* Every step of the transpiled pipeline is a step of the reference, or none.
LEMMA StepImplementsReference ==
  TIInv /\ [TNext]_tvars => [Ref!Next]_(Ref!vars)
<1> SUFFICES ASSUME TIInv, [TNext]_tvars PROVE Ref!Next \/ UNCHANGED Ref!vars
  OBVIOUS
<1>1. CASE Reference
  <2>1. Next /\ again = FALSE /\ again' = FALSE
    BY <1>1 DEF Reference, TIInv
  <2>2. QED  BY <2>1, RefNext
<1>2. CASE TDrive
  <2>1. Next /\ again = FALSE /\ again' = FALSE
    BY <1>2 DEF TDrive, Drive, Next, TIInv
  <2>2. QED  BY <2>1, RefNext
<1>3. CASE TTopOfLoop
  <2>1. CASE again = TRUE
    BY <1>3, <2>1, RefExtraRound
  <2>2. CASE again = FALSE
    <3>1. Next /\ again' = FALSE
      BY <1>3, TopOfLoopMaps DEF TTopOfLoop, Next
    <3>2. QED  BY <2>2, <3>1, RefNext
  <2>3. QED  BY <2>1, <2>2 DEF TIInv
<1>4. CASE TAgentAnswers
  BY <1>4, RefAgentAnswers DEF Ref!Next
<1>5. CASE TAgentFails
  <2>1. Next /\ again = FALSE /\ again' = FALSE
    BY <1>5, TAgentFailsMaps DEF TAgentFails, Next, TIInv
  <2>2. QED  BY <2>1, RefNext
<1>6. CASE TDecide
  <2>1. Next /\ again = FALSE /\ again' = FALSE
    BY <1>6, TDecideMaps DEF TDecide, Next, TIInv
  <2>2. QED  BY <2>1, RefNext
<1>7. CASE TOperates
  <2>1. Next /\ again = FALSE /\ again' = FALSE
    BY <1>7, TOperatesMaps DEF TOperates, Operate, Next, TIInv
  <2>2. QED  BY <2>1, RefNext
<1>8. CASE UNCHANGED tvars
  BY <1>8 DEF tvars, vars, Ref!vars
<1>9. QED  BY <1>1, <1>2, <1>3, <1>4, <1>5, <1>6, <1>7, <1>8 DEF TNext

\* The transpiled pipeline starts where the reference does.
LEMMA InitImplementsReference == TInit => Ref!Init
<1> SUFFICES ASSUME TInit PROVE Ref!Init
  OBVIOUS
<1>1. Init /\ again = FALSE
  BY DEF TInit
<1>2. QED  BY <1>1, RefOperations DEF Init, Ref!Init

\* The transpiled driver does what the reference does, step for step, apart
\* from the round it goes after the flow has completed or paused.
THEOREM TranspiledImplementsReference == TSpec \/ LSpec => ImplementsReference
<1>1. TSpec \/ LSpec => Ref!Init
  BY LedgerIsBeside, InitImplementsReference, PTL DEF TSpec, LSpec
<1>2. TSpec \/ LSpec => [][TNext]_tvars
  BY LedgerStepsBeside, PTL DEF TSpec, LSpec
<1>3. QED
  BY <1>1, <1>2, EditionsInvariance, StepImplementsReference, PTL DEF ImplementsReference, Ref!Spec

-----------------------------------------------------------------------------
(* Sums *)

\* A set of numbers that has 0 and with every number the next has them all:
\* induction over the numbers that have a property is this for their set.
LEMMA SetInduction ==
  ASSUME NEW S \in SUBSET Nat, 0 \in S, \A n \in S : n + 1 \in S
  PROVE  S = Nat
<1> DEFINE R == OpToRel(<, Nat)
<1>1. SUFFICES ASSUME Nat \ S # {} PROVE FALSE
  OBVIOUS
<1>2. IsWellFoundedOn(R, Nat)
  BY NatLessThanWellFounded
<1>3. \A a, b \in Nat : a < b => <<a, b>> \in R
  BY DEF OpToRel
<1> HIDE DEF R
<1>4. PICK x \in Nat \ S : \A y \in Nat \ S : ~(<<y, x>> \in R)
  <2>1. Nat \ S \subseteq Nat
    OBVIOUS
  <2>2. QED  BY <1>1, <1>2, <2>1, WFMin
<1>5. x # 0 /\ x - 1 \in Nat /\ x - 1 < x
  BY <1>4
<1>6. x - 1 \in S
  BY <1>3, <1>4, <1>5
<1>7. x - 1 + 1 \in S
  BY <1>6
<1>8. QED
  BY <1>4, <1>5, <1>7

\* g has the sums of the first 0, 1, ..., n values of v.
AddsUp(g, v, n) == g = [i \in 0..n |-> IF i = 0 THEN 0 ELSE g[i - 1] + v[i]]

\* A running sum grows by one entry at a time.
LEMMA AddsUpSteps ==
  ASSUME NEW n \in Nat, NEW v, NEW g, AddsUp(g, v, n)
  PROVE  /\ g[0] = 0
         /\ \A i \in 1..n : g[i] = g[i - 1] + v[i]
<1>1. g = [i \in 0..n |-> IF i = 0 THEN 0 ELSE g[i - 1] + v[i]]
  BY DEF AddsUp
<1>2. g[0] = 0
  BY <1>1
<1>3. ASSUME NEW i \in 1..n PROVE g[i] = g[i - 1] + v[i]
  <2>1. i \in 0..n /\ i # 0
    OBVIOUS
  <2>2. QED  BY <1>1, <2>1
<1>4. QED  BY <1>2, <1>3

\* Any values have a running sum.
LEMMA AddsUpExists ==
  ASSUME NEW v
  PROVE  \A n \in Nat : \E g : AddsUp(g, v, n)
<1> DEFINE S == {n \in Nat : \E g : AddsUp(g, v, n)}
<1>1. 0 \in S
  <2> DEFINE g == [i \in 0..0 |-> 0]
  <2>1. AddsUp(g, v, 0)
    BY DEF AddsUp
  <2>2. QED  BY <2>1
<1>2. ASSUME NEW n \in S PROVE n + 1 \in S
  <2>1. PICK g : AddsUp(g, v, n)
    OBVIOUS
  <2>2. g[0] = 0 /\ \A i \in 1..n : g[i] = g[i - 1] + v[i]
    BY <2>1, AddsUpSteps
  <2> DEFINE h == [i \in 0..(n + 1) |-> IF i = n + 1 THEN g[n] + v[n + 1] ELSE g[i]]
             k == [i \in 0..(n + 1) |-> IF i = 0 THEN 0 ELSE h[i - 1] + v[i]]
  <2>3. \A i \in 0..(n + 1) : h[i] = IF i = 0 THEN 0 ELSE h[i - 1] + v[i]
    <3> TAKE i \in 0..(n + 1)
    <3>1. CASE i = 0
      BY <3>1, <2>2
    <3>2. CASE i = n + 1
      BY <3>2
    <3>3. CASE i \in 1..n
      <4>1. h[i] = g[i] /\ h[i - 1] = g[i - 1] /\ i # 0
        BY <3>3
      <4>2. QED  BY <4>1, <3>3, <2>2
    <3>4. QED  BY <3>1, <3>2, <3>3
  <2>4. h = k
    BY <2>3
  <2>5. AddsUp(h, v, n + 1)
    BY <2>4 DEF AddsUp
  <2>6. QED  BY <2>5
<1>3. S = Nat
  <2>1. S \in SUBSET Nat
    OBVIOUS
  <2> HIDE DEF S
  <2>2. QED  BY <1>1, <1>2, <2>1, SetInduction
<1>4. QED  BY <1>3

\* Two tables of sums agree as long as their values do, and are numbers when
\* these are.
LEMMA AddsUpAgree ==
  ASSUME NEW m \in Nat, NEW n \in Nat, NEW k \in Nat, k <= m, k <= n,
         NEW v, NEW w, NEW g, NEW h, AddsUp(g, v, m), AddsUp(h, w, n),
         \A i \in 1..k : v[i] = w[i] /\ v[i] \in Nat
  PROVE  g[k] = h[k] /\ g[k] \in Nat
<1> DEFINE S == {i \in Nat : i <= k => g[i] = h[i] /\ g[i] \in Nat}
<1>1. /\ g[0] = 0 /\ \A i \in 1..m : g[i] = g[i - 1] + v[i]
      /\ h[0] = 0 /\ \A i \in 1..n : h[i] = h[i - 1] + w[i]
  BY AddsUpSteps
<1>2. 0 \in S
  BY <1>1
<1>3. ASSUME NEW i \in S PROVE i + 1 \in S
  <2>1. SUFFICES ASSUME i + 1 <= k PROVE g[i + 1] = h[i + 1] /\ g[i + 1] \in Nat
    OBVIOUS
  <2>2. i + 1 \in 1..k /\ i + 1 \in 1..m /\ i + 1 \in 1..n /\ i + 1 - 1 = i /\ i <= k
    BY <2>1
  <2>3. g[i] = h[i] /\ g[i] \in Nat
    BY <2>2
  <2>4. g[i + 1] = g[i] + v[i + 1] /\ h[i + 1] = h[i] + w[i + 1]
    BY <1>1, <2>2
  <2>5. QED  BY <2>2, <2>3, <2>4
<1>4. S = Nat
  <2>1. S \in SUBSET Nat
    OBVIOUS
  <2> HIDE DEF S
  <2>2. QED  BY <1>2, <1>3, <2>1, SetInduction
<1>5. QED  BY <1>4

\* Sum is that running sum.
LEMMA SumAddsUp ==
  ASSUME NEW v, NEW n \in Nat
  PROVE  \E g : AddsUp(g, v, n) /\ Sum(v, n) = g[n]
<1> DEFINE upto == CHOOSE g : g = [i \in 0..n |-> IF i = 0 THEN 0 ELSE g[i - 1] + v[i]]
<1>1. \E g : g = [i \in 0..n |-> IF i = 0 THEN 0 ELSE g[i - 1] + v[i]]
  BY AddsUpExists DEF AddsUp
<1>2. upto = [i \in 0..n |-> IF i = 0 THEN 0 ELSE upto[i - 1] + v[i]]
  BY <1>1
<1>3. Sum(v, n) = upto[n]
  BY DEF Sum
<1>4. QED  BY <1>2, <1>3 DEF AddsUp

\* What the proofs use of a sum: none, one more, and that it looks no further
\* than it is asked to.
LEMMA SumOfNone ==
  ASSUME NEW v PROVE Sum(v, 0) = 0
BY SumAddsUp, AddsUpSteps

\* Values that agree up to n have the same sum up to n.
LEMMA SumAgrees ==
  ASSUME NEW n \in Nat, NEW v, NEW w, \A i \in 1..n : v[i] = w[i] /\ v[i] \in Nat
  PROVE  Sum(v, n) = Sum(w, n) /\ Sum(v, n) \in Nat
<1>1. PICK g : AddsUp(g, v, n) /\ Sum(v, n) = g[n]
  BY SumAddsUp
<1>2. PICK h : AddsUp(h, w, n) /\ Sum(w, n) = h[n]
  BY SumAddsUp
<1>3. g[n] = h[n] /\ g[n] \in Nat
  BY <1>1, <1>2, AddsUpAgree
<1>4. QED  BY <1>1, <1>2, <1>3

\* One more entry adds its value to the sum.
LEMMA SumOfMore ==
  ASSUME NEW n \in Nat, NEW v, \A i \in 1..(n + 1) : v[i] \in Nat
  PROVE  Sum(v, n + 1) = Sum(v, n) + v[n + 1]
<1>1. PICK g : AddsUp(g, v, n) /\ Sum(v, n) = g[n]
  BY SumAddsUp
<1>2. PICK h : AddsUp(h, v, n + 1) /\ Sum(v, n + 1) = h[n + 1]
  BY SumAddsUp
<1>3. g[n] = h[n]
  <2>1. \A i \in 1..n : v[i] = v[i] /\ v[i] \in Nat
    OBVIOUS
  <2>2. n + 1 \in Nat /\ n <= n + 1
    OBVIOUS
  <2>3. QED  BY <1>1, <1>2, <2>1, <2>2, AddsUpAgree
<1>4. h[n + 1] = h[n] + v[n + 1]
  <2>1. n + 1 \in Nat /\ n + 1 \in 1..(n + 1) /\ n + 1 - 1 = n
    OBVIOUS
  <2>2. h[n + 1] = h[n + 1 - 1] + v[n + 1]
    BY <1>2, <2>1, AddsUpSteps
  <2>3. QED  BY <2>1, <2>2
<1>5. QED  BY <1>1, <1>2, <1>3, <1>4

-----------------------------------------------------------------------------
(* The ledger *)

\* A step of either driver keeps the flow and either the history, or records
\* the step the engine stands at.
LEMMA HistoryGrows ==
  ASSUME TIInv, TNext
  PROVE  /\ eng'.flow = eng.flow
         /\ \/ eng'.history = eng.history
            \/ eng.step \in DOMAIN eng.flow /\ eng'.history = Append(eng.history, eng.step)
<1>1. /\ eng.flow \in Seq(FlowSteps) /\ eng \in EngineOf(eng.flow) /\ InOrder(eng)
      /\ drv = "agent" => eng.status = "running"
      /\ drv = "gate" => eng.status = "waiting"
  BY DEF TIInv, IInv, DriverInv
<1> DEFINE Same == eng'.flow = eng.flow /\ eng'.history = eng.history
<1>2. Drive \/ AgentFails => Same
  BY DEF Drive, AgentFails
<1>3. TopOfLoop => Same
  BY <1>1, AdvanceInOrder DEF TopOfLoop, SamePlace
<1>4. drv = "agent" /\ eng' = SubmitHandoff(eng) =>
        /\ eng'.flow = eng.flow /\ eng.step \in DOMAIN eng.flow
        /\ eng'.history = Append(eng.history, eng.step)
  BY <1>1, SubmitFacts DEF Submitted, InOrder
<1>5. Decide => Same
  <2>1. SUFFICES ASSUME Decide PROVE Same
    OBVIOUS
  <2>2. eng' = ResolveGate(eng) /\ eng.status = "waiting"
    BY <1>1, <2>1 DEF Decide
  <2>3. eng' \in EngineOf(eng.flow) /\ eng'.history = eng.history
    BY <1>1, <2>2, ResolveFacts
  <2>4. QED  BY <2>3 DEF EngineOf
<1>6. AppPauses \/ AppFails => Same
  BY <1>1 DEF AppPauses, AppFails, Operate, Pause, Fail, EngineOf
<1>7. AppResumes => Same
  <2>1. SUFFICES ASSUME AppResumes PROVE Same
    OBVIOUS
  <2>2. eng' = Resume(eng)
    BY <2>1 DEF AppResumes, Operate
  <2>3. CASE eng.status # "paused"
    BY <2>2, <2>3 DEF Resume
  <2>4. CASE eng.status = "paused"
    <3>1. eng' \in EngineOf(eng.flow) /\ eng'.history = eng.history
      BY <1>1, <2>2, <2>4, ResumeFacts
    <3>2. QED  BY <3>1 DEF EngineOf
  <2>5. QED  BY <2>3, <2>4
<1>8. AppReruns => Same
  <2>1. SUFFICES ASSUME AppReruns PROVE Same
    OBVIOUS
  <2>2. eng' = Rerun(eng)
    BY <2>1 DEF AppReruns, Operate
  <2>3. CASE eng.status # "failed" \/ eng.step > Len(eng.flow)
    BY <1>1, <2>2, <2>3 DEF Rerun, CanRerun, EngineOf
  <2>4. CASE eng.status = "failed" /\ eng.step <= Len(eng.flow)
    <3>1. eng' \in EngineOf(eng.flow) /\ eng'.history = eng.history
      BY <1>1, <2>2, <2>4, RerunFacts
    <3>2. QED  BY <3>1 DEF EngineOf
  <2>5. QED  BY <1>1, <2>3, <2>4 DEF EngineOf
<1> HIDE DEF Same
<1>9. CASE Reference
  <2>1. AgentAnswers => drv = "agent" /\ eng' = SubmitHandoff(eng)
    BY DEF AgentAnswers, Submit
  <2>2. QED
    BY <1>2, <1>3, <1>4, <1>5, <1>6, <1>7, <1>8, <1>9, <2>1 DEF Reference, Next, Same
<1>10. CASE TAgentAnswers
  BY <1>4, <1>10, TAgentAnswersMaps
<1>11. CASE TDrive \/ TTopOfLoop \/ TAgentFails \/ TDecide \/ TOperates
  <2>1. TDrive => Drive
    BY DEF TDrive
  <2>2. Same
    BY <1>2, <1>3, <1>5, <1>6, <1>7, <1>8, <1>11, <2>1,
       TopOfLoopMaps, TAgentFailsMaps, TDecideMaps, TOperatesMaps
  <2>3. QED  BY <2>2 DEF Same
<1>12. QED  BY <1>9, <1>10, <1>11 DEF TNext

Roles == {RoleOf(s) : s \in Nat}
HandoffDocuments ==
  [from : Roles, to : Roles \cup {Unnamed}, tokens : Nat, cumulative : Nat, remaining : SUBSET Nat]

\* The ledger's invariant: one document per recorded step, by its role, to
\* nobody or to the role of the step's successor; the tracker's entry of a role,
\* absent for 0, is the sum of its documents; and what the application was told.
LedgerInv ==
  /\ eng.flow \in Flows /\ cost \in Costs
  /\ docs \in Seq(HandoffDocuments) /\ Len(docs) = Len(eng.history)
  /\ spent \in Nat /\ spent = Sum(Tokens, Len(docs)) /\ tracked.cumulative = spent
  /\ \A r : Used(tracked, r) = Sum(TokensOf(r), Len(docs))
  /\ \A i \in 1..Len(docs) :
       /\ docs[i].from = RoleOf(eng.history[i])
       /\ docs[i].to \in {Unnamed, RoleOf(Successor(eng.history[i]))}
       /\ docs[i].from \in DOMAIN tracked.perStep
       /\ docs[i].cumulative = Sum(Tokens, i)
       /\ docs[i].remaining = Left(docs[i].cumulative)
       /\ (/\ stepLimit = << >>
           /\ docs[i].cumulative >= WarningAt(Limit)
           /\ edition = "a2r" => i < Len(docs))
          => docs[i].remaining \subseteq told

\* An empty ledger is balanced.
LEMMA LInitLedgerInv == LInit => LedgerInv
<1> SUFFICES ASSUME LInit PROVE LedgerInv
  OBVIOUS
<1>1. /\ Init /\ docs = <<>> /\ spent = 0 /\ tracked = [cumulative |-> 0, perStep |-> << >>]
      /\ cost \in Costs
  BY DEF LInit, TInit, NothingSpent
<1>2. PICK f \in Flows : eng = New(f)
  BY <1>1 DEF Init
<1>3. eng.flow \in Flows /\ eng.history = <<>>
  BY <1>2 DEF New
<1>4. Len(docs) = 0 /\ docs \in Seq(HandoffDocuments)
  BY <1>1
<1>5. spent = Sum(Tokens, Len(docs)) /\ tracked.cumulative = spent
  BY <1>1, <1>4, SumOfNone
<1>6. \A r : Used(tracked, r) = Sum(TokensOf(r), Len(docs))
  <2>1. \A r : r \notin DOMAIN tracked.perStep
    BY <1>1
  <2>2. QED  BY <1>4, <2>1, SumOfNone DEF Used
<1>7. QED  BY <1>1, <1>3, <1>4, <1>5, <1>6 DEF LedgerInv

\* What a document says of its step, whatever was recorded before.
LEMMA DocumentFacts ==
  ASSUME NEW s \in Nat, NEW n \in Nat, spent \in Nat, Limit \in Nat,
         eng.flow \in Seq(FlowSteps), s \in DOMAIN eng.flow
  PROVE  LET d == Document(s, n) IN
         /\ d \in HandoffDocuments
         /\ d.from = RoleOf(s) /\ d.to \in {Unnamed, RoleOf(Successor(s))}
         /\ d.tokens = n /\ d.cumulative = spent + n /\ d.remaining = Left(spent + n)
<1> DEFINE x == eng.flow[s]
           t == IF x.exit = "next" THEN s + 1 ELSE x.target
<1>1. DOMAIN eng.flow \subseteq Nat
  OBVIOUS
<1>2. t \in DOMAIN eng.flow => t = Successor(s)
  BY DEF Successor
<1>3. Expected(s) \in {Unnamed, RoleOf(Successor(s))} /\ Expected(s) \in Roles \cup {Unnamed}
  <2>1. Expected(s) = IF t \in DOMAIN eng.flow THEN RoleOf(t) ELSE Unnamed
    BY DEF Expected
  <2>2. CASE t \in DOMAIN eng.flow
    <3>1. RoleOf(t) \in Roles /\ RoleOf(t) = RoleOf(Successor(s))
      BY <1>1, <1>2, <2>2 DEF Roles
    <3>2. QED  BY <2>1, <2>2, <3>1
  <2>3. QED  BY <2>1, <2>2
<1>4. Addressed(s) \in {Unnamed, RoleOf(Successor(s))} /\ Addressed(s) \in Roles \cup {Unnamed}
  BY <1>3 DEF Addressed
<1>5. RoleOf(s) \in Roles
  BY DEF Roles
<1>6. Left(spent + n) \in SUBSET Nat
  BY DEF Left
<1>7. QED
  BY <1>4, <1>5, <1>6 DEF Document, HandoffDocument, HandoffDocuments

\* The sums of a ledger one document longer.
LEMMA SumsGrow ==
  ASSUME docs \in Seq(HandoffDocuments), NEW d \in HandoffDocuments, docs' = Append(docs, d)
  PROVE  /\ \A i \in 0..Len(docs) : Sum(Tokens', i) = Sum(Tokens, i) /\ Sum(Tokens, i) \in Nat
         /\ Sum(Tokens', Len(docs) + 1) = Sum(Tokens, Len(docs)) + d.tokens
         /\ \A r : /\ Sum(TokensOf(r)', Len(docs) + 1) =
                        Sum(TokensOf(r), Len(docs)) + IF d.from = r THEN d.tokens ELSE 0
                   /\ Sum(TokensOf(r), Len(docs)) \in Nat
<1> DEFINE n == Len(docs)
<1>1. /\ n \in Nat /\ DOMAIN docs = 1..n /\ DOMAIN docs' = 1..(n + 1)
      /\ docs'[n + 1] = d /\ \A i \in 1..n : docs'[i] = docs[i] /\ docs[i] \in HandoffDocuments
  OBVIOUS
<1>2. d.tokens \in Nat /\ \A i \in 1..n : docs[i].tokens \in Nat
  BY <1>1 DEF HandoffDocuments
<1>3. /\ \A i \in 1..n : Tokens[i] = docs[i].tokens /\ Tokens'[i] = docs[i].tokens
      /\ Tokens'[n + 1] = d.tokens
  BY <1>1 DEF Tokens
<1> HIDE DEF n
<1>4. ASSUME NEW i \in 0..n PROVE Sum(Tokens', i) = Sum(Tokens, i) /\ Sum(Tokens, i) \in Nat
  <2>1. i \in Nat /\ \A j \in 1..i : Tokens[j] = Tokens'[j] /\ Tokens[j] \in Nat
    BY <1>1, <1>2, <1>3
  <2>2. QED  BY <2>1, SumAgrees
<1>5. Sum(Tokens', n + 1) = Sum(Tokens, n) + d.tokens
  <2>1. \A i \in 1..(n + 1) : Tokens'[i] \in Nat
    BY <1>1, <1>2, <1>3
  <2>2. Sum(Tokens', n + 1) = Sum(Tokens', n) + Tokens'[n + 1]
    BY <1>1, <2>1, SumOfMore
  <2>3. n \in 0..n
    BY <1>1
  <2>4. QED  BY <1>3, <1>4, <2>2, <2>3
<1>6. ASSUME NEW r
      PROVE  /\ Sum(TokensOf(r)', n + 1) = Sum(TokensOf(r), n) + IF d.from = r THEN d.tokens ELSE 0
             /\ Sum(TokensOf(r), n) \in Nat
  <2> DEFINE v == TokensOf(r)
             w == TokensOf(r)'
  <2>1. /\ \A i \in 1..n : v[i] = w[i] /\ v[i] \in Nat
        /\ w[n + 1] = IF d.from = r THEN d.tokens ELSE 0
    <3>1. v = [i \in 1..n |-> IF docs[i].from = r THEN docs[i].tokens ELSE 0]
      BY <1>1 DEF TokensOf
    <3>2. w = [i \in 1..(n + 1) |-> IF docs'[i].from = r THEN docs'[i].tokens ELSE 0]
      BY <1>1 DEF TokensOf
    <3> HIDE DEF v, w
    <3>3. \A i \in 1..n : v[i] = w[i] /\ v[i] \in Nat
      BY <1>1, <1>2, <3>1, <3>2
    <3>4. w[n + 1] = IF d.from = r THEN d.tokens ELSE 0
      BY <1>1, <3>2
    <3>5. QED  BY <3>3, <3>4
  <2> HIDE DEF v, w
  <2>2. \A i \in 1..(n + 1) : w[i] \in Nat
    BY <1>1, <1>2, <2>1
  <2>3. Sum(w, n + 1) = Sum(w, n) + w[n + 1]
    BY <1>1, <2>2, SumOfMore
  <2>4. Sum(v, n) = Sum(w, n) /\ Sum(v, n) \in Nat
    BY <1>1, <2>1, SumAgrees
  <2>5. Sum(w, n + 1) = Sum(v, n) + IF d.from = r THEN d.tokens ELSE 0
    BY <2>1, <2>3, <2>4
  <2>6. QED  BY <2>4, <2>5 DEF v, w
<1>7. QED  BY <1>4, <1>5, <1>6 DEF n

\* A submitted handoff, charged and recorded.
LEMMA RecordKeeps ==
  ASSUME TIInv, LedgerInv, edition' = edition, eng'.flow = eng.flow,
         eng.step \in DOMAIN eng.flow, eng'.history = Append(eng.history, eng.step),
         Record(eng.step, cost[eng.step])
  PROVE  LedgerInv'
<1> DEFINE s == eng.step
           n == cost[eng.step]
           len == Len(docs)
           d == Document(s, n)
<1>1. /\ eng.flow \in Seq(FlowSteps) /\ eng.history \in Seq(DOMAIN eng.flow)
      /\ s \in Nat /\ n \in Nat /\ Limit \in Nat /\ spent \in Nat
  <2>1. eng.flow \in Seq(FlowSteps) /\ eng.history \in Seq(DOMAIN eng.flow)
    BY DEF TIInv, IInv, DriverInv, EngineOf
  <2>2. s \in Nat
    BY <2>1
  <2>3. QED  BY <2>1, <2>2, LedgerAssumption DEF LedgerInv
<1>2. /\ d \in HandoffDocuments
      /\ d.from = RoleOf(s) /\ d.to \in {Unnamed, RoleOf(Successor(s))}
      /\ d.tokens = n /\ d.cumulative = spent + n /\ d.remaining = Left(spent + n)
  BY <1>1, DocumentFacts
<1>3. /\ docs' = Append(docs, d) /\ spent' = spent + n
      /\ tracked' = Charge(tracked, RoleOf(s), n)
      /\ told' = told \cup Warnings(AskedAbout(s, n), RoleOf(s))
      /\ UNCHANGED <<stepLimit, cost>>
  BY DEF Record, EmitsWarning
<1> HIDE DEF d
<1>4. /\ docs \in Seq(HandoffDocuments) /\ len \in Nat /\ len = Len(eng.history)
      /\ docs' \in Seq(HandoffDocuments) /\ Len(docs') = len + 1
      /\ docs'[len + 1] = d /\ \A i \in 1..len : docs'[i] = docs[i]
      /\ Len(eng'.history) = len + 1
      /\ eng'.history[len + 1] = s /\ \A i \in 1..len : eng'.history[i] = eng.history[i]
  BY <1>1, <1>2, <1>3 DEF LedgerInv
<1>5. /\ \A i \in 0..len : Sum(Tokens', i) = Sum(Tokens, i) /\ Sum(Tokens, i) \in Nat
      /\ Sum(Tokens', len + 1) = Sum(Tokens, len) + d.tokens
      /\ \A r : /\ Sum(TokensOf(r)', len + 1) =
                     Sum(TokensOf(r), len) + IF d.from = r THEN d.tokens ELSE 0
                /\ Sum(TokensOf(r), len) \in Nat
  BY <1>2, <1>3, <1>4, SumsGrow
<1> HIDE DEF len
<1>6. /\ tracked'.cumulative = tracked.cumulative + n
      /\ DOMAIN tracked'.perStep = DOMAIN tracked.perStep \cup {RoleOf(s)}
      /\ \A r \in DOMAIN tracked'.perStep :
           tracked'.perStep[r] = Used(tracked, r) + (IF r = RoleOf(s) THEN n ELSE 0)
  BY <1>3 DEF Charge
<1>7. /\ spent' \in Nat /\ spent' = Sum(Tokens', len + 1) /\ tracked'.cumulative = spent'
  BY <1>1, <1>2, <1>3, <1>5, <1>6 DEF LedgerInv, len
<1>8. \A r : Used(tracked', r) = Sum(TokensOf(r)', len + 1)
  <2> TAKE r
  <2>1. /\ Used(tracked, r) = Sum(TokensOf(r), len) /\ Sum(TokensOf(r), len) \in Nat
        /\ Sum(TokensOf(r)', len + 1) = Sum(TokensOf(r), len) + IF RoleOf(s) = r THEN n ELSE 0
    BY <1>2, <1>5 DEF LedgerInv, len
  <2>2. CASE r \in DOMAIN tracked'.perStep
    BY <1>6, <2>1, <2>2 DEF Used
  <2>3. CASE r \notin DOMAIN tracked'.perStep
    <3>1. Used(tracked', r) = 0 /\ Used(tracked, r) = 0 /\ r # RoleOf(s)
      BY <1>6, <2>3 DEF Used
    <3>2. QED  BY <2>1, <3>1
  <2>4. QED  BY <2>2, <2>3
<1>9. \A k : Successor(k)' = Successor(k)
  BY DEF Successor
<1>10. \A x : Left(x)' = Left(x)
  BY DEF Left
<1>11. ASSUME NEW i \in 1..(len + 1)
       PROVE  /\ docs'[i].from = RoleOf(eng'.history[i])
              /\ docs'[i].to \in {Unnamed, RoleOf(Successor(eng'.history[i]))}
              /\ docs'[i].from \in DOMAIN tracked'.perStep
              /\ docs'[i].cumulative = Sum(Tokens', i)
              /\ docs'[i].remaining = Left(docs'[i].cumulative)
  <2>1. CASE i \in 1..len
    <3>1. docs'[i] = docs[i] /\ eng'.history[i] = eng.history[i] /\ Sum(Tokens', i) = Sum(Tokens, i)
      BY <1>4, <1>5, <2>1
    <3>2. QED  BY <1>6, <2>1, <3>1 DEF LedgerInv, len
  <2>2. CASE i = len + 1
    <3>1. docs'[i] = d /\ eng'.history[i] = s /\ d.cumulative = Sum(Tokens', i)
      BY <1>2, <1>3, <1>4, <1>7, <2>2
    <3>2. QED  BY <1>2, <1>6, <3>1
  <2>3. QED  BY <1>4, <2>1, <2>2
<1>12. ASSUME NEW i \in 1..(len + 1), stepLimit = << >>, docs'[i].cumulative >= WarningAt(Limit),
              edition = "a2r" => i < len + 1
       PROVE  docs'[i].remaining \subseteq told'
  <2>1. told \subseteq told'
    BY <1>3
  <2>2. \A x : DOMAIN stepLimit = {} /\ x.cumulative >= WarningAt(Limit)
               => Warnings(x, RoleOf(s)) = Remaining(x.cumulative, Limit)
    BY DEF Warnings
  <2>3. DOMAIN stepLimit = {}
    BY <1>12
  <2>4. \A k \in Nat : Left(k) \subseteq Remaining(k, Limit)
    BY <1>1 DEF Left, Remaining
  <2>5. CASE i = len + 1
    <3>1. edition # "a2r" /\ AskedAbout(s, n) = tracked'
      BY <1>3, <1>4, <1>12, <2>5 DEF AskedAbout
    <3>2. docs'[i] = d /\ tracked'.cumulative = d.cumulative /\ d.remaining = Left(d.cumulative)
          /\ d.cumulative \in Nat
      BY <1>1, <1>2, <1>3, <1>4, <1>7, <2>5
    <3>3. Warnings(tracked', RoleOf(s)) = Remaining(d.cumulative, Limit)
      BY <1>12, <2>2, <2>3, <3>2
    <3>4. QED  BY <1>3, <2>4, <3>1, <3>2, <3>3
  <2>6. CASE i = len /\ edition = "a2r"
    <3>1. i \in 1..len /\ AskedAbout(s, n) = tracked
      BY <1>4, <2>6 DEF AskedAbout
    <3>2. docs'[i] = docs[i] /\ docs[i].cumulative = spent /\ tracked.cumulative = spent
          /\ docs[i].remaining = Left(docs[i].cumulative)
      BY <1>4, <2>6, <3>1 DEF LedgerInv, len
    <3>3. Warnings(tracked, RoleOf(s)) = Remaining(spent, Limit)
      BY <1>12, <2>2, <2>3, <3>2
    <3>4. QED  BY <1>1, <1>3, <2>4, <3>1, <3>2, <3>3
  <2>7. CASE i \in 1..len /\ ~(i = len /\ edition = "a2r")
    <3>1. docs'[i] = docs[i] /\ edition = "a2r" => i < len
      BY <1>4, <2>7
    <3>2. docs[i].remaining \subseteq told
      BY <1>12, <1>4, <2>7, <3>1 DEF LedgerInv, len
    <3>3. QED  BY <1>4, <2>1, <2>7, <3>2
  <2>8. QED  BY <1>4, <2>5, <2>6, <2>7
<1>13. eng'.flow \in Flows /\ cost' \in Costs
  BY <1>3 DEF LedgerInv
<1>14. QED
  BY <1>3, <1>4, <1>7, <1>8, <1>9, <1>10, <1>11, <1>12, <1>13 DEF LedgerInv, WarningAt

\* Every step of a run with its ledger preserves both invariants.
LEMMA LNextLedgerInv == TIInv /\ LedgerInv /\ [LNext]_lvars => LedgerInv'
<1> SUFFICES ASSUME TIInv, LedgerInv, [LNext]_lvars PROVE LedgerInv'
  OBVIOUS
<1>1. ASSUME eng'.flow = eng.flow, eng'.history = eng.history, edition' = edition, UNCHANGED ledger
      PROVE  LedgerInv'
  <2>1. \A r : Used(tracked', r) = Used(tracked, r) /\ TokensOf(r)' = TokensOf(r)
    BY <1>1 DEF Used, TokensOf, ledger
  <2>2. Tokens' = Tokens
    BY <1>1 DEF Tokens, ledger
  <2>3. \A k : Successor(k)' = Successor(k) /\ Left(k)' = Left(k)
    BY <1>1 DEF Successor, Left
  <2>4. QED  BY <1>1, <2>1, <2>2, <2>3 DEF LedgerInv, ledger, WarningAt
<1>2. CASE UNCHANGED lvars
  BY <1>1, <1>2 DEF lvars, tvars, vars
<1>3. CASE LNext
  <2>1. TNext
    BY <1>3 DEF LNext
  <2>2. edition' = edition
    BY <2>1 DEF TNext, Reference, TDrive, TTopOfLoop, TAgentAnswers, TAgentFails, TDecide, TOperates
  <2>3. CASE eng'.history = eng.history
    BY <1>1, <1>3, <2>1, <2>2, <2>3, HistoryGrows DEF LNext
  <2>4. CASE eng'.history # eng.history
    BY <1>3, <2>1, <2>2, <2>4, HistoryGrows, RecordKeeps DEF LNext
  <2>5. QED  BY <2>3, <2>4
<1>4. QED  BY <1>2, <1>3

\* The books of every run balance, for all flows, costs and budgets.
THEOREM LedgerSafe == LSpec => []LedgerBalanced
<1>1. TIInv /\ LedgerInv => LedgerBalanced
  <2> SUFFICES ASSUME TIInv, LedgerInv PROVE LedgerBalanced
    OBVIOUS
  <2>1. docs \in Seq(HandoffDocuments) /\ DOMAIN docs = 1..Len(docs) /\ Len(docs) \in Nat
    BY DEF LedgerInv
  <2>2. \A r \in DOMAIN tracked.perStep : tracked.perStep[r] = Sum(TokensOf(r), Len(docs))
    <3>1. \A r \in DOMAIN tracked.perStep : Used(tracked, r) = tracked.perStep[r]
      BY DEF Used
    <3>2. QED  BY <3>1 DEF LedgerInv
  <2>3. ASSUME NEW i \in 1..Len(docs), i < Len(docs)
        PROVE  docs[i].to \in {Unnamed, docs[i + 1].from}
    <3>1. i + 1 \in 1..Len(docs) /\ i \in 1..Len(eng.history) - 1
      BY <2>1, <2>3 DEF LedgerInv
    <3>2. eng.history[i + 1] = Successor(eng.history[i])
      BY <3>1 DEF TIInv, IInv, HistoryIsWalk
    <3>3. docs[i + 1].from = RoleOf(Successor(eng.history[i]))
      BY <3>1, <3>2 DEF LedgerInv
    <3>4. QED  BY <3>3 DEF LedgerInv
  <2>4. QED  BY <2>1, <2>2, <2>3 DEF LedgerInv, LedgerBalanced
<1>2. QED
  BY <1>1, LInitLedgerInv, LNextLedgerInv, EditionsInvariance, PTL DEF LSpec

=============================================================================
