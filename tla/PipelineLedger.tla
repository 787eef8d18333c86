--------------------------- MODULE PipelineLedger ---------------------------
(***************************************************************************)
(* What the pipeline keeps beside its state machine, in both editions: the *)
(* handoff documents of the step records (orchestration/handoff.rs), the   *)
(* token budget (orchestration/budget.rs) and the BudgetWarning events.    *)
(* Both are advisory: no step of the driver depends on them.  A document   *)
(* is its addresses and its token usage; summary, decisions, files and     *)
(* their rendering are left out, as are the counters' widths (u64 in the   *)
(* reference, u32 in the transpiled edition).                              *)
(***************************************************************************)
EXTENDS TranspiledDriver

CONSTANTS
  RoleOf(_),   \* the role_id of a step, by its position
  Costs,       \* bound: what the agents of a flow may spend, by the step's position
  Limit,       \* limit of the run budget
  StepLimits,  \* assignments of step budgets: functions from some roles to limits
  Unnamed      \* the empty target of a handoff

\* Token counts and limits are unsigned; an agent's cost is given for every step.
ASSUME LedgerAssumption ==
  /\ Limit \in Nat
  /\ \A c \in Costs, f \in Flows : \A s \in DOMAIN f : c[s] \in Nat

VARIABLES
  docs,      \* the handoffs in step_history
  spent,     \* cumulative_tokens
  tracked,   \* budget_tracker: [cumulative, perStep]
  stepLimit, \* budget_tracker.step_budgets, keyed by role as the engine asks
  told,      \* the `remaining` of every BudgetWarning
  cost       \* total_tokens of an agent's result, by step

ledger == <<docs, spent, tracked, stepLimit, told, cost>>
lvars == <<tvars, ledger>>

\* BudgetTracker::new.
NothingSpent == [cumulative |-> 0, perStep |-> << >>]

LInit ==
  /\ TInit
  /\ docs = <<>> /\ spent = 0 /\ told = {} /\ tracked = NothingSpent
  /\ stepLimit \in StepLimits /\ cost \in Costs

-----------------------------------------------------------------------------
(* budget.rs *)

WarningAt(limit) == (limit * 7) \div 10

Used(t, role) == IF role \in DOMAIN t.perStep THEN t.perStep[role] ELSE 0

\* BudgetTracker::record.
Charge(t, role, n) ==
  [cumulative |-> t.cumulative + n,
   perStep |-> [r \in DOMAIN t.perStep \cup {role} |->
                  Used(t, r) + (IF r = role THEN n ELSE 0)]]

\* BudgetTracker::check, as the warnings it leads to: the step's budget first,
\* then the run's.  A limit that is reached is not told.
Remaining(used, limit) == IF used >= limit THEN {} ELSE {limit - used}

Warnings(t, role) ==
  IF role \in DOMAIN stepLimit /\ Used(t, role) >= WarningAt(stepLimit[role])
  THEN Remaining(Used(t, role), stepLimit[role])
  ELSE IF t.cumulative >= WarningAt(Limit) THEN Remaining(t.cumulative, Limit) ELSE {}

-----------------------------------------------------------------------------
\* submit_handoff's target: the role the exit routing names, if it names one.
Expected(s) ==
  LET x == eng.flow[s]
      t == IF x.exit = "next" THEN s + 1 ELSE x.target
  IN  IF t \in DOMAIN eng.flow THEN RoleOf(t) ELSE Unnamed

\* correct_handoff_target works on copies of the engine and of the document.
Addressed(s) == IF edition = "a2r" THEN Unnamed ELSE Expected(s)

\* saturating_sub, with nothing for 0.
Left(total) == {x \in {Limit - total} : x > 0}

\* HandoffDocument, as far as the books go.
HandoffDocument(s, n, total) ==
  [from |-> RoleOf(s), to |-> Addressed(s), tokens |-> n,
   cumulative |-> total, remaining |-> Left(total)]

\* Faulty variant: the totals are taken before the step is charged.
DocumentTooEarly(s, n) == HandoffDocument(s, n, spent)

\* The document of step s as it is recorded: build_handoff leaves the target
\* empty, submit_handoff fills it and adds the totals.
Document(s, n) == HandoffDocument(s, n, spent + n)

\* The tracker that the driver asks for a warning: the reference's after the
\* handoff is submitted, the transpiled driver's before.
AskedAbout(s, n) == IF edition = "a2r" THEN tracked ELSE Charge(tracked, RoleOf(s), n)

\* drive: a Warning of the budget is passed on as an event.
EmitsWarning(s, n) == told' = told \cup Warnings(AskedAbout(s, n), RoleOf(s))

\* drive_step: the step is charged and recorded, and the budget asked.
Record(s, n) ==
  /\ docs' = Append(docs, Document(s, n))
  /\ spent' = spent + n
  /\ tracked' = Charge(tracked, RoleOf(s), n)
  /\ EmitsWarning(s, n)
  /\ UNCHANGED <<stepLimit, cost>>

\* Nothing but a submitted handoff touches the ledger: pause, resume, rerun and
\* fail leave it as it is.
LNext ==
  /\ TNext
  /\ IF eng'.history = eng.history THEN UNCHANGED ledger
     ELSE Record(eng.step, cost[eng.step])

LSpec == LInit /\ [][LNext]_lvars /\ TFairness

-----------------------------------------------------------------------------

\* The first n values of v added up.
Sum(v, n) ==
  LET upto[i \in 0..n] == IF i = 0 THEN 0 ELSE upto[i - 1] + v[i] IN upto[n]
Tokens == [i \in DOMAIN docs |-> docs[i].tokens]
TokensOf(role) == [i \in DOMAIN docs |-> IF docs[i].from = role THEN docs[i].tokens ELSE 0]

\* The books balance, whatever fails, pauses, is resumed or run again: engine,
\* tracker, roles and documents agree on what was spent, a document that names
\* a target names the role that was run next, and of every document that leaves
\* less than the warning threshold of the run's budget the application was told
\* - by the transpiled driver one step later.
LedgerBalanced ==
  /\ Len(docs) = Len(eng.history)
  /\ spent = Sum(Tokens, Len(docs)) /\ tracked.cumulative = spent
  /\ \A r \in DOMAIN tracked.perStep : tracked.perStep[r] = Sum(TokensOf(r), Len(docs))
  /\ \A i \in DOMAIN docs :
       /\ docs[i].from \in DOMAIN tracked.perStep
       /\ docs[i].cumulative = Sum(Tokens, i)
       /\ i < Len(docs) => docs[i].to \in {Unnamed, docs[i + 1].from}
       /\ (/\ stepLimit = << >>
           /\ docs[i].cumulative >= WarningAt(Limit)
           /\ edition = "a2r" => i < Len(docs))
          => docs[i].remaining \subseteq told

=============================================================================
