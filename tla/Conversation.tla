---------------------------- MODULE Conversation ----------------------------
(***************************************************************************)
(* The conversation an agent keeps (memory.rs), its compaction             *)
(* (compaction.rs) and the repair of interrupted tool batches (agent.rs),  *)
(* as functions on a sequence of messages                                  *)
(*   role      "user" or "assistant"                                       *)
(*   text      where the text comes from, "none" for a tool message        *)
(*   uses      the tool calls an assistant message makes, in order         *)
(*   answers   the tool call a tool result answers, or NoCall              *)
(* No code path puts a system message into a memory (the system prompt     *)
(* travels on the request), so the branches that keep them are left out.   *)
(* Sizes are abstract: where the token budget puts the start of the kept   *)
(* tail is an argument.                                                    *)
(***************************************************************************)
EXTENDS Naturals, Sequences, SequencesExt

CONSTANTS
  CallIds,     \* ids of tool calls
  NoCall, NoLimit

ASSUME ConversationAssumption == CallIds \subseteq Nat /\ NoCall \notin CallIds /\ NoLimit \notin Nat

Texts   == {"task", "steer", "follow", "anchor", "summary", "answer", "none"}
Message == [role : {"user", "assistant"}, text : Texts,
            uses : Seq(CallIds), answers : CallIds \cup {NoCall}]

Human(text) == [role |-> "user", text |-> text, uses |-> <<>>, answers |-> NoCall]
Answer      == [role |-> "assistant", text |-> "answer", uses |-> <<>>, answers |-> NoCall]
ToolUses(calls)  == [role |-> "assistant", text |-> "none", uses |-> calls, answers |-> NoCall]
ToolResult(call) == [role |-> "user", text |-> "none", uses |-> <<>>, answers |-> call]

-----------------------------------------------------------------------------
(* Memory::trim. *)

\* A unit is an assistant message with the user messages behind it; before the
\* first assistant message every user message is one.
UnitStart(msgs, i) ==
  i \in DOMAIN msgs => msgs[i].role = "assistant" \/ \A j \in 1..i - 1 : msgs[j].role = "user"

\* Faulty variant: the count is off by one.
KeptFromOneTooFew(msgs, max) ==
  IF Len(msgs) <= max + 1 THEN 1
  ELSE CHOOSE k \in 2..Len(msgs) + 1 :
         /\ UnitStart(msgs, k) /\ Len(msgs) - k <= max
         /\ \A j \in 2..k - 1 : UnitStart(msgs, j) => Len(msgs) - j > max

\* Where the oldest unit that stays begins: units are dropped until at most
\* max messages are left.
KeptFrom(msgs, max) ==
  IF Len(msgs) <= max THEN 1
  ELSE CHOOSE k \in 2..Len(msgs) + 1 :
         /\ UnitStart(msgs, k) /\ Len(msgs) - k < max
         /\ \A j \in 2..k - 1 : UnitStart(msgs, j) => Len(msgs) - j >= max

\* A history that begins with the assistant gets a synthetic user message.
Trim(msgs, limit) ==
  IF limit = NoLimit THEN msgs
  ELSE IF limit = 0 THEN <<>>
  ELSE LET from   == KeptFrom(msgs, 2 * limit)
           anchor == IF from \in DOMAIN msgs /\ msgs[from].role = "assistant"
                     THEN <<Human("anchor")>> ELSE <<>>
       IN  anchor \o SubSeq(msgs, from, Len(msgs))

\* Memory::add and add_message: append, then trim.
Add(msgs, m, limit) == Trim(Append(msgs, m), limit)

AddAll(msgs, new, limit) ==
  LET trimmed == [have \in Seq(Message) |-> Trim(have, limit)]
      add[i \in 0..Len(new)] == IF i = 0 THEN msgs ELSE trimmed[Append(add[i - 1], new[i])]
  IN  add[Len(new)]

-----------------------------------------------------------------------------
(* Agent::repair_orphan_tool_uses. *)

Without(calls, answered) ==
  LET rest[i \in 0..Len(calls)] ==
        IF i = 0 THEN <<>>
        ELSE IF calls[i] \in answered THEN rest[i - 1] ELSE Append(rest[i - 1], calls[i])
  IN  rest[Len(calls)]

Unanswered(msgs) ==
  LET batches == {i \in DOMAIN msgs : msgs[i].uses # <<>>}
      last    == CHOOSE i \in batches : \A j \in batches : j <= i
      later   == {msgs[i].answers : i \in {j \in DOMAIN msgs : j > last}}
  IN  IF batches = {} THEN <<>> ELSE Without(msgs[last].uses, later)

\* Faulty variant: the batch counts as answered if any of its calls is.
RepairFirstOnly(msgs, limit) ==
  LET missing == Unanswered(msgs) IN
  IF missing = <<>> THEN msgs ELSE Add(msgs, ToolResult(Head(missing)), limit)

\* Every call of the last batch without a result gets a placeholder.
Repair(msgs, limit) ==
  LET missing == Unanswered(msgs) IN
  AddAll(msgs, [i \in DOMAIN missing |-> ToolResult(missing[i])], limit)

-----------------------------------------------------------------------------
(* compaction.rs: find_cut_point and compact. *)

IsTurnBoundary(m) == m.role = "user" /\ m.answers = NoCall

\* Where to cut when the token budget lets the tail start at tail: the next
\* human turn, else the one before it; 0 when there is nothing to cut.
FindCutPoint(msgs, tail) ==
  LET turns  == {i \in DOMAIN msgs : IsTurnBoundary(msgs[i])}
      ahead  == {i \in turns : i >= tail}
      behind == {i \in turns : i <= tail}
      cut    == IF ahead # {} THEN CHOOSE i \in ahead : \A j \in ahead : i <= j
                ELSE IF behind # {} THEN CHOOSE i \in behind : \A j \in behind : j <= i
                ELSE 0
  IN  IF cut > 2 THEN cut ELSE 0

\* compact: the summary, then the tail; <<>> stands for "memory too short".
Compact(msgs, tail, limit) ==
  LET cut == FindCutPoint(msgs, tail) IN
  IF cut = 0 THEN <<>>
  ELSE AddAll(<<>>, <<Human("summary")>> \o SubSeq(msgs, cut, Len(msgs)), limit)

\* The memories a successful compaction may leave, whatever the token counts.
Compactions(msgs, limit) ==
  {Compact(msgs, tail, limit) : tail \in 2..Len(msgs) + 1} \ {<<>>}

=============================================================================
