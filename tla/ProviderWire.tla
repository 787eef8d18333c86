---------------------------- MODULE ProviderWire ----------------------------
(***************************************************************************)
(* What the daemon's providers make of a conversation: the message arrays  *)
(* of the OpenAI and Anthropic request bodies (format.rs, openai.rs and    *)
(* anthropic.rs build_body), and the rules those services hold them to.    *)
(* A canonical message is a role and a list of content blocks; OpenAI has  *)
(* no blocks, so tool calls and tool results become fields and messages of *)
(* their own.  The system prompt and the options travel beside.            *)
(***************************************************************************)
EXTENDS Conversation

\* Message::user, assistant, tool_result, and the assistant's tool batch.
Block(type, of) == [type |-> type, of |-> of]
Blocks(m) ==
  IF m.answers # NoCall THEN <<Block("result", m.answers)>>
  ELSE IF m.uses # <<>> THEN [i \in DOMAIN m.uses |-> Block("use", m.uses[i])]
  ELSE <<Block("text", NoCall)>>

Of(blocks, type) ==
  LET of[i \in 0..Len(blocks)] ==
        IF i = 0 THEN <<>>
        ELSE IF blocks[i].type = type THEN Append(of[i - 1], blocks[i].of) ELSE of[i - 1]
  IN  of[Len(blocks)]

OpenAiText(role) == [role |-> role, calls |-> <<>>, answers |-> NoCall]
OpenAiTool(call) == [role |-> "tool", calls |-> <<>>, answers |-> call]
OpenAiCalls(calls) == [role |-> "assistant", calls |-> calls, answers |-> NoCall]

\* openai_content, and the messages build_body pushes for each of its shapes.
OpenAiContent(role, blocks) ==
  IF blocks # <<>> /\ \A i \in DOMAIN blocks : blocks[i].type = "result"
  THEN [i \in DOMAIN blocks |-> OpenAiTool(blocks[i].of)]
  ELSE IF Of(blocks, "use") # <<>> THEN <<OpenAiCalls(Of(blocks, "use"))>>
  ELSE <<OpenAiText(role)>>

OpenAiBody(msgs) ==
  LET body[i \in 0..Len(msgs)] ==
        IF i = 0 THEN <<>> ELSE body[i - 1] \o OpenAiContent(msgs[i].role, Blocks(msgs[i]))
  IN  body[Len(msgs)]

\* anthropic.rs build_body: the blocks as they are; a history that begins with
\* the assistant is padded.
AnthropicBody(msgs) ==
  LET body == [i \in DOMAIN msgs |-> [role |-> msgs[i].role, blocks |-> Blocks(msgs[i])]]
      pad  == [role |-> "user", blocks |-> <<Block("text", NoCall)>>]
  IN  IF body # <<>> /\ Head(body).role # "user" THEN <<pad>> \o body ELSE body

-----------------------------------------------------------------------------
(* What the services accept (external). *)

\* The messages of role tool after one with tool_calls answer just those calls,
\* and there are no others.
OpenAiAccepts(body) ==
  \A i \in DOMAIN body :
    LET n == Len(body[i].calls) IN
    /\ i + n <= Len(body)
    /\ {body[i + k].answers : k \in 1..n} = ToSet(body[i].calls)
    /\ body[i].role = "tool" => \E j \in 1..i - 1 : i - j <= Len(body[j].calls)

\* The user's first; consecutive messages of one role count as one, and the
\* user's turn after tool_use blocks begins with their tool_results.
AnthropicAccepts(body) ==
  LET Results(i) ==   \* the results at the start of the user's turn at i
        LET texts == {j \in i..Len(body) : body[j].role # "user" \/ Of(body[j].blocks, "result") = <<>>}
            stop == IF texts = {} THEN Len(body) + 1 ELSE CHOOSE j \in texts : \A k \in texts : j <= k
        IN UNION {ToSet(Of(body[j].blocks, "result")) : j \in i..stop - 1}
  IN /\ body # <<>> /\ Head(body).role = "user"
     /\ \A i \in DOMAIN body : ToSet(Of(body[i].blocks, "use")) \subseteq Results(i + 1)
     /\ \A i \in DOMAIN body : \A c \in ToSet(Of(body[i].blocks, "result")) :
          \E j \in 1..i - 1 : c \in ToSet(Of(body[j].blocks, "use"))

=============================================================================
