------------------------ MODULE FullscreenChat_proof ------------------------
(***************************************************************************)
(* Proofs about the chat in either front end, for any number of inputs,    *)
(* turns and starts: messages are conserved, what was cleared stays        *)
(* cleared, and the screen shows the run that is under way.                *)
(***************************************************************************)
EXTENDS FullscreenChat, FiniteSetTheorems, TLAPS

-----------------------------------------------------------------------------
(* Sequences of messages *)

\* What a concatenation holds, and when it holds nothing twice.
LEMMA Joined ==
  ASSUME NEW a \in Seq(Nat), NEW b \in Seq(Nat)
  PROVE  /\ a \o b \in Seq(Nat)
         /\ ToSet(a \o b) = ToSet(a) \cup ToSet(b)
         /\ IsInjective(a \o b) <=> IsInjective(a) /\ IsInjective(b) /\ ToSet(a) \cap ToSet(b) = {}
<1> DEFINE c == a \o b
<1>1. /\ c \in Seq(Nat) /\ Len(c) = Len(a) + Len(b) /\ Len(a) \in Nat /\ Len(b) \in Nat
      /\ \A i \in 1..Len(a) : c[i] = a[i]
      /\ \A i \in 1..Len(b) : c[Len(a) + i] = b[i]
  OBVIOUS
<1>2. DOMAIN a = 1..Len(a) /\ DOMAIN b = 1..Len(b) /\ DOMAIN c = 1..Len(c)
  BY <1>1
<1> HIDE DEF c
<1>3. \A i \in 1..Len(a) : i \in 1..Len(c)
  BY <1>1
<1>4. \A i \in 1..Len(b) : Len(a) + i \in 1..Len(c)
  BY <1>1
<1>5. \A i \in 1..Len(c) : i \in 1..Len(a) \/ \E j \in 1..Len(b) : i = Len(a) + j
  <2>1. SUFFICES ASSUME NEW i \in 1..Len(c), i \notin 1..Len(a) PROVE i - Len(a) \in 1..Len(b) /\ i = Len(a) + (i - Len(a))
    OBVIOUS
  <2>2. QED  BY <1>1, <2>1
<1>6. ToSet(c) = ToSet(a) \cup ToSet(b)
  <2>1. ToSet(c) \subseteq ToSet(a) \cup ToSet(b)
    <3>1. SUFFICES ASSUME NEW i \in 1..Len(c) PROVE c[i] \in ToSet(a) \cup ToSet(b)
      BY <1>2 DEF ToSet
    <3>2. CASE i \in 1..Len(a)
      BY <1>1, <1>2, <3>2 DEF ToSet
    <3>3. ASSUME NEW j \in 1..Len(b), i = Len(a) + j PROVE c[i] \in ToSet(b)
      BY <1>1, <1>2, <3>3 DEF ToSet
    <3>4. QED  BY <1>5, <3>2, <3>3
  <2>2. ToSet(a) \subseteq ToSet(c)
    BY <1>1, <1>2, <1>3 DEF ToSet
  <2>3. ToSet(b) \subseteq ToSet(c)
    BY <1>1, <1>2, <1>4 DEF ToSet
  <2>4. QED  BY <2>1, <2>2, <2>3
<1>7. ASSUME IsInjective(c) PROVE IsInjective(a) /\ IsInjective(b) /\ ToSet(a) \cap ToSet(b) = {}
  <2>1. \A i, j \in 1..Len(c) : c[i] = c[j] => i = j
    BY <1>2, <1>7 DEF IsInjective
  <2>2. IsInjective(a)
    BY <1>1, <1>2, <1>3, <2>1 DEF IsInjective
  <2>3. IsInjective(b)
    <3>1. SUFFICES ASSUME NEW i \in 1..Len(b), NEW j \in 1..Len(b), b[i] = b[j] PROVE i = j
      BY <1>2 DEF IsInjective
    <3>2. Len(a) + i = Len(a) + j
      BY <1>1, <1>4, <2>1, <3>1
    <3>3. QED  BY <1>1, <3>2
  <2>4. ToSet(a) \cap ToSet(b) = {}
    <3>1. SUFFICES ASSUME NEW i \in 1..Len(a), NEW j \in 1..Len(b), a[i] = b[j] PROVE FALSE
      BY <1>2 DEF ToSet
    <3>2. i = Len(a) + j
      BY <1>1, <1>3, <1>4, <2>1, <3>1
    <3>3. QED  BY <1>1, <3>2
  <2>5. QED  BY <2>2, <2>3, <2>4
<1>8. ASSUME IsInjective(a), IsInjective(b), ToSet(a) \cap ToSet(b) = {} PROVE IsInjective(c)
  <2>1. /\ \A i, j \in 1..Len(a) : a[i] = a[j] => i = j
        /\ \A i, j \in 1..Len(b) : b[i] = b[j] => i = j
        /\ \A i \in 1..Len(a), j \in 1..Len(b) : a[i] # b[j]
    BY <1>2, <1>8 DEF IsInjective, ToSet
  <2>2. SUFFICES ASSUME NEW i \in 1..Len(c), NEW j \in 1..Len(c), c[i] = c[j] PROVE i = j
    BY <1>2 DEF IsInjective
  <2>3. CASE i \in 1..Len(a) /\ j \in 1..Len(a)
    BY <1>1, <2>1, <2>2, <2>3
  <2>4. CASE i \in 1..Len(a) /\ \E k \in 1..Len(b) : j = Len(a) + k
    BY <1>1, <2>1, <2>2, <2>4
  <2>5. CASE j \in 1..Len(a) /\ \E k \in 1..Len(b) : i = Len(a) + k
    BY <1>1, <2>1, <2>2, <2>5
  <2>6. CASE (\E k \in 1..Len(b) : i = Len(a) + k) /\ \E k \in 1..Len(b) : j = Len(a) + k
    BY <1>1, <2>1, <2>2, <2>6
  <2>7. QED  BY <1>5, <2>3, <2>4, <2>5, <2>6
<1>9. QED  BY <1>1, <1>6, <1>7, <1>8 DEF c

\* No message is in two of three sequences, nor twice in one.
Apart(a, b, c) ==
  /\ IsInjective(a) /\ IsInjective(b) /\ IsInjective(c)
  /\ ToSet(a) \cap ToSet(b) = {} /\ ToSet(a) \cap ToSet(c) = {} /\ ToSet(b) \cap ToSet(c) = {}

\* The same of memory and queues.
LEMMA JoinedThree ==
  ASSUME NEW a \in Seq(Nat), NEW b \in Seq(Nat), NEW c \in Seq(Nat)
  PROVE  /\ ToSet(a \o b \o c) = ToSet(a) \cup ToSet(b) \cup ToSet(c)
         /\ IsInjective(a \o b \o c) <=> Apart(a, b, c)
<1> DEFINE d == a \o b
<1>1. d \in Seq(Nat) /\ ToSet(d) = ToSet(a) \cup ToSet(b)
      /\ (IsInjective(d) <=> IsInjective(a) /\ IsInjective(b) /\ ToSet(a) \cap ToSet(b) = {})
  BY Joined
<1> HIDE DEF d
<1>2. ToSet(d \o c) = ToSet(d) \cup ToSet(c)
      /\ (IsInjective(d \o c) <=> IsInjective(d) /\ IsInjective(c) /\ ToSet(d) \cap ToSet(c) = {})
  BY <1>1, Joined
<1>3. ToSet(d \o c) = ToSet(a) \cup ToSet(b) \cup ToSet(c) /\ (IsInjective(d \o c) <=> Apart(a, b, c))
  BY <1>1, <1>2 DEF Apart
<1>4. QED  BY <1>3 DEF d

\* The empty sequence, and one message more.
LEMMA OneMore ==
  /\ <<>> \in Seq(Nat) /\ ToSet(<<>>) = {} /\ IsInjective(<<>>)
  /\ \A s \in Seq(Nat), m \in Nat :
       /\ Append(s, m) \in Seq(Nat)
       /\ ToSet(Append(s, m)) = ToSet(s) \cup {m}
       /\ IsInjective(s) /\ m \notin ToSet(s) => IsInjective(Append(s, m))
<1>1. <<>> \in Seq(Nat) /\ ToSet(<<>>) = {} /\ IsInjective(<<>>)
  BY DEF ToSet, IsInjective
<1>2. ASSUME NEW s \in Seq(Nat), NEW m \in Nat
      PROVE  /\ Append(s, m) \in Seq(Nat)
             /\ ToSet(Append(s, m)) = ToSet(s) \cup {m}
             /\ IsInjective(s) /\ m \notin ToSet(s) => IsInjective(Append(s, m))
  <2> DEFINE t == Append(s, m)
  <2>1. /\ t \in Seq(Nat) /\ DOMAIN s = 1..Len(s) /\ DOMAIN t = 1..(Len(s) + 1) /\ Len(s) \in Nat
        /\ \A i \in 1..Len(s) : t[i] = s[i]
        /\ t[Len(s) + 1] = m
    OBVIOUS
  <2> HIDE DEF t
  <2>2. 1..(Len(s) + 1) = 1..Len(s) \cup {Len(s) + 1}
    BY <2>1
  <2>3. ToSet(t) = ToSet(s) \cup {m}
    BY <2>1, <2>2 DEF ToSet
  <2>4. IsInjective(s) /\ m \notin ToSet(s) => IsInjective(t)
    BY <2>1, <2>2 DEF ToSet, IsInjective
  <2>5. QED  BY <2>1, <2>3, <2>4 DEF t
<1>3. QED  BY <1>1, <1>2

-----------------------------------------------------------------------------
(* Commands on their way *)

Command == [kind : {"run", "steer", "follow", "reset", "role"}, msg : Nat, turn : Nat]
Texts == {"run", "steer", "follow"}

\* Commanded of a channel given by name.
MessagesOf(ch) == {ch[i].msg : i \in {j \in DOMAIN ch : ch[j].kind \in Texts}}

\* The commands are numbered by the inputs, of which there were n.
Numbered(ch, n) ==
  /\ ch \in Seq(Command)
  /\ \A i \in 1..Len(ch) : 0 < ch[i].msg /\ ch[i].msg <= n
  /\ \A i, j \in 1..Len(ch) : i < j => ch[i].msg < ch[j].msg

\* A message is commanded if a command carries it.
LEMMA InMessages ==
  ASSUME NEW n, NEW ch, Numbered(ch, n)
  PROVE  /\ \A m : m \in MessagesOf(ch) <=> \E i \in 1..Len(ch) : ch[i].kind \in Texts /\ ch[i].msg = m
         /\ MessagesOf(ch) \subseteq Nat
<1>1. DOMAIN ch = 1..Len(ch) /\ \A i \in 1..Len(ch) : ch[i] \in Command
  BY DEF Numbered
<1>2. QED  BY <1>1 DEF MessagesOf, Command

\* The front end sends one more.
LEMMA SendFacts ==
  ASSUME NEW n \in Nat, NEW ch, Numbered(ch, n), NEW c \in Command, c.msg = n + 1
  PROVE  /\ Numbered(Append(ch, c), n + 1)
         /\ MessagesOf(Append(ch, c)) = IF c.kind \in Texts THEN MessagesOf(ch) \cup {n + 1} ELSE MessagesOf(ch)
<1> DEFINE more == Append(ch, c)
<1>1. c \in Command /\ c.msg = n + 1
  OBVIOUS
<1>2. /\ ch \in Seq(Command) /\ more \in Seq(Command) /\ Len(ch) \in Nat /\ Len(more) = Len(ch) + 1
      /\ \A i \in 1..Len(ch) : more[i] = ch[i] /\ ch[i] \in Command
      /\ more[Len(ch) + 1] = c
  BY <1>1 DEF Numbered
<1> HIDE DEF more
<1>3. 1..Len(more) = 1..Len(ch) \cup {Len(ch) + 1}
  BY <1>2
<1>4. \A i \in 1..Len(ch) : ch[i].msg \in Nat
  BY <1>2 DEF Command
<1>5. Numbered(more, n + 1)
  <2>1. \A i \in 1..Len(more) : 0 < more[i].msg /\ more[i].msg <= n + 1
    BY <1>1, <1>2, <1>3, <1>4 DEF Numbered
  <2>2. \A i, j \in 1..Len(more) : i < j => more[i].msg < more[j].msg
    <3>1. SUFFICES ASSUME NEW i \in 1..Len(more), NEW j \in 1..Len(more), i < j PROVE more[i].msg < more[j].msg
      OBVIOUS
    <3>2. i \in 1..Len(ch)
      BY <1>2, <3>1
    <3>3. more[i].msg <= n /\ more[i].msg \in Nat
      BY <1>2, <1>4, <3>2 DEF Numbered
    <3>4. CASE j = Len(ch) + 1
      BY <1>1, <1>2, <3>3, <3>4
    <3>5. CASE j \in 1..Len(ch)
      BY <1>2, <3>1, <3>2, <3>5 DEF Numbered
    <3>6. QED  BY <1>3, <3>4, <3>5
  <2>3. QED  BY <1>2, <2>1, <2>2 DEF Numbered
<1>6. MessagesOf(more) = IF c.kind \in Texts THEN MessagesOf(ch) \cup {n + 1} ELSE MessagesOf(ch)
  <2>1. \A m : m \in MessagesOf(more) <=> m \in MessagesOf(ch) \/ (c.kind \in Texts /\ m = n + 1)
    BY <1>1, <1>2, <1>3, <1>5, InMessages
  <2>2. QED  BY <2>1
<1>7. QED  BY <1>5, <1>6 DEF more

\* The task takes the first.
LEMMA TakeFacts ==
  ASSUME NEW n \in Nat, NEW ch, Numbered(ch, n), ch # <<>>
  PROVE  /\ Numbered(Tail(ch), n) /\ Head(ch) \in Command
         /\ Head(ch).msg \notin MessagesOf(Tail(ch)) /\ 0 < Head(ch).msg /\ Head(ch).msg <= n
         /\ MessagesOf(ch) = MessagesOf(Tail(ch)) \cup IF Head(ch).kind \in Texts THEN {Head(ch).msg} ELSE {}
<1> DEFINE rest == Tail(ch)
           h == Head(ch)
<1>1. /\ ch \in Seq(Command) /\ rest \in Seq(Command) /\ Len(ch) \in Nat \ {0} /\ Len(rest) = Len(ch) - 1
      /\ \A i \in 1..Len(rest) : rest[i] = ch[i + 1] /\ i + 1 \in 1..Len(ch)
      /\ h = ch[1] /\ 1 \in 1..Len(ch)
      /\ \A i \in 1..Len(ch) : ch[i] \in Command
  BY DEF Numbered
<1> HIDE DEF rest, h
<1>2. \A i \in 1..Len(ch) : i = 1 \/ (i - 1 \in 1..Len(rest) /\ rest[i - 1] = ch[i])
  <2>1. SUFFICES ASSUME NEW i \in 1..Len(ch), i # 1 PROVE i - 1 \in 1..Len(rest) /\ rest[i - 1] = ch[i]
    OBVIOUS
  <2>2. i - 1 \in 1..Len(rest) /\ (i - 1) + 1 = i
    BY <1>1, <2>1
  <2>3. QED  BY <1>1, <2>2
<1>3. \A i \in 1..Len(ch) : ch[i].msg \in Nat
  BY <1>1 DEF Command
<1>4. Numbered(rest, n)
  <2>1. \A i \in 1..Len(rest) : 0 < rest[i].msg /\ rest[i].msg <= n
    BY <1>1 DEF Numbered
  <2>2. \A i, j \in 1..Len(rest) : i < j => rest[i].msg < rest[j].msg
    <3>1. SUFFICES ASSUME NEW i \in 1..Len(rest), NEW j \in 1..Len(rest), i < j PROVE rest[i].msg < rest[j].msg
      OBVIOUS
    <3>2. i + 1 \in 1..Len(ch) /\ j + 1 \in 1..Len(ch) /\ i + 1 < j + 1
      BY <1>1, <3>1
    <3>3. QED  BY <1>1, <3>2 DEF Numbered
  <2>3. QED  BY <1>1, <2>1, <2>2 DEF Numbered
<1>5. h \in Command /\ 0 < h.msg /\ h.msg <= n
  BY <1>1 DEF Numbered
<1>6. h.msg \notin MessagesOf(rest)
  <2>1. ASSUME NEW i \in 1..Len(rest) PROVE rest[i].msg # h.msg
    <3>1. i + 1 \in 1..Len(ch) /\ 1 < i + 1
      BY <1>1, <2>1
    <3>2. ch[1].msg < ch[i + 1].msg
      BY <1>1, <3>1 DEF Numbered
    <3>3. QED  BY <1>1, <1>3, <3>1, <3>2
  <2>2. QED  BY <1>4, <2>1, InMessages
<1>7. MessagesOf(ch) = MessagesOf(rest) \cup IF h.kind \in Texts THEN {h.msg} ELSE {}
  <2>1. \A m : m \in MessagesOf(ch) <=> m \in MessagesOf(rest) \/ (h.kind \in Texts /\ m = h.msg)
    <3>1. ASSUME NEW m, m \in MessagesOf(ch) PROVE m \in MessagesOf(rest) \/ (h.kind \in Texts /\ m = h.msg)
      <4>1. PICK i \in 1..Len(ch) : ch[i].kind \in Texts /\ ch[i].msg = m
        BY <3>1, InMessages
      <4>2. CASE i = 1
        BY <1>1, <4>1, <4>2
      <4>3. CASE i - 1 \in 1..Len(rest) /\ rest[i - 1] = ch[i]
        BY <1>4, <4>1, <4>3, InMessages
      <4>4. QED  BY <1>2, <4>2, <4>3
    <3>2. ASSUME NEW m, m \in MessagesOf(rest) PROVE m \in MessagesOf(ch)
      BY <1>1, <1>4, <3>2, InMessages
    <3>3. h.kind \in Texts => h.msg \in MessagesOf(ch)
      BY <1>1, InMessages
    <3>4. QED  BY <3>1, <3>2, <3>3
  <2>2. QED  BY <2>1
<1>8. QED  BY <1>4, <1>5, <1>6, <1>7 DEF rest, h

-----------------------------------------------------------------------------
(* Messages *)

\* What a message typed so far may be found in.
Queued == ToSet(steering) \cup ToSet(followUps)
Kept == ToSet(memory) \cup Queued
Everything == Kept \cup ToSet(file) \cup Commanded \cup cleared

MailTypes ==
  /\ memory \in Seq(Nat) /\ steering \in Seq(Nat) /\ followUps \in Seq(Nat) /\ file \in Seq(Nat)
  /\ inputs \in Nat /\ turn \in Nat /\ Numbered(cmds, inputs)

Mail ==
  /\ MailTypes
  /\ Apart(memory, steering, followUps) /\ IsInjective(file)
  /\ \A m \in Everything : m \in Nat /\ m <= inputs
  /\ Commanded \cap Kept = {}
  /\ Commanded \cup Queued \cup dropped \subseteq said
  /\ said \subseteq Commanded \cup Kept \cup dropped
  /\ cleared \cap (Kept \cup ToSet(file) \cup Commanded) = {}

\* Steps that move no message.
StillVars == <<cmds, agentVars, file, inputs, histVars>>

\* The messages in the commands on their way, now and after a step.
LEMMA CommandedIs == Commanded = MessagesOf(cmds)
BY DEF Commanded, MessagesOf, Texts

\* And those after a step.
LEMMA CommandedWillBe == Commanded' = MessagesOf(cmds')
BY DEF Commanded, MessagesOf, Texts

\* The user types a text, or a command that is none.
LEMMA TypedMail ==
  ASSUME Mail, NEW kind \in {"run", "steer", "follow", "reset", "role"}, Send(kind), inputs' = inputs + 1,
         UNCHANGED <<agentVars, file, turn, dropped, cleared>>,
         said' = IF kind \in Texts THEN said \cup {inputs + 1} ELSE said
  PROVE  Mail'
<1> DEFINE n == inputs
<1>1. n \in Nat /\ turn \in Nat /\ Numbered(cmds, n) /\ MailTypes
  BY DEF Mail, MailTypes
<1>2. Numbered(cmds', n + 1) /\ MessagesOf(cmds') = IF kind \in Texts THEN MessagesOf(cmds) \cup {n + 1} ELSE MessagesOf(cmds)
  <2> DEFINE c == [kind |-> kind, msg |-> n + 1, turn |-> turn]
  <2>1. c \in Command /\ c.msg = n + 1 /\ c.kind = kind /\ cmds' = Append(cmds, c)
    BY <1>1 DEF Send, Command
  <2> HIDE DEF c
  <2>2. QED  BY <1>1, <2>1, SendFacts
<1>3. Commanded' = IF kind \in Texts THEN Commanded \cup {n + 1} ELSE Commanded
  BY <1>2, CommandedIs, CommandedWillBe
<1>4. UNCHANGED <<memory, steering, followUps, file, turn, dropped, cleared>>
  BY DEF agentVars
<1>5. MailTypes'
  BY <1>1, <1>2, <1>4 DEF MailTypes
<1>6. n + 1 \notin Everything
  BY <1>1 DEF Mail
<1>7. Everything' \subseteq Everything \cup {n + 1} /\ Kept' = Kept /\ Queued' = Queued
  BY <1>3, <1>4 DEF Everything, Kept, Queued
<1>8. \A m \in Everything' : m \in Nat /\ m <= n + 1
  BY <1>1, <1>7 DEF Mail
<1>9. QED
  BY <1>3, <1>4, <1>5, <1>6, <1>7, <1>8 DEF Mail, Everything

\* Steps after which each message is where it was.
LEMMA StillMail ==
  ASSUME Mail, UNCHANGED StillVars, turn' \in Nat
  PROVE  Mail'
<1>1. UNCHANGED <<memory, steering, followUps, file, inputs, cmds, said, dropped, cleared>>
  BY DEF StillVars, agentVars, histVars
<1>2. MailTypes'
  BY <1>1 DEF Mail, MailTypes
<1>3. Commanded' = Commanded /\ Kept' = Kept /\ Queued' = Queued
  BY <1>1, CommandedIs, CommandedWillBe DEF Kept, Queued
<1>4. Everything' = Everything
  BY <1>1, <1>3 DEF Everything
<1>5. QED  BY <1>1, <1>2, <1>3, <1>4 DEF Mail

\* Messages that left the channel, moved between memory and queues, or were
\* dropped: what has to be shown of such a step.
LEMMA MovedMail ==
  ASSUME Mail, MailTypes', Apart(memory, steering, followUps)', IsInjective(file)', inputs' = inputs, said' = said,
         Commanded' \subseteq Commanded, Kept' \subseteq Kept \cup Commanded, Commanded' \cap Kept' = {},
         ToSet(file') \subseteq ToSet(file) \cup Kept,
         Queued' \subseteq Queued \cup Commanded, dropped' \subseteq dropped \cup said, dropped \subseteq dropped',
         (Commanded \cup Kept) \cap said \subseteq Commanded' \cup Kept' \cup dropped',
         cleared' \subseteq cleared \cup Kept, cleared' \cap (Kept' \cup ToSet(file') \cup Commanded') = {}
  PROVE  Mail'
<1>1. Everything' \subseteq Everything
  BY DEF Everything
<1>2. Commanded' \cup Queued' \cup dropped' \subseteq said'
  BY DEF Mail
<1>3. said' \subseteq Commanded' \cup Kept' \cup dropped'
  BY DEF Mail
<1>4. QED  BY <1>1, <1>2, <1>3 DEF Mail

\* The command the task takes leaves the channel.
LEMMA TakenFacts ==
  ASSUME Mail, NEW kind \in {"run", "steer", "follow", "reset", "role"}, Take(kind)
  PROVE  LET m == Head(cmds).msg IN
         /\ Numbered(cmds', inputs) /\ m \in Nat
         /\ kind \in Texts => /\ Commanded = Commanded' \cup {m} /\ m \notin Commanded'
                              /\ m \in Commanded /\ m \notin Kept
         /\ kind \notin Texts => Commanded' = Commanded
<1> DEFINE m == Head(cmds).msg
<1>1. cmds # <<>> /\ Head(cmds).kind = kind /\ cmds' = Tail(cmds)
  BY DEF Take
<1>2. inputs \in Nat /\ Numbered(cmds, inputs)
  BY DEF Mail, MailTypes
<1>3. /\ Numbered(cmds', inputs) /\ Head(cmds) \in Command /\ m \notin MessagesOf(cmds')
      /\ MessagesOf(cmds) = MessagesOf(cmds') \cup IF kind \in Texts THEN {m} ELSE {}
  BY <1>1, <1>2, TakeFacts
<1>4. m \in Nat
  BY <1>3 DEF Command
<1> HIDE DEF m
<1>5. kind \in Texts => m \in Commanded
  BY <1>3, CommandedIs
<1>6. m \in Commanded => m \notin Kept
  BY DEF Mail
<1>7. QED
  BY <1>3, <1>4, <1>5, <1>6, CommandedIs, CommandedWillBe DEF m

\* The task moves a message from the command to the conversation.
LEMMA TakeRunMail ==
  ASSUME Mail, TakeRun PROVE Mail'
<1> DEFINE m == Head(cmds).msg
<1>1. Take("run") /\ memory' = Append(memory, m) /\ UNCHANGED <<steering, followUps, file, inputs, turn, said, dropped, cleared>>
  BY DEF TakeRun, histVars
<1>2. /\ Numbered(cmds', inputs) /\ m \in Nat
      /\ Commanded = Commanded' \cup {m} /\ m \notin Commanded' /\ m \in Commanded /\ m \notin Kept
  BY <1>1, TakenFacts DEF Texts
<1> HIDE DEF m
<1>3. /\ memory' \in Seq(Nat) /\ ToSet(memory') = ToSet(memory) \cup {m} /\ IsInjective(memory')
  BY <1>1, <1>2, OneMore DEF Mail, MailTypes, Apart, Kept
<1>4. MailTypes'
  BY <1>1, <1>2, <1>3 DEF Mail, MailTypes
<1>5. Kept' = Kept \cup {m} /\ Queued' = Queued
  BY <1>1, <1>3 DEF Kept, Queued
<1>6. Apart(memory, steering, followUps)'
  BY <1>1, <1>2, <1>3 DEF Mail, Apart, Kept, Queued
<1>7. QED
  BY <1>1, <1>2, <1>4, <1>5, <1>6, MovedMail DEF Mail

\* The task moves a message from the command to the steering queue.
LEMMA TakeSteerMail ==
  ASSUME Mail, TakeSteer PROVE Mail'
<1> DEFINE m == Head(cmds).msg
<1>1. Take("steer") /\ steering' = Append(steering, m) /\ UNCHANGED <<memory, followUps, file, inputs, turn, said, dropped, cleared>>
  BY DEF TakeSteer, histVars, runVars
<1>2. /\ Numbered(cmds', inputs) /\ m \in Nat
      /\ Commanded = Commanded' \cup {m} /\ m \notin Commanded' /\ m \in Commanded /\ m \notin Kept
  BY <1>1, TakenFacts DEF Texts
<1> HIDE DEF m
<1>3. /\ steering' \in Seq(Nat) /\ ToSet(steering') = ToSet(steering) \cup {m} /\ IsInjective(steering')
  BY <1>1, <1>2, OneMore DEF Mail, MailTypes, Apart, Kept, Queued
<1>4. MailTypes'
  BY <1>1, <1>2, <1>3 DEF Mail, MailTypes
<1>5. Kept' = Kept \cup {m} /\ Queued' = Queued \cup {m}
  BY <1>1, <1>3 DEF Kept, Queued
<1>6. Apart(memory, steering, followUps)'
  BY <1>1, <1>2, <1>3 DEF Mail, Apart, Kept, Queued
<1>7. QED
  BY <1>1, <1>2, <1>4, <1>5, <1>6, MovedMail DEF Mail

\* The task moves a message from the command to the follow-up queue.
LEMMA TakeFollowUpMail ==
  ASSUME Mail, TakeFollowUp PROVE Mail'
<1> DEFINE m == Head(cmds).msg
<1>1. Take("follow") /\ followUps' = Append(followUps, m) /\ UNCHANGED <<memory, steering, file, inputs, turn, said, dropped, cleared>>
  BY DEF TakeFollowUp, histVars, runVars
<1>2. /\ Numbered(cmds', inputs) /\ m \in Nat
      /\ Commanded = Commanded' \cup {m} /\ m \notin Commanded' /\ m \in Commanded /\ m \notin Kept
  BY <1>1, TakenFacts DEF Texts
<1> HIDE DEF m
<1>3. /\ followUps' \in Seq(Nat) /\ ToSet(followUps') = ToSet(followUps) \cup {m} /\ IsInjective(followUps')
  BY <1>1, <1>2, OneMore DEF Mail, MailTypes, Apart, Kept, Queued
<1>4. MailTypes'
  BY <1>1, <1>2, <1>3 DEF Mail, MailTypes
<1>5. Kept' = Kept \cup {m} /\ Queued' = Queued \cup {m}
  BY <1>1, <1>3 DEF Kept, Queued
<1>6. Apart(memory, steering, followUps)'
  BY <1>1, <1>2, <1>3 DEF Mail, Apart, Kept, Queued
<1>7. QED
  BY <1>1, <1>2, <1>4, <1>5, <1>6, MovedMail DEF Mail

\* The agent is replaced by a new one with nothing in it, or stays.
LEMMA RebuildFacts ==
  ASSUME Mail, Rebuild
  PROVE  /\ memory' \in Seq(Nat) /\ steering' \in Seq(Nat) /\ followUps' \in Seq(Nat)
         /\ Apart(memory, steering, followUps)'
         /\ \/ Kept' = Kept /\ Queued' = Queued /\ dropped' = dropped
            \/ Kept' = {} /\ Queued' = {} /\ dropped' = dropped \cup (Kept \cap said)
         /\ Wiped = Kept /\ Wiped' = Kept'
<1>1. Wiped = Kept
  BY JoinedThree DEF Mail, MailTypes, Wiped, Kept, Queued
<1>2. CASE UNCHANGED <<agentVars, dropped>>
  <2>1. UNCHANGED <<memory, steering, followUps, dropped>>
    BY <1>2 DEF agentVars
  <2>2. Wiped' = Wiped
    BY <2>1 DEF Wiped
  <2>3. QED  BY <1>1, <2>1, <2>2 DEF Mail, MailTypes, Apart, Kept, Queued
<1>3. CASE memory' = <<>> /\ steering' = <<>> /\ followUps' = <<>> /\ dropped' = dropped \cup (Wiped \cap said)
  <2>1. Kept' = {} /\ Queued' = {}
    BY <1>3, OneMore DEF Kept, Queued
  <2>2. Apart(memory, steering, followUps)'
    BY <1>3, OneMore DEF Apart
  <2>3. memory' \in Seq(Nat) /\ steering' \in Seq(Nat) /\ followUps' \in Seq(Nat)
    BY <1>3, OneMore
  <2>4. Wiped' = Kept'
    BY <2>3, JoinedThree DEF Wiped, Kept, Queued
  <2>5. QED  BY <1>1, <1>3, <2>1, <2>2, <2>3, <2>4
<1>4. QED  BY <1>2, <1>3 DEF Rebuild

\* The reset rebuilds the agent, or fails to, and rewrites the session file, or not.
LEMMA TakeResetMail ==
  ASSUME Mail, TakeReset PROVE Mail'
<1>1. /\ Take("reset") /\ Rebuild /\ UNCHANGED <<inputs, turn, said>>
      /\ \/ file' = <<>> /\ cleared' = IF Wiped' = {} THEN cleared \cup Wiped ELSE cleared
         \/ file' = file /\ cleared' = cleared
  BY DEF TakeReset, Saved, SaveFails, runVars
<1>2. Numbered(cmds', inputs) /\ Commanded' = Commanded
  BY <1>1, TakenFacts DEF Texts
<1>3. /\ memory' \in Seq(Nat) /\ steering' \in Seq(Nat) /\ followUps' \in Seq(Nat)
      /\ Apart(memory, steering, followUps)'
      /\ \/ Kept' = Kept /\ Queued' = Queued /\ dropped' = dropped
         \/ Kept' = {} /\ Queued' = {} /\ dropped' = dropped \cup (Kept \cap said)
      /\ Wiped = Kept /\ Wiped' = Kept'
  BY <1>1, RebuildFacts
<1>4. /\ file' \in Seq(Nat) /\ IsInjective(file') /\ ToSet(file') \subseteq ToSet(file)
      /\ file' # file => ToSet(file') = {}
  BY <1>1, OneMore DEF Mail, MailTypes
<1>5. MailTypes'
  BY <1>1, <1>2, <1>3, <1>4 DEF Mail, MailTypes
<1>6. cleared' \subseteq cleared \cup Kept
  BY <1>1, <1>3
<1>7. cleared' \cap (Kept' \cup ToSet(file') \cup Commanded') = {}
  <2>1. CASE cleared' = cleared
    BY <1>2, <1>3, <1>4, <2>1 DEF Mail
  <2>2. CASE file' = <<>> /\ Kept' = {} /\ cleared' = cleared \cup Kept
    BY <1>2, <2>2, OneMore DEF Mail
  <2>3. QED  BY <1>1, <1>3, <2>1, <2>2
<1>8. QED
  BY <1>1, <1>2, <1>3, <1>4, <1>5, <1>6, <1>7, MovedMail DEF Mail

\* A change of role rebuilds the agent, or fails to, and saves what it had or not.
LEMMA TakeRoleMail ==
  ASSUME Mail, TakeRole PROVE Mail'
<1>1. Take("role") /\ Rebuild /\ UNCHANGED <<inputs, turn, said, cleared>> /\ (file' = memory \/ file' = file)
  BY DEF TakeRole, Saved, SaveFails, runVars
<1>2. Numbered(cmds', inputs) /\ Commanded' = Commanded
  BY <1>1, TakenFacts DEF Texts
<1>3. /\ memory' \in Seq(Nat) /\ steering' \in Seq(Nat) /\ followUps' \in Seq(Nat)
      /\ Apart(memory, steering, followUps)'
      /\ \/ Kept' = Kept /\ Queued' = Queued /\ dropped' = dropped
         \/ Kept' = {} /\ Queued' = {} /\ dropped' = dropped \cup (Kept \cap said)
  BY <1>1, RebuildFacts
<1>4. file' \in Seq(Nat) /\ IsInjective(file') /\ ToSet(file') \subseteq ToSet(file) \cup Kept
  BY <1>1 DEF Mail, MailTypes, Apart, Kept
<1>5. MailTypes'
  BY <1>1, <1>2, <1>3, <1>4 DEF Mail, MailTypes
<1>6. QED
  BY <1>1, <1>2, <1>3, <1>4, <1>5, MovedMail DEF Mail

\* A cancel drops what was queued to steer.
LEMMA CancelledMail ==
  ASSUME Mail, Cancelled, UNCHANGED <<memory, cmds, file, inputs, said, cleared>>, turn' = turn PROVE Mail'
<1>1. dropped' = dropped \cup ToSet(steering) /\ steering' = <<>> /\ followUps' = followUps
  BY DEF Cancelled
<1>2. steering' \in Seq(Nat) /\ ToSet(steering') = {} /\ IsInjective(steering')
  BY <1>1, OneMore
<1>3. MailTypes'
  BY <1>1, <1>2 DEF Mail, MailTypes
<1>4. /\ Kept' \subseteq Kept /\ Queued' \subseteq Queued /\ Commanded' = Commanded
      /\ Kept \subseteq Kept' \cup dropped' /\ ToSet(steering) \subseteq said
  BY <1>1, <1>2, CommandedIs, CommandedWillBe DEF Kept, Queued, Mail
<1>5. Apart(memory, steering, followUps)'
  BY <1>1, <1>2 DEF Mail, Apart
<1>6. cleared' \cap (Kept' \cup ToSet(file') \cup Commanded') = {}
  BY <1>4 DEF Mail
<1>7. QED
  BY <1>1, <1>3, <1>4, <1>5, <1>6, MovedMail DEF Mail

\* A queue is emptied into the memory.
LEMMA PolledMail ==
  ASSUME Mail, UNCHANGED <<cmds, file, inputs, said, dropped, cleared>>, turn' \in Nat,
         \/ memory' = memory \o steering /\ steering' = <<>> /\ followUps' = followUps
         \/ memory' = memory \o followUps /\ followUps' = <<>> /\ steering' = steering
  PROVE  Mail'
<1>1. memory \in Seq(Nat) /\ steering \in Seq(Nat) /\ followUps \in Seq(Nat) /\ Apart(memory, steering, followUps)
  BY DEF Mail, MailTypes
<1>2. /\ memory \o steering \in Seq(Nat) /\ ToSet(memory \o steering) = ToSet(memory) \cup ToSet(steering)
      /\ IsInjective(memory \o steering)
  BY <1>1, Joined DEF Apart
<1>3. /\ memory \o followUps \in Seq(Nat) /\ ToSet(memory \o followUps) = ToSet(memory) \cup ToSet(followUps)
      /\ IsInjective(memory \o followUps)
  BY <1>1, Joined DEF Apart
<1>4. memory' \in Seq(Nat) /\ steering' \in Seq(Nat) /\ followUps' \in Seq(Nat)
  BY <1>1, <1>2, <1>3, OneMore
<1>5. Kept' = Kept /\ Queued' \subseteq Queued /\ Commanded' = Commanded
  BY <1>2, <1>3, OneMore, CommandedIs, CommandedWillBe DEF Kept, Queued
<1>6. Apart(memory, steering, followUps)'
  BY <1>1, <1>2, <1>3, OneMore DEF Apart
<1>7. MailTypes'
  BY <1>4 DEF Mail, MailTypes
<1>8. cleared' \cap (Kept' \cup ToSet(file') \cup Commanded') = {}
  BY <1>5 DEF Mail
<1>9. QED
  BY <1>5, <1>6, <1>7, <1>8, MovedMail DEF Mail

\* The conversation is saved, or cannot be.
LEMMA SaveMail ==
  ASSUME Mail, Save PROVE Mail'
<1>1. /\ UNCHANGED <<memory, steering, followUps, cmds, inputs, said, dropped, cleared>> /\ turn' = 0
      /\ file' = memory \/ file' = file
  BY DEF Save, Saved, SaveFails, agentVars, histVars
<1>2. file' \in Seq(Nat) /\ IsInjective(file') /\ ToSet(file') \subseteq ToSet(file) \cup Kept
  BY <1>1 DEF Mail, MailTypes, Apart, Kept
<1>3. MailTypes'
  BY <1>1, <1>2 DEF Mail, MailTypes
<1>4. Kept' = Kept /\ Queued' = Queued /\ Commanded' = Commanded
  BY <1>1, CommandedIs, CommandedWillBe DEF Kept, Queued
<1>5. Apart(memory, steering, followUps)'
  BY <1>1 DEF Mail, Apart
<1>6. cleared' \cap (Kept' \cup ToSet(file') \cup Commanded') = {}
  BY <1>1, <1>2, <1>4 DEF Mail
<1>7. QED
  BY <1>1, <1>2, <1>3, <1>4, <1>5, <1>6, MovedMail DEF Mail

\* No command, no message.
LEMMA EmptyChannel ==
  /\ \A n : Numbered(<<>>, n)
  /\ MessagesOf(<<>>) = {}
BY DEF Numbered, MessagesOf

\* A new process has nothing but what the session file gives it.
LEMMA RestartMail ==
  ASSUME Mail, NEW continue, Restart(continue) PROVE Mail'
<1>1. /\ UNCHANGED <<file, inputs, cleared>> /\ cmds' = <<>> /\ steering' = <<>> /\ followUps' = <<>>
      /\ said' = {} /\ dropped' = {} /\ turn' = 0 /\ (memory' = file \/ memory' = <<>>)
  BY DEF Restart, FreshProcess
<1>2. MailTypes'
  BY <1>1, OneMore, EmptyChannel DEF Mail, MailTypes
<1>3. ToSet(memory') \subseteq ToSet(file) /\ IsInjective(memory')
  BY <1>1, OneMore DEF Mail
<1>4. Commanded' = {} /\ Queued' = {} /\ Kept' \subseteq ToSet(file) /\ Apart(memory, steering, followUps)'
  BY <1>1, <1>3, OneMore, CommandedWillBe, EmptyChannel DEF Kept, Queued, Apart
<1>5. Everything' \subseteq Everything
  BY <1>1, <1>4 DEF Everything
<1>6. \A m \in Everything' : m \in Nat /\ m <= inputs'
  BY <1>1, <1>5 DEF Mail
<1>7. IsInjective(file)' /\ cleared' \cap (Kept' \cup ToSet(file') \cup Commanded') = {}
  BY <1>1, <1>4 DEF Mail
<1>8. Commanded' \cap Kept' = {} /\ Commanded' \cup Queued' \cup dropped' \subseteq said' /\ said' \subseteq Commanded' \cup Kept' \cup dropped'
  BY <1>1, <1>4
<1>9. QED  BY <1>2, <1>4, <1>6, <1>7, <1>8 DEF Mail

\* Before any input there is no message anywhere.
LEMMA MailInit == FInit => Mail
<1> SUFFICES ASSUME FInit PROVE Mail
  OBVIOUS
<1>1. /\ memory = <<>> /\ steering = <<>> /\ followUps = <<>> /\ file = <<>> /\ cmds = <<>>
      /\ inputs = 0 /\ turn = 0 /\ said = {} /\ dropped = {} /\ cleared = {}
  BY DEF FInit, Init
<1>2. Commanded = {} /\ Kept = {} /\ Queued = {} /\ ToSet(file) = {} /\ IsInjective(file)
      /\ Apart(memory, steering, followUps) /\ MailTypes
  BY <1>1, OneMore, EmptyChannel, CommandedIs DEF Kept, Queued, Apart, MailTypes
<1>3. QED  BY <1>1, <1>2 DEF Mail, Everything

\* A step of the task keeps the messages.
LEMMA TaskMail ==
  ASSUME Mail, Task PROVE Mail'
<1>1. turn \in Nat /\ turn + 1 \in Nat /\ 0 \in Nat
  BY DEF Mail, MailTypes
<1>2. ASSUME BeginTurn PROVE Mail'
  <2>1. UNCHANGED <<cmds, file, inputs, said, cleared>>
    BY <1>2 DEF BeginTurn
  <2>2. CASE UNCHANGED <<agentVars, turn, dropped>>
    BY <1>1, <2>1, <2>2, StillMail DEF StillVars, histVars
  <2>3. CASE Cancelled /\ UNCHANGED <<memory, turn>>
    BY <2>1, <2>3, CancelledMail
  <2>4. CASE memory' = memory \o steering /\ steering' = <<>> /\ turn' = turn + 1 /\ UNCHANGED <<followUps, dropped>>
    BY <1>1, <2>1, <2>4, PolledMail
  <2>5. QED  BY <1>2, <2>2, <2>3, <2>4 DEF BeginTurn
<1>3. ASSUME CallTool PROVE Mail'
  <2>1. UNCHANGED <<cmds, file, inputs, said, cleared, memory, turn>>
    BY <1>3 DEF CallTool
  <2>2. CASE Cancelled
    BY <2>1, <2>2, CancelledMail
  <2>3. CASE UNCHANGED <<steering, followUps, dropped>>
    BY <1>1, <2>1, <2>3, StillMail DEF StillVars, histVars, agentVars
  <2>4. QED  BY <1>3, <2>2, <2>3 DEF CallTool
<1>4. ASSUME Answer PROVE Mail'
  <2>1. UNCHANGED <<cmds, file, inputs, said, cleared, turn>>
    BY <1>4 DEF Answer
  <2>2. CASE Cancelled /\ UNCHANGED memory
    BY <2>1, <2>2, CancelledMail
  <2>3. CASE memory' = memory \o followUps /\ followUps' = <<>> /\ UNCHANGED <<steering, dropped>>
    BY <1>1, <2>1, <2>3, PolledMail
  <2>4. QED  BY <1>4, <2>2, <2>3 DEF Answer
<1>5. ASSUME StreamText \/ ToolReturns \/ RequestFails PROVE Mail'
  <2>1. UNCHANGED StillVars /\ turn' = turn
    BY <1>5 DEF StreamText, ToolReturns, RequestFails, StillVars
  <2>2. QED  BY <1>1, <2>1, StillMail
<1>6. QED
  BY <1>2, <1>3, <1>4, <1>5, TakeRunMail, TakeSteerMail, TakeFollowUpMail, TakeResetMail, TakeRoleMail, SaveMail DEF Task

\* A step of either front end keeps the messages.
LEMMA MailStep ==
  ASSUME Mail, FNext PROVE Mail'
<1>1. turn \in Nat
  BY DEF Mail, MailTypes
<1>2. ASSUME UNCHANGED <<StillVars, turn>> PROVE Mail'
  BY <1>1, <1>2, StillMail
<1>3. ASSUME Submit \/ TypeMessage PROVE Mail'
  <2>1. PICK kind \in Texts : Send(kind)
    BY <1>3 DEF Submit, TypeMessage, Texts
  <2>2. /\ inputs' = inputs + 1 /\ UNCHANGED <<agentVars, file, turn, dropped, cleared>>
        /\ said' = said \cup {inputs + 1}
    BY <1>3 DEF Submit, TypeMessage, Input, runVars
  <2>3. QED  BY <2>1, <2>2, TypedMail DEF Texts
<1>4. ASSUME Clear \/ PickRole PROVE Mail'
  <2>1. PICK kind \in {"reset", "role"} : Send(kind)
    BY <1>4 DEF Clear, PickRole
  <2>2. inputs' = inputs + 1 /\ UNCHANGED <<agentVars, file, turn, dropped, cleared, said>>
    BY <1>4 DEF Clear, PickRole, Input, runVars, histVars
  <2>3. QED  BY <2>1, <2>2, TypedMail DEF Texts
<1>5. ASSUME ClearLog PROVE Mail'
  <2>1. inputs' = inputs + 1 /\ UNCHANGED <<cmds, agentVars, file, histVars, turn>>
    BY <1>5 DEF ClearLog, Input, runVars
  <2>2. UNCHANGED <<memory, steering, followUps, file, cmds, said, dropped, cleared, turn>>
    BY <2>1 DEF agentVars, histVars
  <2>3. inputs \in Nat /\ Numbered(cmds, inputs)
    BY DEF Mail, MailTypes
  <2>4. Numbered(cmds, inputs + 1)
    <3>1. \A i \in 1..Len(cmds) : cmds[i] \in Command
      BY <2>3 DEF Numbered
    <3>2. \A i \in 1..Len(cmds) : cmds[i].msg \in Nat
      BY <3>1 DEF Command
    <3>3. QED  BY <2>3, <3>2 DEF Numbered
  <2>5. MailTypes'
    BY <2>1, <2>2, <2>3, <2>4 DEF Mail, MailTypes
  <2>6. Commanded' = Commanded /\ Kept' = Kept /\ Queued' = Queued
    BY <2>2, CommandedIs, CommandedWillBe DEF Kept, Queued
  <2>7. Everything' = Everything
    BY <2>2, <2>6 DEF Everything
  <2>8. QED  BY <2>1, <2>2, <2>3, <2>5, <2>6, <2>7 DEF Mail
<1>6. ASSUME Esc \/ ReadEvent \/ DrawEvent \/ StreamReasoning \/ Leave PROVE UNCHANGED <<StillVars, turn>>
  BY <1>6 DEF Esc, ReadEvent, DrawEvent, StreamReasoning, Leave, Stop, StillVars, runVars
<1>7. ASSUME NEW continue \in BOOLEAN, Again(continue) PROVE Mail'
  BY <1>7, RestartMail DEF Again
<1>8. QED
  BY <1>2, <1>3, <1>4, <1>5, <1>6, <1>7, TaskMail DEF FNext, InMode, FrontEnd

-----------------------------------------------------------------------------
(* Runs and their events *)

EventKinds == {"text", "think", "tool", "result", "done", "cancelled", "error"}
Ends == {"done", "cancelled", "error"}
Event == [kind : EventKinds, run : Nat]

InRun == phase \in {"turn", "request", "tool"}
RunSent == \E i \in 1..Len(cmds) : cmds[i].kind = "run"

\* The events on their way are of the run that is shown; the last event of a run
\* has none behind it; and the result of a tool follows its start at once.
EventsOf(ch, p, run) ==
  /\ ch \in Seq(Event)
  /\ \A i \in 1..Len(ch) : ch[i].run # 0 => ch[i].run = run
  /\ \A i \in 1..Len(ch) : ch[i].kind \in Ends => i = Len(ch) /\ p \in {"idle", "save"} /\ ch[i].run # 0
  /\ \A i \in 1..Len(ch) : ch[i].kind = "tool" =>
        /\ ch[i].run # 0
        /\ IF i = Len(ch) THEN p = "tool" ELSE ch[i + 1].kind = "result" /\ ch[i + 1].run # 0

\* Events of no run: what a start announces.
Silent(ch) == \A i \in 1..Len(ch) : ch[i].run = 0

\* A run is sent, under way, or drawn to its end, and the next one starts after.
Runs ==
  /\ streaming \in BOOLEAN /\ shown \in Nat /\ running \in Nat
  /\ phase \in {"idle", "turn", "request", "tool", "save"}
  /\ EventsOf(events, phase, shown)
  /\ InRun => running = shown /\ running # 0
  /\ RunSent => ~InRun /\ Silent(events)
  /\ \A i \in 1..Len(cmds) : cmds[i].kind = "run" => cmds[i].msg = shown
  /\ InRun \/ RunSent \/ ~Silent(events) => streaming = TRUE

\* A sequence of no length is empty.
LEMMA NoneLeft ==
  ASSUME NEW S, NEW s \in Seq(S) PROVE s = <<>> <=> Len(s) = 0
OBVIOUS

\* The front end takes the first event.
LEMMA EventTaken ==
  ASSUME NEW ch, NEW p, NEW run, EventsOf(ch, p, run), ch # <<>>
  PROVE  /\ EventsOf(Tail(ch), p, run) /\ Head(ch) \in Event /\ Head(ch) = ch[1]
         /\ Silent(ch) => Silent(Tail(ch))
         /\ Head(ch).kind \in Ends => /\ Tail(ch) = <<>> /\ p \in {"idle", "save"}
                                      /\ ~Silent(ch)
         /\ Head(ch).kind = "tool" =>
              \/ Tail(ch) = <<>> /\ p = "tool"
              \/ Tail(ch) # <<>> /\ Head(Tail(ch)).kind = "result" /\ Head(Tail(ch)).run # 0
<1> DEFINE rest == Tail(ch)
           h == Head(ch)
<1>1. /\ ch \in Seq(Event) /\ rest \in Seq(Event) /\ Len(ch) \in Nat \ {0} /\ Len(rest) = Len(ch) - 1
      /\ \A i \in 1..Len(rest) : rest[i] = ch[i + 1] /\ i + 1 \in 1..Len(ch)
      /\ h = ch[1] /\ 1 \in 1..Len(ch)
      /\ \A i \in 1..Len(ch) : ch[i] \in Event
      /\ (rest = <<>>) <=> (Len(ch) = 1)
      /\ rest # <<>> => Head(rest) = rest[1] /\ 1 \in 1..Len(rest)
  <2>1. ch \in Seq(Event)
    BY DEF EventsOf
  <2>2. rest \in Seq(Event) /\ Len(ch) \in Nat \ {0} /\ Len(rest) = Len(ch) - 1
    BY <2>1
  <2>3. /\ \A i \in 1..Len(rest) : rest[i] = ch[i + 1] /\ i + 1 \in 1..Len(ch)
        /\ h = ch[1] /\ 1 \in 1..Len(ch)
        /\ \A i \in 1..Len(ch) : ch[i] \in Event
    BY <2>1, <2>2
  <2> HIDE DEF rest, h
  <2>4. (rest = <<>>) <=> (Len(rest) = 0)
    BY <2>2, NoneLeft
  <2>5. rest # <<>> => Head(rest) = rest[1] /\ 1 \in 1..Len(rest)
    BY <2>2
  <2>6. QED  BY <2>1, <2>2, <2>3, <2>4, <2>5
<1> HIDE DEF rest, h
<1>2. \A i \in 1..Len(rest) : i + 1 = Len(ch) <=> i = Len(rest)
  BY <1>1
<1>3. EventsOf(rest, p, run)
  <2>1. \A i \in 1..Len(rest) : rest[i].run # 0 => rest[i].run = run
    BY <1>1 DEF EventsOf
  <2>2. \A i \in 1..Len(rest) : rest[i].kind \in Ends => i = Len(rest) /\ p \in {"idle", "save"} /\ rest[i].run # 0
    <3>1. SUFFICES ASSUME NEW i \in 1..Len(rest), rest[i].kind \in Ends
                   PROVE  i = Len(rest) /\ p \in {"idle", "save"} /\ rest[i].run # 0
      OBVIOUS
    <3>2. i + 1 \in 1..Len(ch) /\ rest[i] = ch[i + 1]
      BY <1>1
    <3>3. QED  BY <1>2, <3>1, <3>2 DEF EventsOf
  <2>3. \A i \in 1..Len(rest) : rest[i].kind = "tool" =>
          /\ rest[i].run # 0
          /\ IF i = Len(rest) THEN p = "tool" ELSE rest[i + 1].kind = "result" /\ rest[i + 1].run # 0
    <3>1. SUFFICES ASSUME NEW i \in 1..Len(rest), rest[i].kind = "tool"
                   PROVE  /\ rest[i].run # 0
                          /\ IF i = Len(rest) THEN p = "tool" ELSE rest[i + 1].kind = "result" /\ rest[i + 1].run # 0
      OBVIOUS
    <3>2. i + 1 \in 1..Len(ch) /\ rest[i] = ch[i + 1]
      BY <1>1
    <3>3. rest[i].run # 0 /\ (i = Len(rest) => p = "tool")
      BY <1>2, <3>1, <3>2 DEF EventsOf
    <3>4. i # Len(rest) => i + 1 \in 1..Len(rest) /\ rest[i + 1] = ch[(i + 1) + 1]
      BY <1>1
    <3>5. i # Len(rest) => ch[(i + 1) + 1].kind = "result" /\ ch[(i + 1) + 1].run # 0
      BY <1>2, <3>1, <3>2 DEF EventsOf
    <3>6. QED  BY <3>3, <3>4, <3>5
  <2>4. QED  BY <1>1, <2>1, <2>2, <2>3 DEF EventsOf
<1>4. h.kind \in Ends => Len(ch) = 1 /\ p \in {"idle", "save"} /\ ~Silent(ch)
  BY <1>1 DEF EventsOf, Silent
<1>5. h.kind = "tool" => IF 1 = Len(ch) THEN p = "tool" ELSE ch[1 + 1].kind = "result" /\ ch[1 + 1].run # 0
  BY <1>1 DEF EventsOf
<1>6. rest # <<>> => Head(rest) = ch[1 + 1] /\ 1 # Len(ch)
  BY <1>1
<1>7. Silent(ch) => Silent(rest)
  BY <1>1 DEF Silent
<1>8. QED  BY <1>1, <1>3, <1>4, <1>5, <1>6, <1>7 DEF rest, h

\* The run emits one more, and changes phase accordingly.
LEMMA EventEmitted ==
  ASSUME NEW ch, NEW p, NEW run \in Nat \ {0}, EventsOf(ch, p, run), NEW kind \in EventKinds, NEW q,
         p \in {"turn", "request", "tool"},
         p = "tool" => kind = "result",
         kind \in Ends => q = "save",
         kind = "tool" => q = "tool"
  PROVE  EventsOf(Append(ch, [kind |-> kind, run |-> run]), q, run)
<1> DEFINE e == [kind |-> kind, run |-> run]
           more == Append(ch, e)
<1>1. e \in Event /\ e.kind = kind /\ e.run = run
  BY DEF Event
<1> HIDE DEF e
<1>2. /\ ch \in Seq(Event) /\ more \in Seq(Event) /\ Len(ch) \in Nat /\ Len(more) = Len(ch) + 1
      /\ \A i \in 1..Len(ch) : more[i] = ch[i] /\ i # Len(more)
      /\ more[Len(ch) + 1] = e
  BY <1>1 DEF EventsOf
<1> HIDE DEF more
<1>3. 1..Len(more) = 1..Len(ch) \cup {Len(ch) + 1}
  BY <1>2
<1>4. \A i \in 1..Len(more) : more[i].run # 0 => more[i].run = run
  BY <1>1, <1>2, <1>3 DEF EventsOf
<1>5. \A i \in 1..Len(ch) : ch[i].kind \notin Ends
  BY DEF EventsOf
<1>6. \A i \in 1..Len(more) : more[i].kind \in Ends => i = Len(more) /\ q \in {"idle", "save"} /\ more[i].run # 0
  BY <1>1, <1>2, <1>3, <1>5
<1>7. ASSUME NEW i \in 1..Len(more), more[i].kind = "tool"
      PROVE  /\ more[i].run # 0
             /\ IF i = Len(more) THEN q = "tool" ELSE more[i + 1].kind = "result" /\ more[i + 1].run # 0
  <2>1. CASE i = Len(ch) + 1
    BY <1>1, <1>2, <1>7, <2>1
  <2>2. CASE i = Len(ch) /\ i \in 1..Len(ch)
    <3>1. ch[i].kind = "tool" /\ ch[i].run # 0 /\ p = "tool"
      BY <1>2, <1>7, <2>2 DEF EventsOf
    <3>2. more[i + 1] = e /\ e.kind = "result"
      BY <1>1, <1>2, <2>2, <3>1
    <3>3. QED  BY <1>1, <1>2, <2>2, <3>1, <3>2
  <2>3. CASE i # Len(ch) /\ i \in 1..Len(ch)
    <3>1. i + 1 \in 1..Len(ch)
      BY <1>2, <2>3
    <3>2. ch[i].run # 0 /\ ch[i + 1].kind = "result" /\ ch[i + 1].run # 0
      BY <1>2, <1>7, <2>3 DEF EventsOf
    <3>3. QED  BY <1>2, <2>3, <3>1, <3>2
  <2>4. QED  BY <1>3, <2>1, <2>2, <2>3
<1>8. EventsOf(more, q, run)
  BY <1>2, <1>4, <1>6, <1>7 DEF EventsOf
<1>9. QED  BY <1>8 DEF more, e

\* What the front end sends comes behind the commands already on their way.
LEMMA SentRuns ==
  ASSUME Mail, NEW kind \in {"run", "steer", "follow", "reset", "role"}, Send(kind)
  PROVE  \A i \in 1..Len(cmds') :
           \/ i \in 1..Len(cmds) /\ cmds'[i] = cmds[i]
           \/ cmds'[i].kind = kind /\ cmds'[i].msg = inputs + 1
<1> DEFINE c == [kind |-> kind, msg |-> inputs + 1, turn |-> turn]
<1>1. c \in Command /\ c.kind = kind /\ c.msg = inputs + 1 /\ cmds' = Append(cmds, c) /\ cmds \in Seq(Command)
  BY DEF Send, Command, Mail, MailTypes, Numbered
<1> HIDE DEF c
<1>2. QED  BY <1>1

\* Taking a command leaves the others, and no run after the one that is taken.
LEMMA TakenRuns ==
  ASSUME Mail, Runs, NEW kind, Take(kind)
  PROVE  /\ Head(cmds).kind = kind /\ Head(cmds) = cmds[1] /\ 1 \in 1..Len(cmds) /\ Head(cmds).msg \in Nat \ {0}
         /\ \A i \in 1..Len(cmds') : i + 1 \in 1..Len(cmds) /\ cmds'[i] = cmds[i + 1]
         /\ kind = "run" => ~RunSent'
<1>1. /\ cmds # <<>> /\ Head(cmds).kind = kind /\ cmds' = Tail(cmds) /\ cmds \in Seq(Command)
      /\ Numbered(cmds, inputs) /\ inputs \in Nat
  BY DEF Take, Mail, MailTypes, Numbered
<1>2. /\ Head(cmds) = cmds[1] /\ 1 \in 1..Len(cmds) /\ Len(cmds) \in Nat
      /\ \A i \in 1..Len(cmds') : i + 1 \in 1..Len(cmds) /\ cmds'[i] = cmds[i + 1]
  BY <1>1
<1>3. \A i \in 1..Len(cmds) : cmds[i].msg \in Nat \ {0}
  <2>1. \A i \in 1..Len(cmds) : cmds[i] \in Command /\ 0 < cmds[i].msg
    BY <1>1 DEF Numbered
  <2>2. QED  BY <2>1 DEF Command
<1>4. ASSUME kind = "run", NEW i \in 1..Len(cmds'), cmds'[i].kind = "run" PROVE FALSE
  <2>1. i + 1 \in 1..Len(cmds) /\ 1 < i + 1 /\ cmds[i + 1].kind = "run"
    BY <1>2, <1>4
  <2>2. cmds[1].msg < cmds[i + 1].msg
    BY <1>1, <1>2, <2>1 DEF Numbered
  <2>3. cmds[1].msg = shown /\ cmds[i + 1].msg = shown
    BY <1>1, <1>2, <1>4, <2>1 DEF Runs
  <2>4. QED  BY <1>2, <1>3, <2>2, <2>3
<1>5. QED  BY <1>1, <1>2, <1>3, <1>4 DEF RunSent

\* Steps that only move commands, none of them a run.
LEMMA OtherCommands ==
  ASSUME Runs, UNCHANGED <<streaming, shown, running, phase, events>>,
         \A i \in 1..Len(cmds') : cmds'[i].kind = "run" => \E j \in 1..Len(cmds) : cmds[j] = cmds'[i]
  PROVE  Runs'
<1>1. RunSent' => RunSent
  BY DEF RunSent
<1>2. \A i \in 1..Len(cmds') : cmds'[i].kind = "run" => cmds'[i].msg = shown
  BY DEF Runs
<1>3. InRun' <=> InRun
  BY DEF InRun
<1>4. QED  BY <1>1, <1>2, <1>3 DEF Runs

\* The run emits an event and stays, or goes to a phase that owes it.
LEMMA EmitRuns ==
  ASSUME Runs, InRun, NEW kind \in EventKinds, Emit(kind), UNCHANGED <<streaming, shown, running, cmds>>,
         phase' \in {"turn", "request", "tool", "save"},
         phase = "tool" => kind = "result",
         kind \in Ends => phase' = "save",
         kind = "tool" => phase' = "tool"
  PROVE  Runs'
<1>1. /\ shown \in Nat \ {0} /\ running = shown /\ EventsOf(events, phase, shown) /\ streaming = TRUE /\ ~RunSent
      /\ phase \in {"turn", "request", "tool"}
  BY DEF Runs, InRun
<1>2. EventsOf(events', phase', shown)
  BY <1>1, EventEmitted DEF Emit
<1>3. ~RunSent'
  BY <1>1 DEF RunSent
<1>4. QED  BY <1>1, <1>2, <1>3 DEF Runs, RunSent

\* The run goes on, or ends, without an event.
LEMMA QuietRuns ==
  ASSUME Runs, InRun, phase # "tool", UNCHANGED <<streaming, shown, running, cmds, events>>, phase' \in {"turn", "request", "save"}
  PROVE  Runs'
<1>1. running = shown /\ running # 0 /\ EventsOf(events, phase, shown) /\ streaming = TRUE /\ ~RunSent /\ phase \in {"turn", "request"}
  BY DEF Runs, InRun
<1>2. EventsOf(events', phase', shown')
  BY <1>1 DEF EventsOf
<1>3. ~RunSent'
  BY <1>1 DEF RunSent
<1>4. QED  BY <1>1, <1>2, <1>3 DEF Runs, RunSent, InRun

\* The front end starts a run.
LEMMA StartRuns ==
  ASSUME Mail, Runs, ~streaming, Send("run"), streaming' = TRUE, shown' = inputs + 1, UNCHANGED <<running, phase, events>>
  PROVE  Runs'
<1>1. ~InRun /\ ~RunSent /\ Silent(events) /\ inputs \in Nat /\ EventsOf(events, phase, shown)
  BY DEF Runs, Mail, MailTypes
<1>2. \A i \in 1..Len(cmds') : cmds'[i].kind = "run" => cmds'[i].msg = shown'
  BY <1>1, SentRuns DEF RunSent
<1>3. EventsOf(events', phase', shown')
  BY <1>1 DEF EventsOf, Silent
<1>4. ~InRun' /\ Silent(events')
  BY <1>1 DEF InRun
<1>5. QED  BY <1>1, <1>2, <1>3, <1>4 DEF Runs

\* Either front end draws an event.
LEMMA DrawnRuns ==
  ASSUME Runs, events # <<>>, events' = Tail(events), UNCHANGED <<shown, running, phase, cmds>>,
         streaming' = (streaming /\ Head(events).kind \notin Ends)
  PROVE  Runs'
<1>1. EventsOf(events, phase, shown)
  BY DEF Runs
<1>2. /\ EventsOf(events', phase, shown) /\ (Silent(events) => Silent(events'))
      /\ Head(events).kind \in Ends => events' = <<>> /\ phase \in {"idle", "save"} /\ ~Silent(events)
  BY <1>1, EventTaken
<1>3. (RunSent' <=> RunSent) /\ (InRun' <=> InRun)
  BY DEF RunSent, InRun
<1>4. CASE Head(events).kind \in Ends
  <2>1. streaming' = FALSE /\ ~InRun /\ ~RunSent /\ events' = <<>>
    BY <1>2, <1>4 DEF Runs, InRun
  <2>2. Silent(events')
    <3>1. Silent(<<>>)
      BY DEF Silent
    <3>2. QED  BY <2>1, <3>1
  <2>3. QED  BY <1>2, <1>3, <2>1, <2>2 DEF Runs, RunSent
<1>5. CASE Head(events).kind \notin Ends
  <2>1. streaming' = streaming
    BY <1>5 DEF Runs
  <2>2. QED  BY <1>2, <1>3, <2>1 DEF Runs, RunSent
<1>6. QED  BY <1>4, <1>5

\* Before any input nothing runs and no event is on its way.
LEMMA RunsInit == FInit => Runs
<1> SUFFICES ASSUME FInit PROVE Runs
  OBVIOUS
<1>1. /\ streaming = FALSE /\ shown = 0 /\ running = 0 /\ phase = "idle" /\ events = <<>> /\ cmds = <<>>
  BY DEF FInit, Init
<1>2. EventsOf(<<>>, "idle", 0) /\ Silent(<<>>)
  BY DEF EventsOf, Silent
<1>3. EventsOf(events, phase, shown) /\ Silent(events)
  BY <1>1, <1>2
<1>4. ~InRun /\ ~RunSent
  BY <1>1 DEF InRun, RunSent
<1>5. QED  BY <1>1, <1>3, <1>4 DEF Runs, RunSent

\* A new process runs nothing.
LEMMA RestartRuns ==
  ASSUME NEW continue \in BOOLEAN, Again(continue) PROVE Runs'
<1>1. /\ streaming' = FALSE /\ shown' = 0 /\ running' = 0 /\ phase' = "idle" /\ cmds' = <<>>
      /\ events' = <<>> \/ events' = <<[kind |-> "text", run |-> 0]>>
  BY DEF Again, Restart, FreshProcess, Notices
<1>2. EventsOf(<<>>, "idle", 0) /\ Silent(<<>>)
  BY DEF EventsOf, Silent
<1>3. EventsOf(<<[kind |-> "text", run |-> 0]>>, "idle", 0) /\ Silent(<<[kind |-> "text", run |-> 0]>>)
  <2> DEFINE e == [kind |-> "text", run |-> 0]
  <2>1. e \in Event /\ e.kind = "text" /\ e.run = 0
    BY DEF Event, EventKinds
  <2> HIDE DEF e
  <2>2. <<e>> \in Seq(Event) /\ Len(<<e>>) = 1 /\ \A i \in 1..Len(<<e>>) : <<e>>[i] = e
    BY <2>1
  <2>3. EventsOf(<<e>>, "idle", 0) /\ Silent(<<e>>)
    BY <2>1, <2>2 DEF EventsOf, Silent, Ends
  <2>4. QED  BY <2>3 DEF e
<1>4. EventsOf(events', phase', shown') /\ Silent(events')
  BY <1>1, <1>2, <1>3
<1>5. ~InRun' /\ ~RunSent'
  BY <1>1 DEF InRun, RunSent
<1>6. QED  BY <1>1, <1>4, <1>5 DEF Runs, RunSent

\* A step of the task keeps the runs apart.
LEMMA TaskRuns ==
  ASSUME Mail, Runs, Task PROVE Runs'
<1> USE DEF uiVars, runVars
<1>1. ASSUME TakeRun PROVE Runs'
  <2>1. /\ Take("run") /\ phase' = "turn" /\ running' = Head(cmds).msg /\ UNCHANGED <<streaming, shown, events>>
    BY <1>1 DEF TakeRun
  <2>2. /\ Head(cmds).kind = "run" /\ Head(cmds) = cmds[1] /\ 1 \in 1..Len(cmds) /\ Head(cmds).msg \in Nat \ {0}
        /\ ~RunSent'
    BY <2>1, TakenRuns
  <2>3. RunSent /\ Head(cmds).msg = shown
    BY <2>2 DEF RunSent, Runs
  <2>4. streaming = TRUE /\ Silent(events) /\ EventsOf(events, phase, shown)
    BY <2>3 DEF Runs
  <2>5. EventsOf(events', phase', shown')
    BY <2>1, <2>4 DEF EventsOf, Silent
  <2>6. \A i \in 1..Len(cmds') : cmds'[i].kind # "run"
    BY <2>2 DEF RunSent
  <2>7. QED  BY <2>1, <2>2, <2>3, <2>4, <2>5, <2>6 DEF Runs
<1>2. ASSUME NEW kind \in {"steer", "follow", "reset", "role"}, Take(kind), UNCHANGED <<streaming, shown, running, phase, events>>
      PROVE  Runs'
  <2>1. \A i \in 1..Len(cmds') : i + 1 \in 1..Len(cmds) /\ cmds'[i] = cmds[i + 1]
    BY <1>2, TakenRuns
  <2>2. QED  BY <1>2, <2>1, OtherCommands
<1>3. TakeSteer \/ TakeFollowUp \/ TakeReset \/ TakeRole => Runs'
  BY <1>2 DEF TakeSteer, TakeFollowUp, TakeReset, TakeRole
<1>4. ASSUME Cancelled, phase \in {"turn", "request"}, UNCHANGED <<streaming, shown, running, cmds>> PROVE Runs'
  BY <1>4, EmitRuns DEF Cancelled, InRun, EventKinds, Ends
<1>5. ASSUME BeginTurn PROVE Runs'
  <2>1. phase = "turn" /\ UNCHANGED <<streaming, shown, running, cmds>>
    BY <1>5 DEF BeginTurn
  <2>2. CASE Cancelled
    BY <1>4, <2>1, <2>2
  <2>3. CASE Emit("error") /\ phase' = "save"
    BY <2>1, <2>3, EmitRuns DEF InRun, EventKinds, Ends
  <2>4. CASE phase' = "request" /\ events' = events
    BY <2>1, <2>4, QuietRuns DEF InRun
  <2>5. QED  BY <1>5, <2>2, <2>3, <2>4 DEF BeginTurn
<1>6. ASSUME StreamText PROVE Runs'
  BY <1>6, EmitRuns DEF StreamText, InRun, EventKinds, Ends
<1>7. ASSUME CallTool PROVE Runs'
  <2>1. phase = "request" /\ UNCHANGED <<streaming, shown, running, cmds>>
    BY <1>7 DEF CallTool
  <2>2. CASE Cancelled
    BY <1>4, <2>1, <2>2
  <2>3. CASE Emit("tool") /\ phase' = "tool"
    BY <2>1, <2>3, EmitRuns DEF InRun, EventKinds, Ends
  <2>4. QED  BY <1>7, <2>2, <2>3 DEF CallTool
<1>8. ASSUME ToolReturns PROVE Runs'
  BY <1>8, EmitRuns DEF ToolReturns, InRun, EventKinds, Ends
<1>9. ASSUME Answer PROVE Runs'
  <2>1. phase = "request" /\ UNCHANGED <<streaming, shown, running, cmds>>
    BY <1>9 DEF Answer
  <2>2. CASE Cancelled
    BY <1>4, <2>1, <2>2
  <2>3. CASE Emit("done") /\ phase' = "save"
    BY <2>1, <2>3, EmitRuns DEF InRun, EventKinds, Ends
  <2>4. CASE phase' = "turn" /\ events' = events
    BY <2>1, <2>4, QuietRuns DEF InRun
  <2>5. QED  BY <1>9, <2>2, <2>3, <2>4 DEF Answer
<1>10. ASSUME RequestFails PROVE Runs'
  <2>1. phase = "request" /\ phase' = "save" /\ UNCHANGED <<streaming, shown, running, cmds>>
    BY <1>10 DEF RequestFails
  <2>2. CASE Emit("error")
    BY <2>1, <2>2, EmitRuns DEF InRun, EventKinds, Ends
  <2>3. CASE events' = events
    BY <2>1, <2>3, QuietRuns DEF InRun
  <2>4. QED  BY <1>10, <2>2, <2>3 DEF RequestFails
<1>11. ASSUME Save PROVE Runs'
  <2>1. phase = "save" /\ phase' = "idle" /\ running' = 0 /\ UNCHANGED <<streaming, shown, cmds, events>>
    BY <1>11 DEF Save
  <2>2. EventsOf(events', phase', shown') /\ ~InRun' /\ (RunSent' <=> RunSent)
    BY <2>1 DEF Runs, EventsOf, InRun, RunSent
  <2>3. QED  BY <2>1, <2>2 DEF Runs
<1>12. QED
  BY <1>1, <1>3, <1>5, <1>6, <1>7, <1>8, <1>9, <1>10, <1>11 DEF Task

\* A step of either front end keeps the runs apart.
LEMMA RunsStep ==
  ASSUME Mail, Runs, FNext PROVE Runs'
<1> USE DEF uiVars, runVars
<1>1. ASSUME Submit \/ TypeMessage, ~streaming PROVE Runs'
  BY <1>1, StartRuns DEF Submit, TypeMessage
<1>2. ASSUME NEW kind \in {"steer", "follow", "reset", "role"}, Send(kind), UNCHANGED <<streaming, shown, running, phase, events>>
      PROVE  Runs'
  BY <1>2, SentRuns, OtherCommands
<1>3. ASSUME (Submit /\ streaming) \/ Clear \/ PickRole PROVE Runs'
  <2>1. PICK kind \in {"steer", "follow", "reset", "role"} : Send(kind)
    BY <1>3 DEF Submit, Clear, PickRole
  <2>2. UNCHANGED <<streaming, shown, running, phase, events>>
    BY <1>3 DEF Submit, Clear, PickRole
  <2>3. QED  BY <1>2, <2>1, <2>2
<1>4. ASSUME Esc \/ ClearLog \/ Leave PROVE Runs'
  <2>1. UNCHANGED <<streaming, shown, running, phase, events, cmds>>
    BY <1>4 DEF Esc, ClearLog, Leave, Stop
  <2>2. QED  BY <2>1, OtherCommands
<1>5. ASSUME ReadEvent \/ DrawEvent PROVE Runs'
  BY <1>5, DrawnRuns DEF ReadEvent, DrawEvent, Ends
<1>6. ASSUME StreamReasoning PROVE Runs'
  BY <1>6, EmitRuns DEF StreamReasoning, InRun, EventKinds, Ends
<1>7. TypeMessage => ~streaming
  BY DEF TypeMessage
<1>8. QED
  BY <1>1, <1>3, <1>4, <1>5, <1>6, <1>7, TaskRuns, RestartRuns DEF FNext, InMode, FrontEnd

-----------------------------------------------------------------------------
(* The chat log *)

Block == {"answer", "thinking", "running", "done"}
Turn == [run : Nat, blocks : Seq(Block)]

\* The event to be drawn next is a tool's result, or it is still to be emitted.
ResultNext ==
  \/ events = <<>> /\ phase = "tool"
  \/ events # <<>> /\ Head(events).kind = "result" /\ Head(events).run # 0

\* A tool that is drawn as running is the last thing drawn in the turn that
\* streams, and its result is the next thing to be.
Log ==
  /\ log \in Seq(Turn) /\ at \in 0..Len(log)
  /\ mode = "linear" => log = <<>>
  /\ at # 0 => log[at].run = shown
  /\ \A i \in 1..Len(log) : \A k \in 1..Len(log[i].blocks) :
        log[i].blocks[k] = "running" => i = at /\ k = Len(log[i].blocks) /\ ResultNext

\* What drawing an event makes of blocks of which none but the last is running.
LEMMA DrawnFacts ==
  ASSUME NEW bs \in Seq(Block), NEW kind \in EventKinds,
         \A k \in 1..Len(bs) : bs[k] = "running" => k = Len(bs) /\ kind = "result"
  PROVE  /\ Drawn(kind, bs) \in Seq(Block)
         /\ \A k \in 1..Len(Drawn(kind, bs)) :
               Drawn(kind, bs)[k] = "running" => k = Len(Drawn(kind, bs)) /\ kind = "tool"
<1>1. Len(bs) \in Nat /\ \A k \in 1..Len(bs) : bs[k] \in Block
  OBVIOUS
<1>2. bs # <<>> => /\ Len(bs) \in Nat \ {0} /\ Front(bs) \in Seq(Block) /\ Len(Front(bs)) = Len(bs) - 1
                   /\ \A k \in 1..Len(Front(bs)) : Front(bs)[k] = bs[k] /\ k \in 1..Len(bs) /\ k # Len(bs)
  <2>1. SUFFICES ASSUME bs # <<>>
                 PROVE  /\ Len(bs) \in Nat \ {0} /\ Front(bs) \in Seq(Block) /\ Len(Front(bs)) = Len(bs) - 1
                        /\ \A k \in 1..Len(Front(bs)) : Front(bs)[k] = bs[k] /\ k \in 1..Len(bs) /\ k # Len(bs)
    OBVIOUS
  <2>2. Len(bs) \in Nat \ {0}
    BY <1>1, <2>1, NoneLeft
  <2>3. PICK n \in Nat : n = Len(bs) - 1
    BY <2>2
  <2>4. Front(bs) = SubSeq(bs, 1, n) /\ n \in 0..Len(bs)
    BY <2>2, <2>3 DEF Front
  <2>5. /\ SubSeq(bs, 1, n) \in Seq(Block) /\ Len(SubSeq(bs, 1, n)) = n
        /\ \A k \in 1..n : SubSeq(bs, 1, n)[k] = bs[k]
    BY <2>2, <2>3
  <2>6. QED  BY <2>2, <2>3, <2>4, <2>5
<1>3. ASSUME NEW s \in Seq(Block), NEW b \in Block
      PROVE  /\ Append(s, b) \in Seq(Block) /\ Len(Append(s, b)) = Len(s) + 1 /\ Len(s) \in Nat
             /\ Append(s, b)[Len(s) + 1] = b
             /\ \A k \in 1..Len(s) : Append(s, b)[k] = s[k]
             /\ \A k \in 1..Len(Append(s, b)) : k \in 1..Len(s) \/ k = Len(s) + 1
  OBVIOUS
<1>4. ASSUME NEW s \in Seq(Block), NEW b \in Block, \A k \in 1..Len(s) : s[k] # "running"
      PROVE  /\ Append(s, b) \in Seq(Block)
             /\ \A k \in 1..Len(Append(s, b)) : Append(s, b)[k] = "running" => k = Len(Append(s, b)) /\ b = "running"
  BY <1>3, <1>4
<1>5. CASE kind = "text"
  <2>1. \A k \in 1..Len(bs) : bs[k] # "running"
    BY <1>5
  <2>2. Drawn(kind, bs) = bs \/ Drawn(kind, bs) = Append(bs, "answer")
    BY <1>5 DEF Drawn, AppendText
  <2>3. QED  BY <1>4, <1>5, <2>1, <2>2 DEF Block
<1>6. CASE kind = "think"
  <2>1. \A k \in 1..Len(bs) : bs[k] # "running"
    BY <1>6
  <2>2. Drawn(kind, bs) = bs \/ Drawn(kind, bs) = Append(bs, "thinking")
    BY <1>6 DEF Drawn, AppendThinking
  <2>3. QED  BY <1>4, <1>6, <2>1, <2>2 DEF Block
<1>7. CASE kind = "tool"
  <2>1. \A k \in 1..Len(bs) : bs[k] # "running"
    BY <1>7
  <2> DEFINE s == IF IsTrailing(bs, "answer") THEN Append(Front(bs), "thinking") ELSE bs
  <2>2. s \in Seq(Block) /\ \A k \in 1..Len(s) : s[k] # "running"
    <3>1. CASE ~IsTrailing(bs, "answer")
      BY <2>1, <3>1
    <3>2. CASE IsTrailing(bs, "answer")
      <4>1. Front(bs) \in Seq(Block) /\ \A k \in 1..Len(Front(bs)) : Front(bs)[k] # "running"
        BY <1>2, <2>1, <3>2 DEF IsTrailing
      <4>2. /\ Append(Front(bs), "thinking") \in Seq(Block)
            /\ \A k \in 1..Len(Append(Front(bs), "thinking")) : Append(Front(bs), "thinking")[k] # "running"
        BY <1>4, <4>1 DEF Block
      <4>3. QED  BY <3>2, <4>2
    <3>3. QED  BY <3>1, <3>2
  <2>3. Drawn(kind, bs) = Append(s, "running")
    BY <1>7 DEF Drawn, StartTool
  <2> HIDE DEF s
  <2>4. QED  BY <1>4, <1>7, <2>2, <2>3 DEF Block
<1>8. CASE kind = "result"
  <2> DEFINE s == IF IsTrailing(bs, "running") THEN Front(bs) ELSE bs
  <2>1. s \in Seq(Block) /\ \A k \in 1..Len(s) : s[k] # "running"
    <3>1. CASE IsTrailing(bs, "running")
      BY <1>2, <3>1 DEF IsTrailing
    <3>2. CASE ~IsTrailing(bs, "running")
      <4>1. \A k \in 1..Len(bs) : bs[k] # "running"
        <5>1. SUFFICES ASSUME NEW k \in 1..Len(bs), bs[k] = "running" PROVE FALSE
          OBVIOUS
        <5>2. bs # <<>> /\ k = Len(bs)
          BY <5>1
        <5>3. QED  BY <3>2, <5>1, <5>2 DEF IsTrailing, Last
      <4>2. QED  BY <3>2, <4>1
    <3>3. QED  BY <3>1, <3>2
  <2>2. Drawn(kind, bs) = Append(s, "done")
    BY <1>8 DEF Drawn, FinishTool
  <2> HIDE DEF s
  <2>3. QED  BY <1>4, <1>8, <2>1, <2>2 DEF Block
<1>9. CASE kind \in Ends
  <2>1. Drawn(kind, bs) = bs
    BY <1>9 DEF Drawn, Ends
  <2>2. QED  BY <1>9, <2>1 DEF Ends
<1>10. QED
  BY <1>5, <1>6, <1>7, <1>8, <1>9 DEF EventKinds, Ends

\* A log that is empty, or that an action leaves as it is.
LEMMA LogEmptied ==
  ASSUME log' = <<>>, at' = 0 PROVE Log'
<1>1. <<>> \in Seq(Turn) /\ Len(<<>>) = 0
  OBVIOUS
<1>2. log' \in Seq(Turn) /\ Len(log') = 0 /\ at' \in 0..Len(log')
  BY <1>1
<1>3. QED  BY <1>2 DEF Log

\* A step that leaves the log alone keeps it, if the awaited result stays next.
LEMMA LogLeft ==
  ASSUME Log, UNCHANGED <<mode, log, at>>, at # 0 => shown' = shown, ResultNext => ResultNext' PROVE Log'
BY DEF Log

\* The log of the linear front end stays empty.
LEMMA LinearLog ==
  ASSUME Log, mode = "linear" PROVE log = <<>> /\ at = 0
<1>1. log = <<>> /\ at \in 0..Len(log)
  BY DEF Log
<1>2. QED  BY <1>1

\* The result of a tool is not overtaken.
LEMMA EmittedResult ==
  ASSUME Runs, InRun, ResultNext, NEW kind, Emit(kind), phase = "tool" => kind = "result" PROVE ResultNext'
<1> DEFINE e == [kind |-> kind, run |-> running]
<1>1. events \in Seq(Event) /\ running # 0 /\ events' = Append(events, e) /\ e.kind = kind /\ e.run = running
  BY DEF Runs, EventsOf, Emit
<1> HIDE DEF e
<1>2. CASE events = <<>> /\ phase = "tool"
  <2>1. events' = <<e>>
    BY <1>1, <1>2
  <2>2. QED  BY <1>1, <1>2, <2>1 DEF ResultNext
<1>3. CASE events # <<>> /\ Head(events).kind = "result" /\ Head(events).run # 0
  <2>1. events' # <<>> /\ Head(events') = Head(events)
    BY <1>1, <1>3
  <2>2. QED  BY <1>3, <2>1 DEF ResultNext
<1>4. QED  BY <1>2, <1>3 DEF ResultNext

\* The task never puts an event before the result the open tool block waits for.
LEMMA TaskResult ==
  ASSUME Runs, Task, ResultNext PROVE ResultNext'
<1>1. events' = events /\ (phase = "tool" => phase' = "tool") => ResultNext'
  BY DEF ResultNext
<1>2. ASSUME TakeRun \/ TakeSteer \/ TakeFollowUp \/ TakeReset \/ TakeRole \/ Save PROVE ResultNext'
  <2>1. phase # "tool" /\ events' = events
    BY <1>2 DEF TakeRun, TakeSteer, TakeFollowUp, TakeReset, TakeRole, Take, Save
  <2>2. QED  BY <1>1, <2>1
<1>3. ASSUME BeginTurn \/ StreamText \/ CallTool \/ Answer \/ RequestFails PROVE ResultNext'
  <2>1. phase \in {"turn", "request"} /\ (events' = events \/ \E kind \in EventKinds : Emit(kind))
    BY <1>3 DEF BeginTurn, StreamText, CallTool, Answer, RequestFails, Cancelled, EventKinds
  <2>2. QED  BY <1>1, <2>1, EmittedResult DEF InRun
<1>4. ASSUME ToolReturns PROVE ResultNext'
  BY <1>4, EmittedResult DEF ToolReturns, InRun
<1>5. QED  BY <1>2, <1>3, <1>4 DEF Task

\* The fullscreen front end draws an event.
LEMMA DrawLog ==
  ASSUME Runs, Log, DrawEvent, UNCHANGED mode, mode = "fullscreen" PROVE Log'
<1> DEFINE kind == Head(events).kind
           turn0 == log[at]
           drawn == [turn0 EXCEPT !.blocks = Drawn(kind, @)]
<1>1. /\ events # <<>> /\ events' = Tail(events) /\ shown' = shown /\ phase' = phase
      /\ log' = IF at = 0 THEN log ELSE [log EXCEPT ![at] = drawn]
      /\ at' = IF kind \in {"done", "cancelled"} THEN 0 ELSE at
  BY DEF DrawEvent, runVars
<1>2. /\ Head(events) \in Event
      /\ kind \in Ends => ~ResultNext
      /\ kind = "tool" => ResultNext'
  <2>1. EventsOf(events, phase, shown)
    BY DEF Runs
  <2>2. /\ Head(events) \in Event
        /\ kind = "tool" =>
              \/ Tail(events) = <<>> /\ phase = "tool"
              \/ Tail(events) # <<>> /\ Head(Tail(events)).kind = "result" /\ Head(Tail(events)).run # 0
    BY <1>1, <2>1, EventTaken
  <2>3. kind = "tool" => ResultNext'
    BY <1>1, <2>2 DEF ResultNext
  <2>4. kind \in Ends => ~ResultNext
    BY <1>1 DEF ResultNext, Ends
  <2>5. QED  BY <2>2, <2>3, <2>4
<1>3. kind \in EventKinds
  BY <1>2 DEF Event
<1>4. ResultNext => kind = "result"
  BY <1>1 DEF ResultNext
<1>5. log \in Seq(Turn) /\ at \in 0..Len(log) /\ Len(log) \in Nat /\ \A i \in 1..Len(log) : log[i] \in Turn
  BY DEF Log
<1> HIDE DEF kind
<1>6. CASE at = 0
  <2>1. log' = log /\ at' = 0
    BY <1>1, <1>6
  <2>2. \A i \in 1..Len(log) : \A k \in 1..Len(log[i].blocks) : log[i].blocks[k] # "running"
    BY <1>6 DEF Log
  <2>3. QED  BY <1>5, <2>1, <2>2 DEF Log
<1>7. CASE at # 0
  <2>1. at \in 1..Len(log) /\ turn0 \in Turn /\ turn0.run = shown
    BY <1>5, <1>7 DEF Log
  <2>2. turn0.blocks \in Seq(Block) /\ \A k \in 1..Len(turn0.blocks) : turn0.blocks[k] = "running" => k = Len(turn0.blocks) /\ kind = "result"
    BY <1>4, <2>1 DEF Log, Turn
  <2>3. /\ Drawn(kind, turn0.blocks) \in Seq(Block)
        /\ \A k \in 1..Len(Drawn(kind, turn0.blocks)) :
              Drawn(kind, turn0.blocks)[k] = "running" => k = Len(Drawn(kind, turn0.blocks)) /\ kind = "tool"
    BY <1>3, <2>2, DrawnFacts
  <2>4. drawn \in Turn /\ drawn.run = shown /\ drawn.blocks = Drawn(kind, turn0.blocks)
    BY <2>1, <2>3 DEF Turn
  <2> HIDE DEF turn0, drawn
  <2>5. /\ log' = [log EXCEPT ![at] = drawn] /\ log' \in Seq(Turn) /\ Len(log') = Len(log)
        /\ log'[at] = drawn /\ \A i \in 1..Len(log) : i # at => log'[i] = log[i]
    BY <1>1, <1>5, <1>7, <2>1, <2>4
  <2>6. \A i \in 1..Len(log') : \A k \in 1..Len(log'[i].blocks) :
           log'[i].blocks[k] = "running" => i = at /\ k = Len(log'[i].blocks) /\ kind = "tool"
    <3>1. SUFFICES ASSUME NEW i \in 1..Len(log'), NEW k \in 1..Len(log'[i].blocks), log'[i].blocks[k] = "running"
                   PROVE  i = at /\ k = Len(log'[i].blocks) /\ kind = "tool"
      OBVIOUS
    <3>2. CASE i = at
      BY <2>3, <2>4, <2>5, <3>1, <3>2
    <3>3. CASE i # at
      BY <2>5, <3>1, <3>3 DEF Log
    <3>4. QED  BY <3>2, <3>3
  <2>7. kind = "tool" => at' = at
    BY <1>1
  <2>8. at' \in 0..Len(log') /\ (at' # 0 => log'[at'].run = shown')
    BY <1>1, <1>5, <2>4, <2>5
  <2>9. mode' = "fullscreen"
    OBVIOUS
  <2>10. QED  BY <1>2, <2>5, <2>6, <2>7, <2>8, <2>9 DEF Log
<1>8. QED  BY <1>6, <1>7

\* A turn more, of the run that is sent.
LEMMA TypedLog ==
  ASSUME Mail, Runs, Log, TypeMessage, UNCHANGED mode, mode = "fullscreen" PROVE Log'
<1> DEFINE t == [run |-> inputs + 1, blocks |-> <<>>]
<1>1. log' = Append(log, t) /\ at' = Len(log) + 1 /\ shown' = inputs + 1 /\ ~streaming
  BY DEF TypeMessage
<1>2. t \in Turn /\ t.run = inputs + 1 /\ t.blocks = <<>> /\ Len(t.blocks) = 0
  <2>1. inputs \in Nat
    BY DEF Mail, MailTypes
  <2>2. <<>> \in Seq(Block)
    OBVIOUS
  <2>3. QED  BY <2>1, <2>2 DEF Turn
<1> HIDE DEF t
<1>3. ~ResultNext
  <2>1. ~InRun /\ Silent(events)
    BY <1>1 DEF Runs
  <2>2. events \in Seq(Event)
    BY DEF Runs, EventsOf
  <2>3. events # <<>> => Head(events) = events[1] /\ 1 \in 1..Len(events)
    BY <2>2
  <2>4. QED  BY <2>1, <2>3 DEF ResultNext, InRun, Silent
<1>4. log \in Seq(Turn) /\ Len(log) \in Nat /\ \A i \in 1..Len(log) : \A k \in 1..Len(log[i].blocks) : log[i].blocks[k] # "running"
  BY <1>3 DEF Log
<1>5. /\ log' \in Seq(Turn) /\ Len(log') = Len(log) + 1 /\ log'[Len(log) + 1] = t
      /\ \A i \in 1..Len(log) : log'[i] = log[i]
      /\ \A i \in 1..Len(log') : i \in 1..Len(log) \/ i = Len(log) + 1
  BY <1>1, <1>2, <1>4
<1>6. \A i \in 1..Len(log') : \A k \in 1..Len(log'[i].blocks) : log'[i].blocks[k] # "running"
  BY <1>2, <1>4, <1>5
<1>7. at' \in 0..Len(log') /\ log'[at'].run = shown'
  BY <1>1, <1>2, <1>4, <1>5
<1>8. mode' = "fullscreen"
  OBVIOUS
<1>9. QED  BY <1>5, <1>6, <1>7, <1>8 DEF Log

\* Every step keeps the log.
LEMMA LogStep ==
  ASSUME Mail, Runs, Log, FNext PROVE Log'
<1>1. CASE InMode("linear", FrontEnd) /\ UNCHANGED logVars
  <2>1. log' = <<>> /\ at' = 0
    BY <1>1, LinearLog DEF InMode, logVars
  <2>2. QED  BY <2>1, LogEmptied
<1>2. CASE InMode("fullscreen", Esc) /\ UNCHANGED logVars
  <2>1. UNCHANGED <<mode, log, at, shown, events, phase>>
    BY <1>2 DEF InMode, Esc, logVars, uiVars, runVars
  <2>2. ResultNext => ResultNext'
    BY <2>1 DEF ResultNext
  <2>3. QED  BY <2>1, <2>2, LogLeft
<1>3. CASE InMode("fullscreen", TypeMessage)
  BY <1>3, TypedLog DEF InMode
<1>4. CASE InMode("fullscreen", DrawEvent)
  BY <1>4, DrawLog DEF InMode
<1>5. CASE InMode("fullscreen", StreamReasoning) /\ UNCHANGED logVars
  <2>1. UNCHANGED <<mode, log, at, shown>> /\ phase = "request" /\ Emit("think")
    BY <1>5 DEF InMode, StreamReasoning, logVars, uiVars
  <2>2. ResultNext => ResultNext'
    BY <2>1, EmittedResult DEF InRun
  <2>3. QED  BY <2>1, <2>2, LogLeft
<1>6. CASE Task /\ UNCHANGED <<mode, logVars>>
  <2>1. UNCHANGED <<mode, log, at, shown>>
    BY <1>6 DEF Task, TakeRun, TakeSteer, TakeFollowUp, TakeReset, TakeRole, BeginTurn, StreamText, CallTool,
                ToolReturns, Answer, RequestFails, Save, logVars, uiVars
  <2>2. ResultNext => ResultNext'
    BY <1>6, TaskResult
  <2>3. QED  BY <2>1, <2>2, LogLeft
<1>7. CASE InMode("fullscreen", ClearLog) \/ Leave \/ \E continue \in BOOLEAN : Again(continue)
  <2>1. log' = <<>> /\ at' = 0
    BY <1>7 DEF InMode, ClearLog, Leave, Again
  <2>2. QED  BY <2>1, LogEmptied
<1>8. QED  BY <1>1, <1>2, <1>3, <1>4, <1>5, <1>6, <1>7 DEF FNext

-----------------------------------------------------------------------------
ChatInv == Mail /\ Runs /\ Log

\* A stutter leaves the chat as it is.
LEMMA ChatStep ==
  ASSUME ChatInv, [FNext]_fvars PROVE ChatInv'
<1>1. CASE FNext
  BY <1>1, MailStep, RunsStep, LogStep DEF ChatInv
<1>2. CASE UNCHANGED fvars
  <2>1. UNCHANGED StillVars /\ turn' = turn
    BY <1>2 DEF fvars, vars, StillVars, runVars
  <2>2. UNCHANGED <<streaming, shown, running, phase, events, cmds, mode, log, at>>
    BY <1>2 DEF fvars, vars, uiVars, runVars
  <2>3. Mail'
    BY <2>1, StillMail DEF ChatInv, Mail, MailTypes
  <2>4. Runs'
    BY <2>2, OtherCommands DEF ChatInv
  <2>5. Log'
    BY <2>2, LogLeft DEF ChatInv, ResultNext
  <2>6. QED  BY <2>3, <2>4, <2>5 DEF ChatInv
<1>3. QED  BY <1>1, <1>2

\* Messages, runs and the log are in order in every reachable state, whichever
\* front end is used and however often the program is left and started.
THEOREM ChatInvariant == FSpec => []ChatInv
<1>1. FInit => ChatInv
  <2>1. FInit => Log
    <3>1. SUFFICES ASSUME FInit PROVE Log
      OBVIOUS
    <3>2. log = <<>> /\ at = 0
      BY <3>1 DEF FInit
    <3>3. log \in Seq(Turn) /\ Len(log) = 0
      BY <3>2
    <3>4. QED  BY <3>2, <3>3 DEF Log
  <2>2. QED  BY <2>1, MailInit, RunsInit DEF ChatInv
<1>2. ChatInv /\ [FNext]_fvars => ChatInv'
  BY ChatStep
<1>3. QED  BY <1>1, <1>2, PTL DEF FSpec

\* No message typed is lost or doubled: it is under way, in a queue, in the
\* memory, or was dropped by a cancel or a rebuild.
THEOREM MessagesKept == FSpec => []MessagesConserved
<1>1. ChatInv => MessagesConserved
  <2>1. SUFFICES ASSUME Mail PROVE MessagesConserved
    BY DEF ChatInv
  <2>2. memory \in Seq(Nat) /\ steering \in Seq(Nat) /\ followUps \in Seq(Nat)
    BY <2>1 DEF Mail, MailTypes
  <2>3. /\ ToSet(memory \o steering \o followUps) = Kept
        /\ IsInjective(memory \o steering \o followUps)
    BY <2>1, <2>2, JoinedThree DEF Mail, Kept, Queued
  <2>4. ToSet(steering \o followUps) = Queued
    BY <2>2, Joined DEF Queued
  <2>5. said = Commanded \cup ((Queued \cup ToSet(memory)) \cap said) \cup dropped
    BY <2>1 DEF Mail, Kept
  <2>6. QED  BY <2>1, <2>3, <2>4, <2>5 DEF MessagesConserved, Ids, Mail
<1>2. QED  BY <1>1, ChatInvariant, PTL

\* What /clear wiped comes back neither into the memory nor into the file.
THEOREM ClearedForGood == FSpec => []ClearedStaysCleared
<1>1. ChatInv => ClearedStaysCleared
  <2>1. SUFFICES ASSUME Mail PROVE ClearedStaysCleared
    BY DEF ChatInv
  <2>2. memory \in Seq(Nat) /\ steering \in Seq(Nat) /\ followUps \in Seq(Nat) /\ file \in Seq(Nat)
    BY <2>1 DEF Mail, MailTypes
  <2> DEFINE kept == memory \o steering \o followUps
  <2>3. kept \in Seq(Nat) /\ ToSet(kept) = Kept
    BY <2>2, JoinedThree DEF Kept, Queued
  <2> HIDE DEF kept
  <2>4. ToSet(kept \o file) = Kept \cup ToSet(file)
    BY <2>2, <2>3, Joined
  <2>5. cleared \cap ToSet(kept \o file) = {}
    BY <2>1, <2>4 DEF Mail
  <2>6. QED  BY <2>5 DEF ClearedStaysCleared, Ids, kept
<1>2. QED  BY <1>1, ChatInvariant, PTL

\* The screen shows the run that is under way, one at a time, and a tool drawn
\* as running still owes its result.
THEOREM RunShown == FSpec => []OneRunShown
<1>1. ChatInv => OneRunShown
  <2>1. SUFFICES ASSUME Mail, Runs, Log PROVE OneRunShown
    BY DEF ChatInv
  <2>2. events \in Seq(Event) /\ cmds \in Seq(Command) /\ Numbered(cmds, inputs)
    BY <2>1 DEF Runs, EventsOf, Mail, MailTypes, Numbered
  <2>3. \A i \in DOMAIN events : events[i].run # 0 => streaming /\ events[i].run = shown
    <3>1. \A i \in 1..Len(events) : events[i].run # 0 => streaming /\ events[i].run = shown
      BY <2>1 DEF Runs, EventsOf, Silent
    <3>2. QED  BY <2>2, <3>1
  <2>4. phase \in {"turn", "request", "tool"} => shown = running
    BY <2>1 DEF Runs, InRun
  <2>5. Cardinality({i \in DOMAIN cmds : cmds[i].kind = "run"}) <= 1
    <3> DEFINE some == {i \in DOMAIN cmds : cmds[i].kind = "run"}
    <3>1. \A i, j \in some : i = j
      <4>1. SUFFICES ASSUME NEW i \in 1..Len(cmds), NEW j \in 1..Len(cmds), cmds[i].kind = "run", cmds[j].kind = "run", i < j
                     PROVE  FALSE
        BY <2>2
      <4>2. cmds[i].msg < cmds[j].msg
        BY <2>2, <4>1 DEF Numbered
      <4>3. cmds[i].msg = shown /\ cmds[j].msg = shown /\ shown \in Nat
        BY <2>1, <4>1 DEF Runs
      <4>4. QED  BY <4>2, <4>3
    <3> HIDE DEF some
    <3>2. some = {} \/ \E x : some = {x}
      BY <3>1
    <3>3. Cardinality(some) = 0 \/ Cardinality(some) = 1
      <4>1. CASE some = {}
        BY <4>1, FS_EmptySet
      <4>2. ASSUME NEW x, some = {x} PROVE Cardinality(some) = 1
        <5>1. Cardinality({x}) = 1
          BY FS_Singleton
        <5>2. QED  BY <4>2, <5>1
      <4>3. QED  BY <3>2, <4>1, <4>2
    <3>4. QED  BY <3>3 DEF some
  <2>6. \A i \in DOMAIN log : "running" \in ToSet(log[i].blocks) => Owed(log[i].run)
    <3>1. SUFFICES ASSUME NEW i \in 1..Len(log), "running" \in ToSet(log[i].blocks) PROVE Owed(log[i].run)
      BY <2>1 DEF Log
    <3>2. log[i] \in Turn
      BY <2>1 DEF Log
    <3>3. PICK k \in 1..Len(log[i].blocks) : log[i].blocks[k] = "running"
      BY <3>1, <3>2 DEF Turn, ToSet
    <3>4. i = at /\ ResultNext /\ log[i].run = shown
      BY <2>1, <3>1, <3>3 DEF Log
    <3>5. CASE events = <<>> /\ phase = "tool"
      BY <2>4, <3>4, <3>5 DEF Owed
    <3>6. CASE events # <<>> /\ Head(events).kind = "result" /\ Head(events).run # 0
      <4>1. 1 \in DOMAIN events /\ events[1] = Head(events) /\ events[1] \in Event
        BY <2>2, <3>6
      <4>2. events[1].run = shown /\ events[1].kind = "result"
        BY <2>3, <3>6, <4>1
      <4>3. events[1] = [kind |-> "result", run |-> shown]
        BY <4>1, <4>2 DEF Event
      <4>4. QED  BY <3>4, <4>1, <4>3 DEF Owed
    <3>7. QED  BY <3>4, <3>5, <3>6 DEF ResultNext
  <2>7. QED  BY <2>3, <2>4, <2>5, <2>6 DEF OneRunShown
<1>2. QED  BY <1>1, ChatInvariant, PTL

=============================================================================
