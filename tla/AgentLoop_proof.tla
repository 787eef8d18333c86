---------------------------- MODULE AgentLoop_proof ----------------------------
(***************************************************************************)
(* Proofs about the agent, in both editions, for every set of tools,       *)
(* batches and memory limits.  First the conversation as a value: which    *)
(* calls of it are open, that trimming, adding and compacting open none,   *)
(* and that both editions trim and compact every conversation to the same. *)
(* Then the loop: the cycle guard, cancellation, and that a run which ends *)
(* by itself leaves no call of its own without a result.  Last the memory  *)
(* that has room for its last turn: what the user said is at its end when  *)
(* the model is asked, it is a sound conversation in every state, and both *)
(* kinds of provider accept the request bodies made of it.                 *)
(***************************************************************************)
EXTENDS TranspiledAgent, WellFoundedInduction, TLAPS

-----------------------------------------------------------------------------
(* Induction and recursion *)

\* A set of numbers that has 0 and with every number the next has them all.
LEMMA SetInduction ==
  ASSUME NEW S \in SUBSET Nat, 0 \in S, \A n \in S : n + 1 \in S
  PROVE  S = Nat
<1> DEFINE R == OpToRel(<, Nat)
<1>1. SUFFICES ASSUME Nat \ S # {} PROVE FALSE
  OBVIOUS
<1>2. IsWellFoundedOn(R, Nat)
  BY NatLessThanWellFounded
<1>3. \A a, b \in Nat : a < b => <<a, b>> \in R
  BY DEF OpToRel
<1> HIDE DEF R
<1>4. PICK x \in Nat \ S : \A y \in Nat \ S : ~(<<y, x>> \in R)
  <2>1. Nat \ S \subseteq Nat
    OBVIOUS
  <2>2. QED  BY <1>1, <1>2, <2>1, WFMin
<1>5. x # 0 /\ x - 1 \in Nat /\ x - 1 < x
  BY <1>4
<1>6. x - 1 \in S
  BY <1>3, <1>4, <1>5
<1>7. x - 1 + 1 \in S
  BY <1>6
<1>8. QED
  BY <1>4, <1>5, <1>7

\* The largest of a bounded set of numbers.
LEMMA LargestExists ==
  ASSUME NEW n \in Nat, NEW T \in SUBSET (1..n), T # {}
  PROVE  \E i \in T : \A j \in T : j <= i
<1> DEFINE S == {k \in Nat : \A U \in SUBSET (1..k) : U # {} => \E i \in U : \A j \in U : j <= i}
<1>1. 0 \in S
  <2>1. 1..0 = {}
    OBVIOUS
  <2>2. QED  BY <2>1
<1>2. ASSUME NEW k \in S PROVE k + 1 \in S
  <2>1. SUFFICES ASSUME NEW U \in SUBSET (1..(k + 1)), U # {} PROVE \E i \in U : \A j \in U : j <= i
    OBVIOUS
  <2>2. CASE k + 1 \in U
    BY <2>2
  <2>3. CASE k + 1 \notin U
    <3>1. U \in SUBSET (1..k)
      BY <2>3
    <3>2. QED  BY <2>1, <3>1
  <2>4. QED  BY <2>2, <2>3
<1>3. S = Nat
  <2>1. S \in SUBSET Nat
    OBVIOUS
  <2> HIDE DEF S
  <2>2. QED  BY <1>1, <1>2, <2>1, SetInduction
<1>4. QED  BY <1>3

\* The smallest number of a set.
LEMMA SmallestExists ==
  ASSUME NEW T \in SUBSET Nat, T # {}
  PROVE  \E i \in T : \A j \in T : i <= j
<1> DEFINE R == OpToRel(<, Nat)
<1>1. IsWellFoundedOn(R, Nat)
  BY NatLessThanWellFounded
<1>2. \A a, b \in Nat : a < b => <<a, b>> \in R
  BY DEF OpToRel
<1> HIDE DEF R
<1>3. PICK i \in T : \A j \in T : ~(<<j, i>> \in R)
  BY <1>1, WFMin
<1>4. \A j \in T : i <= j
  <2> TAKE j \in T
  <2>1. j \in Nat /\ i \in Nat
    OBVIOUS
  <2>2. ~(j < i)
    BY <1>2, <1>3, <2>1
  <2>3. QED  BY <2>1, <2>2
<1>5. QED  BY <1>4

\* g starts with b and goes on by F, n times.
Iterates(g, n, b, F) == g[0] = b /\ \A i \in 1..n : g[i] = F[i][g[i - 1]]
HasIteration(S, n, b, F) == \E g \in [0..n -> S] : Iterates(g, n, b, F)

\* There is such a function.
LEMMA IterationExists ==
  \A S : \A n \in Nat : \A b \in S : \A F \in [1..n -> [S -> S]] : HasIteration(S, n, b, F)
<1> SUFFICES ASSUME NEW S, NEW n \in Nat, NEW b \in S, NEW F \in [1..n -> [S -> S]]
             PROVE  \E g \in [0..n -> S] : g[0] = b /\ \A i \in 1..n : g[i] = F[i][g[i - 1]]
  BY DEF HasIteration, Iterates
<1> DEFINE N == {k \in Nat : k <= n =>
                   \E g \in [0..k -> S] : g[0] = b /\ \A i \in 1..k : g[i] = F[i][g[i - 1]]}
<1>1. 0 \in N
  <2> DEFINE g == [i \in 0..0 |-> b]
  <2>1. g \in [0..0 -> S] /\ g[0] = b /\ \A i \in 1..0 : g[i] = F[i][g[i - 1]]
    OBVIOUS
  <2> HIDE DEF g
  <2>2. QED  BY <2>1
<1>2. ASSUME NEW k \in N PROVE k + 1 \in N
  <2>1. SUFFICES ASSUME k + 1 <= n
                 PROVE  \E g \in [0..(k + 1) -> S] : g[0] = b /\ \A i \in 1..(k + 1) : g[i] = F[i][g[i - 1]]
    OBVIOUS
  <2>2. PICK g \in [0..k -> S] : g[0] = b /\ \A i \in 1..k : g[i] = F[i][g[i - 1]]
    BY <2>1
  <2>3. g[k] \in S /\ k + 1 \in 1..n
    BY <2>1, <2>2
  <2>4. F[k + 1][g[k]] \in S
    BY <2>3
  <2> DEFINE h == [i \in 0..(k + 1) |-> IF i = k + 1 THEN F[k + 1][g[k]] ELSE g[i]]
  <2>5. h \in [0..(k + 1) -> S]
    BY <2>2, <2>4
  <2>6. h[0] = b /\ h[k + 1] = F[k + 1][g[k]] /\ \A i \in 0..k : h[i] = g[i]
    BY <2>2
  <2> HIDE DEF h
  <2>7. ASSUME NEW i \in 1..(k + 1) PROVE h[i] = F[i][h[i - 1]]
    <3>1. CASE i = k + 1
      <4>1. i - 1 = k /\ k \in 0..k
        BY <3>1
      <4>2. QED  BY <2>6, <3>1, <4>1
    <3>2. CASE i \in 1..k
      <4>1. i \in 0..k /\ i - 1 \in 0..k
        BY <3>2
      <4>2. QED  BY <2>2, <2>6, <3>2, <4>1
    <3>3. QED  BY <3>1, <3>2
  <2>8. QED  BY <2>5, <2>6, <2>7
<1>3. N = Nat
  <2>1. N \in SUBSET Nat
    OBVIOUS
  <2> HIDE DEF N
  <2>2. QED  BY <1>1, <1>2, <2>1, SetInduction
<1>4. QED  BY <1>3

-----------------------------------------------------------------------------
(* The conversation *)

\* The calls that have not been answered, in their order.
LEMMA WithoutFacts ==
  ASSUME NEW calls \in Seq(CallIds), NEW answered
  PROVE  /\ Without(calls, answered) \in Seq(CallIds)
         /\ ToSet(Without(calls, answered)) = ToSet(calls) \ answered
<1> DEFINE n == Len(calls)
           F == [i \in 1..n |-> [r \in Seq(CallIds) |->
                   IF calls[i] \in answered THEN r ELSE Append(r, calls[i])]]
           rest == CHOOSE g : g = [i \in 0..n |->
                     IF i = 0 THEN <<>>
                     ELSE IF calls[i] \in answered THEN g[i - 1] ELSE Append(g[i - 1], calls[i])]
<1>1. n \in Nat /\ \A i \in 1..n : calls[i] \in CallIds
  OBVIOUS
<1>2. F \in [1..n -> [Seq(CallIds) -> Seq(CallIds)]]
  BY <1>1
<1>3. PICK g \in [0..n -> Seq(CallIds)] : g[0] = <<>> /\ \A i \in 1..n : g[i] = F[i][g[i - 1]]
  <2> DEFINE T == Seq(CallIds)
             b == <<>>
  <2>1. b \in T /\ F \in [1..n -> [T -> T]] /\ n \in Nat
    BY <1>1, <1>2
  <2> HIDE DEF F, n, T, rest, b
  <2>2. \E g \in [0..n -> T] : g[0] = b /\ \A i \in 1..n : g[i] = F[i][g[i - 1]]
    <3>1. HasIteration(T, n, b, F)
      BY <2>1, IterationExists
    <3>2. QED  BY <3>1 DEF HasIteration, Iterates
  <2>3. QED  BY <2>2 DEF T, b
<1>4. \A i \in 1..n : g[i] = IF calls[i] \in answered THEN g[i - 1] ELSE Append(g[i - 1], calls[i])
  <2> TAKE i \in 1..n
  <2>1. i - 1 \in 0..n
    BY <1>1
  <2>2. g[i - 1] \in Seq(CallIds)
    BY <2>1
  <2>3. QED  BY <1>3, <2>2
<1>5. g = [i \in 0..n |-> IF i = 0 THEN <<>>
                          ELSE IF calls[i] \in answered THEN g[i - 1] ELSE Append(g[i - 1], calls[i])]
  <2> DEFINE h == [i \in 0..n |-> IF i = 0 THEN <<>>
                          ELSE IF calls[i] \in answered THEN g[i - 1] ELSE Append(g[i - 1], calls[i])]
  <2>1. \A i \in 0..n : g[i] = h[i]
    <3> TAKE i \in 0..n
    <3> HIDE DEF n, rest
    <3>1. CASE i = 0
      <4>1. h[i] = <<>>
        BY <3>1
      <4>2. g[i] = <<>>
        BY <1>3, <3>1
      <4>3. QED  BY <4>1, <4>2
    <3>2. CASE i \in 1..n
      <4>1. i # 0
        BY <1>1, <3>2
      <4>2. h[i] = IF calls[i] \in answered THEN g[i - 1] ELSE Append(g[i - 1], calls[i])
        BY <4>1
      <4>3. g[i] = IF calls[i] \in answered THEN g[i - 1] ELSE Append(g[i - 1], calls[i])
        BY <1>4, <3>2
      <4>4. QED  BY <4>2, <4>3
    <3>3. QED  BY <1>1, <3>1, <3>2
  <2>2. g = h
    BY <2>1
  <2>3. QED  BY <2>2
<1>6. rest = [i \in 0..n |-> IF i = 0 THEN <<>>
                             ELSE IF calls[i] \in answered THEN rest[i - 1]
                             ELSE Append(rest[i - 1], calls[i])]
  BY <1>5
<1>7. Without(calls, answered) = rest[n]
  BY DEF Without
<1> HIDE DEF rest, F
<1>8. /\ rest[0] = <<>>
      /\ \A i \in 1..n : rest[i] = IF calls[i] \in answered THEN rest[i - 1] ELSE Append(rest[i - 1], calls[i])
  <2>1. rest[0] = <<>>
    BY <1>1, <1>6
  <2>2. ASSUME NEW i \in 1..n
        PROVE  rest[i] = IF calls[i] \in answered THEN rest[i - 1] ELSE Append(rest[i - 1], calls[i])
    <3>1. i \in 0..n /\ i # 0
      OBVIOUS
    <3>2. QED  BY <1>6, <3>1
  <2>3. QED  BY <2>1, <2>2
<1> DEFINE S == {i \in Nat : i <= n =>
                   /\ rest[i] \in Seq(CallIds)
                   /\ ToSet(rest[i]) = {calls[j] : j \in 1..i} \ answered}
<1>9. 0 \in S
  <2>1. rest[0] \in Seq(CallIds) /\ ToSet(rest[0]) = {}
    BY <1>8 DEF ToSet
  <2>2. {calls[j] : j \in 1..0} = {}
    OBVIOUS
  <2>3. QED  BY <2>1, <2>2
<1>10. ASSUME NEW i \in S PROVE i + 1 \in S
  <2>1. SUFFICES ASSUME i + 1 <= n
                 PROVE  /\ rest[i + 1] \in Seq(CallIds)
                        /\ ToSet(rest[i + 1]) = {calls[j] : j \in 1..(i + 1)} \ answered
    OBVIOUS
  <2>2. /\ rest[i] \in Seq(CallIds) /\ ToSet(rest[i]) = {calls[j] : j \in 1..i} \ answered
        /\ i + 1 \in 1..n /\ i + 1 - 1 = i
    BY <1>1, <2>1
  <2>3. rest[i + 1] = IF calls[i + 1] \in answered THEN rest[i] ELSE Append(rest[i], calls[i + 1])
    BY <1>8, <2>2
  <2>4. {calls[j] : j \in 1..(i + 1)} = {calls[j] : j \in 1..i} \cup {calls[i + 1]}
    <3>1. 1..(i + 1) = 1..i \cup {i + 1}
      OBVIOUS
    <3>2. QED  BY <3>1
  <2>5. CASE calls[i + 1] \in answered
    BY <2>2, <2>3, <2>4, <2>5
  <2>6. CASE calls[i + 1] \notin answered
    <3>1. rest[i + 1] = Append(rest[i], calls[i + 1]) /\ calls[i + 1] \in CallIds
      BY <1>1, <2>2, <2>3, <2>6
    <3>2. \A r \in Seq(CallIds), c \in CallIds :
            Append(r, c) \in Seq(CallIds) /\ ToSet(Append(r, c)) = ToSet(r) \cup {c}
      <4> TAKE r \in Seq(CallIds), c \in CallIds
      <4>1. /\ Append(r, c) \in Seq(CallIds) /\ DOMAIN Append(r, c) = 1..(Len(r) + 1)
            /\ Append(r, c)[Len(r) + 1] = c /\ \A j \in 1..Len(r) : Append(r, c)[j] = r[j]
            /\ DOMAIN r = 1..Len(r) /\ Len(r) \in Nat
        OBVIOUS
      <4>2. QED  BY <4>1 DEF ToSet
    <3>3. QED  BY <2>2, <2>4, <2>6, <3>1, <3>2
  <2>7. QED  BY <2>5, <2>6
<1>11. S = Nat
  <2>1. S \in SUBSET Nat
    OBVIOUS
  <2> HIDE DEF S
  <2>2. QED  BY <1>9, <1>10, <2>1, SetInduction
<1>12. rest[n] \in Seq(CallIds) /\ ToSet(rest[n]) = {calls[j] : j \in 1..n} \ answered
  <2>1. n <= n
    BY <1>1
  <2>2. n \in S
    BY <1>1, <1>11
  <2> HIDE DEF n
  <2>3. QED  BY <2>1, <2>2
<1>13. ToSet(calls) = {calls[j] : j \in 1..n}
  BY DEF ToSet
<1>14. QED  BY <1>7, <1>12, <1>13

\* c is a call of the last batch in msgs that no later message answers.
Open(msgs, c) ==
  \E b \in 1..Len(msgs) :
    /\ c \in ToSet(msgs[b].uses)
    /\ \A j \in 1..Len(msgs) : j > b => msgs[j].uses = <<>> /\ msgs[j].answers # c

\* That is what Unanswered collects.
LEMMA UnansweredIsOpen ==
  ASSUME NEW msgs \in Seq(Message)
  PROVE  /\ Unanswered(msgs) \in Seq(CallIds)
         /\ \A c : c \in ToSet(Unanswered(msgs)) <=> Open(msgs, c)
<1> DEFINE batches == {i \in DOMAIN msgs : msgs[i].uses # <<>>}
           last    == CHOOSE i \in batches : \A j \in batches : j <= i
           later   == {msgs[i].answers : i \in {j \in DOMAIN msgs : j > last}}
<1>1. DOMAIN msgs = 1..Len(msgs) /\ Len(msgs) \in Nat
  OBVIOUS
<1>2. \A i \in 1..Len(msgs) : msgs[i].uses \in Seq(CallIds)
  <2>1. \A i \in 1..Len(msgs) : msgs[i] \in Message
    OBVIOUS
  <2>2. QED  BY <2>1 DEF Message
<1>3. Unanswered(msgs) = IF batches = {} THEN <<>> ELSE Without(msgs[last].uses, later)
  BY DEF Unanswered
<1>4. \A c : ToSet(<<>>) = {}
  BY DEF ToSet
<1>5. CASE batches = {}
  <2>1. Unanswered(msgs) = <<>>
    BY <1>3, <1>5
  <2>2. \A i \in 1..Len(msgs) : ToSet(msgs[i].uses) = {}
    BY <1>1, <1>4, <1>5
  <2>3. QED  BY <1>4, <2>1, <2>2 DEF Open
<1>6. CASE batches # {}
  <2>1. batches \in SUBSET (1..Len(msgs))
    BY <1>1
  <2>2. last \in batches /\ \A j \in batches : j <= last
    <3>1. \E i \in batches : \A j \in batches : j <= i
      BY <1>1, <1>6, <2>1, LargestExists
    <3>2. QED  BY <3>1
  <2> HIDE DEF last
  <2>3. msgs[last].uses \in Seq(CallIds) /\ last \in 1..Len(msgs) /\ msgs[last].uses # <<>>
    BY <1>1, <1>2, <2>2
  <2>4. \A j \in 1..Len(msgs) : j > last => msgs[j].uses = <<>>
    <3> TAKE j \in 1..Len(msgs)
    <3>1. j \in batches => j <= last
      BY <2>2
    <3>2. QED  BY <1>1, <2>3, <3>1
  <2>5. /\ Unanswered(msgs) \in Seq(CallIds)
        /\ ToSet(Unanswered(msgs)) = ToSet(msgs[last].uses) \ later
    <3> DEFINE calls == msgs[last].uses
    <3>1. Unanswered(msgs) = Without(calls, later) /\ calls \in Seq(CallIds)
      BY <1>3, <1>6, <2>3
    <3> HIDE DEF calls, later
    <3>2. /\ Without(calls, later) \in Seq(CallIds)
          /\ ToSet(Without(calls, later)) = ToSet(calls) \ later
      BY <3>1, WithoutFacts
    <3>3. QED  BY <3>1, <3>2 DEF calls
  <2>6. ASSUME NEW c, c \in ToSet(Unanswered(msgs)) PROVE Open(msgs, c)
    <3>1. c \in ToSet(msgs[last].uses) /\ \A j \in 1..Len(msgs) : j > last => msgs[j].answers # c
      BY <1>1, <2>5, <2>6
    <3>2. QED  BY <2>3, <2>4, <3>1 DEF Open
  <2>7. ASSUME NEW c, Open(msgs, c) PROVE c \in ToSet(Unanswered(msgs))
    <3>1. PICK b \in 1..Len(msgs) :
            /\ c \in ToSet(msgs[b].uses)
            /\ \A j \in 1..Len(msgs) : j > b => msgs[j].uses = <<>> /\ msgs[j].answers # c
      BY <2>7 DEF Open
    <3>2. msgs[b].uses # <<>>
      BY <1>4, <3>1
    <3>3. b \in batches
      BY <1>1, <3>2
    <3>4. b = last
      <4>1. b <= last
        BY <2>2, <3>3
      <4>2. ~(last > b)
        BY <2>3, <3>1
      <4>3. b \in Nat /\ last \in Nat
        BY <2>3
      <4>4. QED  BY <4>1, <4>2, <4>3
    <3>5. c \notin later
      BY <1>1, <3>1, <3>4
    <3>6. QED  BY <2>5, <3>1, <3>4, <3>5
  <2>8. QED  BY <2>5, <2>6, <2>7
<1>7. QED  BY <1>5, <1>6

\* have is msgs without its first messages, perhaps with one in front that
\* makes no calls.
TailOf(have, msgs) ==
  \E a \in {0, 1}, k \in 1..Len(msgs) + 1 :
    /\ Len(have) = a + (Len(msgs) + 1 - k)
    /\ a = 1 => have[1].uses = <<>>
    /\ \A j \in 1..Len(msgs) + 1 - k : have[a + j] = msgs[k + j - 1]

\* A tail has no open call that the whole does not have.
LEMMA TailOpensNothing ==
  ASSUME NEW msgs \in Seq(Message), NEW have \in Seq(Message), TailOf(have, msgs), NEW c, Open(have, c)
  PROVE  Open(msgs, c)
<1>1. PICK a \in {0, 1}, k \in 1..Len(msgs) + 1 :
        /\ Len(have) = a + (Len(msgs) + 1 - k)
        /\ a = 1 => have[1].uses = <<>>
        /\ \A j \in 1..Len(msgs) + 1 - k : have[a + j] = msgs[k + j - 1]
  BY DEF TailOf
<1>2. PICK b \in 1..Len(have) :
        /\ c \in ToSet(have[b].uses)
        /\ \A j \in 1..Len(have) : j > b => have[j].uses = <<>> /\ have[j].answers # c
  BY DEF Open
<1>3. ~(a = 1 /\ b = 1)
  <2>1. ToSet(<<>>) = {}
    BY DEF ToSet
  <2>2. QED  BY <1>1, <1>2, <2>1
<1>4. Len(msgs) \in Nat /\ Len(have) \in Nat /\ a \in Nat /\ k \in Nat /\ b \in Nat
  BY <1>1, <1>2
<1> DEFINE d == b - a
           at == k + d - 1
<1>5. d \in 1..Len(msgs) + 1 - k /\ at \in 1..Len(msgs) /\ a + d = b
  BY <1>1, <1>2, <1>3, <1>4
<1>6. have[b] = msgs[at]
  BY <1>1, <1>5
<1>7. ASSUME NEW j \in 1..Len(msgs), j > at PROVE msgs[j].uses = <<>> /\ msgs[j].answers # c
  <2> DEFINE e == j + 1 - k
  <2>1. e \in 1..Len(msgs) + 1 - k /\ k + e - 1 = j /\ a + e \in 1..Len(have) /\ a + e > b
    BY <1>1, <1>4, <1>5, <1>7
  <2>2. have[a + e] = msgs[j]
    BY <1>1, <2>1
  <2>3. QED  BY <1>2, <2>1, <2>2
<1>8. QED
  BY <1>2, <1>5, <1>6, <1>7 DEF Open

\* Where the kept messages begin: somewhere in the conversation or behind it,
\* with no more than max messages to the end.
LEMMA KeptFromFacts ==
  ASSUME NEW msgs \in Seq(Message), NEW max \in Nat
  PROVE  KeptFrom(msgs, max) \in 1..Len(msgs) + 1 /\ Len(msgs) + 1 - KeptFrom(msgs, max) <= max
<1>1. Len(msgs) \in Nat /\ DOMAIN msgs = 1..Len(msgs)
  OBVIOUS
<1>2. CASE Len(msgs) <= max
  BY <1>1, <1>2 DEF KeptFrom
<1>3. CASE Len(msgs) > max
  <2> DEFINE T == {k \in 2..Len(msgs) + 1 : UnitStart(msgs, k) /\ Len(msgs) - k < max}
             P(k) == /\ UnitStart(msgs, k) /\ Len(msgs) - k < max
                     /\ \A j \in 2..k - 1 : UnitStart(msgs, j) => Len(msgs) - j >= max
  <2>1. Len(msgs) + 1 \in T
    <3>1. Len(msgs) + 1 \in 2..Len(msgs) + 1 /\ Len(msgs) + 1 \notin DOMAIN msgs
      BY <1>1, <1>3
    <3>2. Len(msgs) - (Len(msgs) + 1) < max
      BY <1>1
    <3>3. UnitStart(msgs, Len(msgs) + 1)
      BY <3>1 DEF UnitStart
    <3>4. QED  BY <3>1, <3>2, <3>3
  <2>2. T \in SUBSET Nat /\ T # {}
    BY <1>1, <2>1
  <2>3. PICK k \in T : \A j \in T : k <= j
    <3> HIDE DEF T
    <3> QED  BY <2>2, SmallestExists
  <2>4. k \in 2..Len(msgs) + 1 /\ P(k)
    <3>1. ASSUME NEW j \in 2..k - 1, UnitStart(msgs, j) PROVE Len(msgs) - j >= max
      <4>1. j \in 2..Len(msgs) + 1 /\ ~(k <= j)
        BY <1>1, <2>3
      <4>2. j \notin T
        BY <2>3, <4>1
      <4>3. ~(Len(msgs) - j < max)
        BY <3>1, <4>1, <4>2
      <4>4. QED  BY <1>1, <4>1, <4>3
    <3>2. QED  BY <2>3, <3>1
  <2>5. KeptFrom(msgs, max) = CHOOSE i \in 2..Len(msgs) + 1 : P(i)
    BY <1>1, <1>3 DEF KeptFrom
  <2>6. KeptFrom(msgs, max) \in 2..Len(msgs) + 1 /\ P(KeptFrom(msgs, max))
    <3> HIDE DEF P
    <3> QED  BY <2>4, <2>5
  <2>7. Len(msgs) - KeptFrom(msgs, max) < max
    BY <2>6
  <2>8. QED  BY <1>1, <2>6, <2>7
<1>4. QED  BY <1>1, <1>2, <1>3

\* Two sequences joined.
LEMMA Joined ==
  ASSUME NEW S, NEW p \in Seq(S), NEW q \in Seq(S)
  PROVE  /\ p \o q \in Seq(S) /\ Len(p \o q) = Len(p) + Len(q)
         /\ \A i \in 1..Len(p) : (p \o q)[i] = p[i]
         /\ \A i \in 1..Len(q) : (p \o q)[Len(p) + i] = q[i]
  OBVIOUS

LimitType == Nat \cup {NoLimit}

\* Trimming leaves a tail, of at most one message more than twice the limit.
LEMMA TrimFacts ==
  ASSUME NEW msgs \in Seq(Message), NEW max \in LimitType
  PROVE  /\ Trim(msgs, max) \in Seq(Message)
         /\ TailOf(Trim(msgs, max), msgs)
         /\ max # NoLimit => Len(Trim(msgs, max)) <= 2 * max + 1
<1>1. Len(msgs) \in Nat /\ DOMAIN msgs = 1..Len(msgs)
  OBVIOUS
<1>2. CASE max = NoLimit
  <2>1. Trim(msgs, max) = msgs
    BY <1>2 DEF Trim
  <2>2. TailOf(msgs, msgs)
    <3>1. /\ 0 \in {0, 1} /\ 1 \in 1..Len(msgs) + 1 /\ Len(msgs) = 0 + (Len(msgs) + 1 - 1)
          /\ \A j \in 1..Len(msgs) + 1 - 1 : msgs[0 + j] = msgs[1 + j - 1]
      BY <1>1
    <3>2. QED  BY <3>1 DEF TailOf
  <2>3. QED  BY <1>2, <2>1, <2>2
<1>3. CASE max # NoLimit /\ max = 0
  <2>1. Trim(msgs, max) = <<>>
    BY <1>3 DEF Trim
  <2>2. TailOf(<<>>, msgs)
    <3> DEFINE none == <<>>
               k == Len(msgs) + 1
    <3>1. /\ k \in 1..Len(msgs) + 1 /\ Len(none) = 0 + (Len(msgs) + 1 - k)
          /\ \A j \in 1..Len(msgs) + 1 - k : FALSE
      BY <1>1
    <3> HIDE DEF none, k
    <3>2. \E a \in {0, 1} :
            /\ Len(none) = a + (Len(msgs) + 1 - k)
            /\ a = 1 => none[1].uses = <<>>
            /\ \A j \in 1..Len(msgs) + 1 - k : none[a + j] = msgs[k + j - 1]
      <4>1. 0 \in {0, 1} /\ 0 # 1
        OBVIOUS
      <4>2. QED  BY <3>1, <4>1
    <3>3. TailOf(none, msgs)
      BY <3>1, <3>2 DEF TailOf
    <3>4. QED  BY <3>3 DEF none
  <2>3. <<>> \in Seq(Message) /\ Len(<<>>) <= 2 * max + 1
    BY <1>3
  <2>4. QED  BY <2>1, <2>2, <2>3
<1>4. CASE max # NoLimit /\ max # 0
  <2> DEFINE from == KeptFrom(msgs, 2 * max)
             rest == SubSeq(msgs, from, Len(msgs))
             anchor == IF from \in DOMAIN msgs /\ msgs[from].role = "assistant"
                       THEN <<Human("anchor")>> ELSE <<>>
  <2>1. max \in Nat /\ 2 * max \in Nat
    BY <1>4 DEF LimitType
  <2>2. from \in 1..Len(msgs) + 1 /\ Len(msgs) + 1 - from <= 2 * max
    BY <2>1, KeptFromFacts
  <2>3. Trim(msgs, max) = anchor \o rest
    BY <1>4 DEF Trim
  <2> HIDE DEF from
  <2>4. /\ rest \in Seq(Message) /\ Len(rest) = Len(msgs) + 1 - from
        /\ \A j \in 1..Len(msgs) + 1 - from : rest[j] = msgs[from + j - 1]
    BY <1>1, <2>2
  <2>5. Human("anchor") \in Message /\ Human("anchor").uses = <<>>
    BY DEF Human, Message, Texts
  <2>6. \E a \in {0, 1} : /\ anchor \in Seq(Message) /\ Len(anchor) = a
                          /\ a = 1 => anchor[1].uses = <<>>
    BY <2>5
  <2> HIDE DEF rest, anchor
  <2>7. PICK a \in {0, 1} : /\ anchor \in Seq(Message) /\ Len(anchor) = a
                            /\ a = 1 => anchor[1].uses = <<>>
    BY <2>6
  <2> DEFINE have == anchor \o rest
  <2>8. /\ have \in Seq(Message) /\ Len(have) = a + (Len(msgs) + 1 - from)
        /\ a = 1 => have[1] = anchor[1]
        /\ \A j \in 1..Len(msgs) + 1 - from : have[a + j] = rest[j]
    BY <2>4, <2>7, Joined
  <2> HIDE DEF have
  <2>9. TailOf(have, msgs)
    <3>1. /\ a = 1 => have[1].uses = <<>>
          /\ \A j \in 1..Len(msgs) + 1 - from : have[a + j] = msgs[from + j - 1]
      BY <2>4, <2>7, <2>8
    <3>2. QED  BY <2>2, <2>8, <3>1 DEF TailOf
  <2>10. Len(have) <= 2 * max + 1
    BY <1>1, <2>1, <2>2, <2>8
  <2>11. QED  BY <2>3, <2>8, <2>9, <2>10 DEF have
<1>5. QED  BY <1>2, <1>3, <1>4

\* A message at the end: the open calls are its own, or those it does not answer.
LEMMA AppendOpens ==
  ASSUME NEW msgs \in Seq(Message), NEW m \in Message, NEW c, Open(Append(msgs, m), c)
  PROVE  \/ c \in ToSet(m.uses)
         \/ m.uses = <<>> /\ m.answers # c /\ Open(msgs, c)
<1> DEFINE all == Append(msgs, m)
           n == Len(msgs)
<1>1. /\ n \in Nat /\ Len(all) = n + 1 /\ all[n + 1] = m
      /\ \A i \in 1..n : all[i] = msgs[i]
  OBVIOUS
<1>2. Open(all, c)
  OBVIOUS
<1> HIDE DEF all
<1>3. PICK b \in 1..n + 1 :
        /\ c \in ToSet(all[b].uses)
        /\ \A j \in 1..n + 1 : j > b => all[j].uses = <<>> /\ all[j].answers # c
  BY <1>1, <1>2 DEF Open
<1>4. CASE b = n + 1
  BY <1>1, <1>3, <1>4
<1>5. CASE b \in 1..n
  <2>1. n + 1 \in 1..n + 1 /\ n + 1 > b /\ \A j \in 1..n : j \in 1..n + 1
    BY <1>1, <1>5
  <2>2. m.uses = <<>> /\ m.answers # c
    BY <1>1, <1>3, <2>1
  <2>3. c \in ToSet(msgs[b].uses)
    BY <1>1, <1>3, <1>5
  <2>4. \A j \in 1..n : j > b => msgs[j].uses = <<>> /\ msgs[j].answers # c
    BY <1>1, <1>3, <2>1
  <2>5. QED  BY <1>5, <2>2, <2>3, <2>4 DEF Open
<1>6. QED  BY <1>1, <1>4, <1>5

\* Added and trimmed.
LEMMA AddFacts ==
  ASSUME NEW msgs \in Seq(Message), NEW m \in Message, NEW max \in LimitType
  PROVE  /\ Add(msgs, m, max) \in Seq(Message)
         /\ max # NoLimit => Len(Add(msgs, m, max)) <= 2 * max + 1
         /\ \A c : Open(Add(msgs, m, max), c) =>
              \/ c \in ToSet(m.uses)
              \/ m.uses = <<>> /\ m.answers # c /\ Open(msgs, c)
<1> DEFINE all == Append(msgs, m)
<1>1. all \in Seq(Message) /\ Add(msgs, m, max) = Trim(all, max)
  BY DEF Add
<1>2. ASSUME NEW c, Open(all, c)
      PROVE  \/ c \in ToSet(m.uses)
             \/ m.uses = <<>> /\ m.answers # c /\ Open(msgs, c)
  BY <1>2, AppendOpens
<1> HIDE DEF all
<1>3. /\ Trim(all, max) \in Seq(Message)
      /\ TailOf(Trim(all, max), all)
      /\ max # NoLimit => Len(Trim(all, max)) <= 2 * max + 1
  BY <1>1, TrimFacts
<1>4. ASSUME NEW c, Open(Trim(all, max), c) PROVE Open(all, c)
  BY <1>1, <1>3, <1>4, TailOpensNothing
<1>5. QED  BY <1>1, <1>2, <1>3, <1>4

\* c is open in the first n messages of new.
OpenIn(new, n, c) ==
  \E b \in 1..n :
    /\ c \in ToSet(new[b].uses)
    /\ \A j \in 1..n : j > b => new[j].uses = <<>> /\ new[j].answers # c

\* None of the first n messages of new makes calls or answers c.
Leaves(new, n, c) == \A j \in 1..n : new[j].uses = <<>> /\ new[j].answers # c

\* Messages added one by one, each time trimmed.
LEMMA AddAllFacts ==
  ASSUME NEW msgs \in Seq(Message), NEW new \in Seq(Message), NEW max \in LimitType
  PROVE  /\ AddAll(msgs, new, max) \in Seq(Message)
         /\ (max # NoLimit /\ Len(msgs) <= 2 * max + 1) => Len(AddAll(msgs, new, max)) <= 2 * max + 1
         /\ \A c : Open(AddAll(msgs, new, max), c) =>
              Open(new, c) \/ (Open(msgs, c) /\ Leaves(new, Len(new), c))
<1> DEFINE n == Len(new)
           M == Seq(Message)
           trimmed == [have \in Seq(Message) |-> Trim(have, max)]
           F == [i \in 1..n |-> [have \in M |-> trimmed[Append(have, new[i])]]]
           add == CHOOSE g : g = [i \in 0..n |-> IF i = 0 THEN msgs ELSE trimmed[Append(g[i - 1], new[i])]]
<1>1. n \in Nat /\ \A i \in 1..n : new[i] \in Message
  OBVIOUS
<1>2. \A have \in M, m \in Message :
        /\ trimmed[Append(have, m)] = Add(have, m, max)
        /\ Add(have, m, max) \in M
  <2> TAKE have \in M, m \in Message
  <2>1. Append(have, m) \in Seq(Message)
    OBVIOUS
  <2>2. trimmed[Append(have, m)] = Trim(Append(have, m), max)
    BY <2>1
  <2>3. Add(have, m, max) \in Seq(Message)
    BY AddFacts
  <2>4. QED  BY <2>2, <2>3 DEF Add
<1>3. AddAll(msgs, new, max) = add[n]
  BY DEF AddAll
<1> HIDE DEF trimmed
<1>4. F \in [1..n -> [M -> M]]
  BY <1>1, <1>2
<1>5. \A i \in 1..n, have \in M : F[i][have] = trimmed[Append(have, new[i])]
  OBVIOUS
<1>6. \E g \in [0..n -> M] : g[0] = msgs /\ \A i \in 1..n : g[i] = F[i][g[i - 1]]
  <2>1. msgs \in M
    OBVIOUS
  <2> HIDE DEF F, M, n, add
  <2>2. HasIteration(M, n, msgs, F)
    BY <1>1, <1>4, <2>1, IterationExists
  <2>3. QED  BY <2>2 DEF HasIteration, Iterates
<1> HIDE DEF F
<1>7. PICK g \in [0..n -> M] : g[0] = msgs /\ \A i \in 1..n : g[i] = trimmed[Append(g[i - 1], new[i])]
  <2> HIDE DEF M, n, add
  <2>1. PICK g \in [0..n -> M] : g[0] = msgs /\ \A i \in 1..n : g[i] = F[i][g[i - 1]]
    BY <1>6
  <2>2. ASSUME NEW i \in 1..n PROVE g[i] = trimmed[Append(g[i - 1], new[i])]
    <3>1. i - 1 \in 0..n
      BY <1>1
    <3>2. g[i - 1] \in M
      BY <3>1
    <3>3. QED  BY <1>5, <2>1, <3>2
  <2>3. QED  BY <2>1, <2>2
<1>8. g = [i \in 0..n |-> IF i = 0 THEN msgs ELSE trimmed[Append(g[i - 1], new[i])]]
  <2> DEFINE h == [i \in 0..n |-> IF i = 0 THEN msgs ELSE trimmed[Append(g[i - 1], new[i])]]
  <2> HIDE DEF n, add, M
  <2>1. ASSUME NEW i \in 0..n PROVE g[i] = h[i]
    <3>1. CASE i = 0
      <4>1. h[i] = msgs
        BY <3>1
      <4>2. QED  BY <1>7, <3>1, <4>1
    <3>2. CASE i \in 1..n
      <4>1. i # 0
        BY <1>1, <3>2
      <4>2. h[i] = trimmed[Append(g[i - 1], new[i])]
        BY <4>1
      <4>3. QED  BY <1>7, <3>2, <4>2
    <3>3. QED  BY <1>1, <3>1, <3>2
  <2>2. g = h
    BY <2>1
  <2>3. QED  BY <2>2
<1>9. add = [i \in 0..n |-> IF i = 0 THEN msgs ELSE trimmed[Append(add[i - 1], new[i])]]
  BY <1>8
<1> HIDE DEF add
<1>10. add[0] = msgs /\ \A i \in 1..n : add[i] = trimmed[Append(add[i - 1], new[i])]
  <2> HIDE DEF n
  <2>1. add[0] = msgs
    BY <1>1, <1>9
  <2>2. ASSUME NEW i \in 1..n PROVE add[i] = trimmed[Append(add[i - 1], new[i])]
    <3>1. i \in 0..n /\ i # 0
      BY <1>1
    <3>2. QED  BY <1>9, <3>1
  <2>3. QED  BY <2>1, <2>2
<1> DEFINE Short(have) == max # NoLimit /\ Len(msgs) <= 2 * max + 1 => Len(have) <= 2 * max + 1
           Opens(have, i) == \A c : Open(have, c) => OpenIn(new, i, c) \/ (Open(msgs, c) /\ Leaves(new, i, c))
           S == {i \in Nat : i <= n => add[i] \in M /\ Short(add[i]) /\ Opens(add[i], i)}
<1>11. 0 \in S
  <2>1. Opens(msgs, 0)
    BY DEF Leaves
  <2>2. add[0] = msgs /\ msgs \in M /\ Short(msgs)
    BY <1>10
  <2> HIDE DEF Opens, Short
  <2>3. QED  BY <2>1, <2>2
<1>12. ASSUME NEW i \in S PROVE i + 1 \in S
  <2>1. SUFFICES ASSUME i + 1 <= n
                 PROVE  add[i + 1] \in M /\ Short(add[i + 1]) /\ Opens(add[i + 1], i + 1)
    OBVIOUS
  <2> DEFINE have == add[i]
             m == new[i + 1]
  <2>2. i \in Nat /\ i + 1 \in 1..n /\ i + 1 - 1 = i /\ have \in M /\ Short(have) /\ Opens(have, i) /\ m \in Message
    BY <1>1, <2>1
  <2>3. add[i + 1] = Add(have, m, max)
    <3> DEFINE k == i + 1
    <3>1. k \in 1..n /\ k - 1 = i
      BY <2>2
    <3> HIDE DEF k, n, have, m, M
    <3>2. add[k] = trimmed[Append(add[k - 1], new[k])]
      BY <1>10, <3>1
    <3>3. add[k] = trimmed[Append(have, m)]
      BY <3>1, <3>2 DEF k, have, m
    <3>4. trimmed[Append(have, m)] = Add(have, m, max)
      BY <1>2, <2>2
    <3>5. QED  BY <3>3, <3>4 DEF k
  <2> HIDE DEF have, m
  <2>4. /\ Add(have, m, max) \in M
        /\ max # NoLimit => Len(Add(have, m, max)) <= 2 * max + 1
        /\ \A c : Open(Add(have, m, max), c) =>
             \/ c \in ToSet(m.uses)
             \/ m.uses = <<>> /\ m.answers # c /\ Open(have, c)
    BY <2>2, AddFacts
  <2>5. ASSUME NEW c, Open(Add(have, m, max), c)
        PROVE  OpenIn(new, i + 1, c) \/ (Open(msgs, c) /\ Leaves(new, i + 1, c))
    <3>1. \A j \in 1..i + 1 : j \in 1..i \/ j = i + 1
      BY <2>2
    <3>2. CASE c \in ToSet(m.uses)
      <4>1. i + 1 \in 1..i + 1 /\ c \in ToSet(new[i + 1].uses) /\ \A j \in 1..i + 1 : ~(j > i + 1)
        BY <2>2, <3>2 DEF m
      <4>2. QED  BY <4>1 DEF OpenIn
    <3>3. CASE m.uses = <<>> /\ m.answers # c /\ Open(have, c)
      <4>1. OpenIn(new, i, c) \/ (Open(msgs, c) /\ Leaves(new, i, c))
        BY <2>2, <3>3
      <4>2. new[i + 1].uses = <<>> /\ new[i + 1].answers # c
        BY <3>3 DEF m
      <4>3. CASE OpenIn(new, i, c)
        <5>1. PICK b \in 1..i :
                /\ c \in ToSet(new[b].uses)
                /\ \A j \in 1..i : j > b => new[j].uses = <<>> /\ new[j].answers # c
          BY <4>3 DEF OpenIn
        <5>2. b \in 1..i + 1 /\ \A j \in 1..i + 1 : j > b => new[j].uses = <<>> /\ new[j].answers # c
          BY <2>2, <3>1, <4>2, <5>1
        <5>3. QED  BY <5>1, <5>2 DEF OpenIn
      <4>4. CASE Open(msgs, c) /\ Leaves(new, i, c)
        BY <3>1, <4>2, <4>4 DEF Leaves
      <4>5. QED  BY <4>1, <4>3, <4>4
    <3>4. QED  BY <2>4, <2>5, <3>2, <3>3
  <2>6. QED  BY <2>3, <2>4, <2>5
<1>13. S = Nat
  <2>1. S \in SUBSET Nat
    OBVIOUS
  <2> HIDE DEF S
  <2>2. QED  BY <1>11, <1>12, <2>1, SetInduction
<1>14. add[n] \in M /\ Short(add[n]) /\ Opens(add[n], n)
  <2>1. n \in S /\ n <= n
    BY <1>1, <1>13
  <2> HIDE DEF n, M, Short, Opens
  <2>2. QED  BY <2>1
<1>15. \A c : OpenIn(new, n, c) => Open(new, c)
  BY DEF OpenIn, Open
<1>16. QED  BY <1>3, <1>14, <1>15

\* What a batch comes to with a result for each of its calls.
Results(calls) == [i \in DOMAIN calls |-> ToolResult(calls[i])]
AddResults(msgs, calls, max) == AddAll(msgs, Results(calls), max)
AddHumans(msgs, texts, max) == AddAll(msgs, HumanAll(texts), max)

\* Tool results for some calls, added: those calls are no longer open.
LEMMA ResultsAnswer ==
  ASSUME NEW msgs \in Seq(Message), NEW calls \in Seq(CallIds), NEW max \in LimitType
  PROVE  /\ AddResults(msgs, calls, max) \in Seq(Message)
         /\ (max # NoLimit /\ Len(msgs) <= 2 * max + 1) => Len(AddResults(msgs, calls, max)) <= 2 * max + 1
         /\ \A c : Open(AddResults(msgs, calls, max), c) => Open(msgs, c) /\ c \notin ToSet(calls)
<1> DEFINE n == Len(calls)
           new == Results(calls)
           have == AddResults(msgs, calls, max)
<1>1. DOMAIN calls = 1..n /\ n \in Nat /\ \A i \in 1..n : calls[i] \in CallIds
  OBVIOUS
<1>2. \A call \in CallIds : /\ ToolResult(call) \in Message
                            /\ ToolResult(call).uses = <<>> /\ ToolResult(call).answers = call
  BY DEF ToolResult, Message, Texts
<1>3. /\ new \in Seq(Message) /\ Len(new) = n
      /\ \A i \in 1..n : new[i].uses = <<>> /\ new[i].answers = calls[i]
  <2>1. \A i \in 1..n : ToolResult(calls[i]) \in Message
    BY <1>1, <1>2
  <2>2. new = [i \in 1..n |-> ToolResult(calls[i])]
    BY <1>1 DEF Results
  <2>3. new \in Seq(Message) /\ Len(new) = n /\ \A i \in 1..n : new[i] = ToolResult(calls[i])
    BY <1>1, <2>1, <2>2
  <2>4. QED  BY <1>1, <1>2, <2>3
<1> HIDE DEF new
<1>4. /\ have \in Seq(Message)
      /\ (max # NoLimit /\ Len(msgs) <= 2 * max + 1) => Len(have) <= 2 * max + 1
      /\ \A c : Open(have, c) => Open(new, c) \/ (Open(msgs, c) /\ Leaves(new, Len(new), c))
  <2>1. have = AddAll(msgs, new, max)
    BY DEF new, AddResults
  <2> HIDE DEF have
  <2>2. QED  BY <1>3, <2>1, AddAllFacts
<1>5. ASSUME NEW c, Open(have, c) PROVE Open(msgs, c) /\ c \notin ToSet(calls)
  <2>1. ~Open(new, c)
    <3>1. ToSet(<<>>) = {}
      BY DEF ToSet
    <3>2. \A b \in 1..Len(new) : c \notin ToSet(new[b].uses)
      BY <1>3, <3>1
    <3>3. QED  BY <3>2 DEF Open
  <2>2. Open(msgs, c) /\ Leaves(new, n, c)
    BY <1>3, <1>4, <1>5, <2>1
  <2>3. \A i \in 1..n : calls[i] # c
    BY <1>3, <2>2 DEF Leaves
  <2>4. QED  BY <1>1, <2>2, <2>3 DEF ToSet
<1>6. QED  BY <1>4, <1>5

\* The repair leaves no call open.
LEMMA RepairFacts ==
  ASSUME NEW msgs \in Seq(Message), NEW max \in LimitType
  PROVE  /\ Repair(msgs, max) \in Seq(Message)
         /\ (max # NoLimit /\ Len(msgs) <= 2 * max + 1) => Len(Repair(msgs, max)) <= 2 * max + 1
         /\ \A c : ~Open(Repair(msgs, max), c)
<1> DEFINE missing == Unanswered(msgs)
           have == AddResults(msgs, missing, max)
<1>1. missing \in Seq(CallIds) /\ \A c : c \in ToSet(missing) <=> Open(msgs, c)
  BY UnansweredIsOpen
<1>2. Repair(msgs, max) = have
  BY DEF Repair, AddResults, Results
<1> HIDE DEF missing
<1>3. /\ have \in Seq(Message)
      /\ (max # NoLimit /\ Len(msgs) <= 2 * max + 1) => Len(have) <= 2 * max + 1
      /\ \A c : Open(have, c) => Open(msgs, c) /\ c \notin ToSet(missing)
  BY <1>1, ResultsAnswer
<1> HIDE DEF have
<1>4. QED  BY <1>1, <1>2, <1>3

\* Messages without calls, added, open nothing.
LEMMA HumansOpenNothing ==
  ASSUME NEW msgs \in Seq(Message), NEW texts \in Seq(Texts), NEW max \in LimitType
  PROVE  /\ AddHumans(msgs, texts, max) \in Seq(Message)
         /\ (max # NoLimit /\ Len(msgs) <= 2 * max + 1) => Len(AddHumans(msgs, texts, max)) <= 2 * max + 1
         /\ \A c : Open(AddHumans(msgs, texts, max), c) => Open(msgs, c)
<1> DEFINE n == Len(texts)
           new == HumanAll(texts)
           have == AddHumans(msgs, texts, max)
<1>1. DOMAIN texts = 1..n /\ n \in Nat /\ \A i \in 1..n : texts[i] \in Texts
  OBVIOUS
<1>2. \A text \in Texts : Human(text) \in Message /\ Human(text).uses = <<>>
  BY DEF Human, Message
<1>3. /\ new \in Seq(Message) /\ Len(new) = n
      /\ \A i \in 1..n : new[i].uses = <<>>
  <2>1. \A i \in 1..n : Human(texts[i]) \in Message
    BY <1>1, <1>2
  <2>2. new = [i \in 1..n |-> Human(texts[i])]
    BY <1>1 DEF HumanAll
  <2>3. new \in Seq(Message) /\ Len(new) = n /\ \A i \in 1..n : new[i] = Human(texts[i])
    BY <1>1, <2>1, <2>2
  <2>4. QED  BY <1>1, <1>2, <2>3
<1> HIDE DEF new
<1>4. /\ have \in Seq(Message)
      /\ (max # NoLimit /\ Len(msgs) <= 2 * max + 1) => Len(have) <= 2 * max + 1
      /\ \A c : Open(have, c) => Open(new, c) \/ (Open(msgs, c) /\ Leaves(new, Len(new), c))
  <2>1. have = AddAll(msgs, new, max)
    BY DEF new, AddHumans
  <2> HIDE DEF have
  <2>2. QED  BY <1>3, <2>1, AddAllFacts
<1>5. ASSUME NEW c PROVE ~Open(new, c)
  <2>1. ToSet(<<>>) = {}
    BY DEF ToSet
  <2>2. \A b \in 1..Len(new) : c \notin ToSet(new[b].uses)
    BY <1>3, <2>1
  <2>3. QED  BY <2>2 DEF Open
<1>6. QED  BY <1>4, <1>5

\* The cut is at a message of the conversation, behind the first two.
LEMMA FindCutPointFacts ==
  ASSUME NEW msgs \in Seq(Message), NEW tail
  PROVE  FindCutPoint(msgs, tail) = 0 \/ (FindCutPoint(msgs, tail) \in 1..Len(msgs) /\ FindCutPoint(msgs, tail) > 2)
<1> DEFINE turns  == {i \in DOMAIN msgs : IsTurnBoundary(msgs[i])}
           ahead  == {i \in turns : i >= tail}
           behind == {i \in turns : i <= tail}
           first  == CHOOSE i \in ahead : \A j \in ahead : i <= j
           last   == CHOOSE i \in behind : \A j \in behind : j <= i
           cut    == IF ahead # {} THEN first ELSE IF behind # {} THEN last ELSE 0
<1>1. DOMAIN msgs = 1..Len(msgs) /\ Len(msgs) \in Nat
  OBVIOUS
<1>2. turns \in SUBSET (1..Len(msgs)) /\ ahead \in SUBSET turns /\ behind \in SUBSET turns
  BY <1>1
<1>3. FindCutPoint(msgs, tail) = IF cut > 2 THEN cut ELSE 0
  BY DEF FindCutPoint
<1>4. ahead # {} => first \in ahead
  <2>1. ahead \in SUBSET Nat
    BY <1>2
  <2>2. ahead # {} => \E i \in ahead : \A j \in ahead : i <= j
    <3> HIDE DEF ahead
    <3> QED  BY <2>1, SmallestExists
  <2>3. QED  BY <2>2
<1>5. behind # {} => last \in behind
  <2>1. behind \in SUBSET (1..Len(msgs))
    BY <1>2
  <2>2. behind # {} => \E i \in behind : \A j \in behind : j <= i
    <3> HIDE DEF behind
    <3> QED  BY <1>1, <2>1, LargestExists
  <2>3. QED  BY <2>2
<1> HIDE DEF turns, ahead, behind, first, last
<1>6. cut \in 1..Len(msgs) \/ cut = 0
  BY <1>2, <1>4, <1>5
<1>7. QED  BY <1>3, <1>6

\* A compaction leaves a memory in which nothing is open that was not before.
LEMMA CompactionFacts ==
  ASSUME NEW msgs \in Seq(Message), NEW max \in LimitType, NEW have \in Compactions(msgs, max)
  PROVE  /\ have \in Seq(Message)
         /\ max # NoLimit => Len(have) <= 2 * max + 1
         /\ \A c : Open(have, c) => Open(msgs, c)
<1>1. PICK tail \in 2..Len(msgs) + 1 : have = Compact(msgs, tail, max) /\ have # <<>>
  BY DEF Compactions
<1> DEFINE cut == FindCutPoint(msgs, tail)
           rest == SubSeq(msgs, cut, Len(msgs))
           summary == <<Human("summary")>>
           new == summary \o rest
<1>2. cut # 0
  BY <1>1 DEF Compact
<1>3. cut \in 1..Len(msgs) /\ Len(msgs) \in Nat
  BY <1>2, FindCutPointFacts
<1>4. have = AddAll(<<>>, new, max)
  BY <1>1, <1>2 DEF Compact
<1> HIDE DEF cut
<1>5. /\ rest \in Seq(Message) /\ Len(rest) = Len(msgs) + 1 - cut
      /\ \A j \in 1..Len(msgs) + 1 - cut : rest[j] = msgs[cut + j - 1]
  BY <1>3
<1>6. summary \in Seq(Message) /\ Len(summary) = 1 /\ summary[1].uses = <<>>
  BY DEF Human, Message, Texts
<1> HIDE DEF rest, summary
<1>7. /\ new \in Seq(Message) /\ Len(new) = 1 + (Len(msgs) + 1 - cut)
      /\ new[1] = summary[1]
      /\ \A j \in 1..Len(msgs) + 1 - cut : new[1 + j] = rest[j]
  <2>1. /\ summary \o rest \in Seq(Message) /\ Len(summary \o rest) = Len(summary) + Len(rest)
        /\ \A i \in 1..Len(summary) : (summary \o rest)[i] = summary[i]
        /\ \A i \in 1..Len(rest) : (summary \o rest)[Len(summary) + i] = rest[i]
    <3>1. summary \in Seq(Message) /\ rest \in Seq(Message)
      BY <1>5, <1>6
    <3>2. QED  BY ONLY <3>1, Joined
  <2> HIDE DEF new
  <2>2. QED  BY <1>5, <1>6, <2>1 DEF new
<1> HIDE DEF new
<1>8. TailOf(new, msgs)
  <2>1. 1 \in {0, 1} /\ cut \in 1..Len(msgs) + 1 /\ new[1].uses = <<>>
    BY <1>3, <1>6, <1>7
  <2>2. ASSUME NEW j \in 1..Len(msgs) + 1 - cut PROVE new[1 + j] = msgs[cut + j - 1]
    BY <1>5, <1>7
  <2>3. QED  BY <1>7, <2>1, <2>2 DEF TailOf
<1> DEFINE none == <<>>
<1>9. none \in Seq(Message) /\ Len(none) = 0 /\ \A c : ~Open(none, c)
  BY DEF Open
<1> HIDE DEF none
<1>10. /\ have \in Seq(Message)
       /\ (max # NoLimit /\ Len(none) <= 2 * max + 1) => Len(have) <= 2 * max + 1
       /\ \A c : Open(have, c) => Open(new, c) \/ (Open(none, c) /\ Leaves(new, Len(new), c))
  <2>1. have = AddAll(none, new, max)
    BY <1>4 DEF none
  <2>2. QED  BY <1>7, <1>9, <2>1, AddAllFacts
<1>11. ASSUME NEW c, Open(have, c) PROVE Open(msgs, c)
  <2>1. Open(new, c)
    BY <1>9, <1>10, <1>11
  <2>2. QED  BY <1>7, <1>8, <2>1, TailOpensNothing
<1>12. max # NoLimit => Len(have) <= 2 * max + 1
  BY <1>9, <1>10 DEF LimitType
<1>13. QED  BY <1>10, <1>11, <1>12

-----------------------------------------------------------------------------
(* The transpiled memory keeps what the reference's does *)

\* What is left from k on.
LEMMA Suffix ==
  \A s \in Seq(Message), k \in Nat : k \in 1..Len(s) + 1 =>
    /\ SubSeq(s, k, Len(s)) \in Seq(Message) /\ Len(SubSeq(s, k, Len(s))) = Len(s) + 1 - k
    /\ \A i \in Nat : i \in 1..Len(s) + 1 - k => SubSeq(s, k, Len(s))[i] = s[k + i - 1]
OBVIOUS

\* Conversations with the same messages are the same.
LEMMA SameMessages ==
  \A a, b \in Seq(Message) : Len(a) = Len(b) /\ (\A i \in Nat : i \in 1..Len(a) => a[i] = b[i]) => a = b
OBVIOUS

\* k is where KeptFrom cuts a conversation that is too long.
CutsAt(msgs, max, k) ==
  /\ k \in 2..Len(msgs) + 1 /\ UnitStart(msgs, k) /\ Len(msgs) - k < max
  /\ \A j \in 2..k - 1 : UnitStart(msgs, j) => Len(msgs) - j >= max

\* There is only one such place.
LEMMA CutsAtOnce ==
  \A msgs \in Seq(Message), max \in Nat : \A k \in Nat :
    Len(msgs) > max /\ CutsAt(msgs, max, k) => KeptFrom(msgs, max) = k
<1> SUFFICES ASSUME NEW msgs \in Seq(Message), NEW max \in Nat, NEW k \in Nat, Len(msgs) > max, CutsAt(msgs, max, k)
             PROVE  KeptFrom(msgs, max) = k
  OBVIOUS
<1> DEFINE n == Len(msgs)
           P(i) == /\ UnitStart(msgs, i) /\ Len(msgs) - i < max
                   /\ \A j \in 2..i - 1 : UnitStart(msgs, j) => Len(msgs) - j >= max
           from == CHOOSE i \in 2..n + 1 : P(i)
<1>1. n \in Nat /\ k \in 2..n + 1 /\ P(k)
  BY DEF CutsAt
<1>2. ASSUME NEW i \in 2..n + 1, P(i) PROVE i = k
  <2>1. ~(i < k)
    <3>1. SUFFICES ASSUME i < k PROVE FALSE
      OBVIOUS
    <3>2. i \in 2..k - 1
      BY <1>1, <3>1
    <3>3. n - i >= max /\ n - i < max
      BY <1>1, <1>2, <3>2
    <3>4. QED  BY <1>1, <3>3
  <2>2. ~(k < i)
    <3>1. SUFFICES ASSUME k < i PROVE FALSE
      OBVIOUS
    <3>2. k \in 2..i - 1
      BY <1>1, <3>1
    <3>3. n - k >= max /\ n - k < max
      BY <1>1, <1>2, <3>2
    <3>4. QED  BY <1>1, <3>3
  <2>3. QED  BY <1>1, <2>1, <2>2
<1>3. from = k
  <2> HIDE DEF P
  <2>1. from \in 2..n + 1 /\ P(from)
    BY <1>1
  <2>2. QED  BY <1>2, <2>1
<1>4. KeptFrom(msgs, max) = from
  BY <1>1 DEF KeptFrom
<1>5. QED  BY <1>3, <1>4

\* There is one.
LEMMA CutsSomewhere ==
  \A msgs \in Seq(Message), max \in Nat : Len(msgs) > max => CutsAt(msgs, max, KeptFrom(msgs, max))
<1> SUFFICES ASSUME NEW msgs \in Seq(Message), NEW max \in Nat, Len(msgs) > max
             PROVE  CutsAt(msgs, max, KeptFrom(msgs, max))
  OBVIOUS
<1> DEFINE n == Len(msgs)
           T == {k \in 2..n + 1 : UnitStart(msgs, k) /\ n - k < max}
<1>1. n \in Nat /\ DOMAIN msgs = 1..n
  OBVIOUS
<1>2. n + 1 \in T
  <2>1. n + 1 \in 2..n + 1 /\ n + 1 \notin DOMAIN msgs /\ n - (n + 1) < max
    BY <1>1
  <2>2. UnitStart(msgs, n + 1)
    BY <2>1 DEF UnitStart
  <2>3. QED  BY <2>1, <2>2
<1>3. PICK k \in T : \A j \in T : k <= j
  <2>1. T \in SUBSET Nat /\ T # {}
    BY <1>1, <1>2
  <2> HIDE DEF T
  <2>2. QED  BY <2>1, SmallestExists
<1>4. CutsAt(msgs, max, k)
  <2>1. ASSUME NEW j \in 2..k - 1, UnitStart(msgs, j) PROVE n - j >= max
    <3>1. j \in 2..n + 1 /\ ~(k <= j)
      BY <1>1, <1>3
    <3>2. ~(n - j < max)
      BY <1>3, <2>1, <3>1
    <3>3. QED  BY <1>1, <3>1, <3>2
  <2>2. QED  BY <1>3, <2>1 DEF CutsAt
<1>5. k \in Nat
  BY <1>1, <1>3
<1>6. KeptFrom(msgs, max) = k
  BY <1>4, <1>5, CutsAtOnce
<1>7. QED  BY <1>4, <1>6

\* k is where the second unit of msgs begins.
Second(msgs, k) ==
  /\ k \in 2..Len(msgs) + 1 /\ UnitStart(msgs, k)
  /\ \A j \in 2..k - 1 : ~UnitStart(msgs, j)
  /\ msgs[1].role = "user" => k = 2
  /\ msgs[1].role # "user" /\ k <= Len(msgs) => msgs[k].role = "assistant"

\* Without its oldest unit a conversation begins there.
LEMMA OldestUnitGone ==
  \A msgs \in Seq(Message) : msgs # <<>> =>
    \E k \in Nat : Second(msgs, k) /\ WithoutOldestUnit(msgs) = SubSeq(msgs, k, Len(msgs))
<1> SUFFICES ASSUME NEW msgs \in Seq(Message), msgs # <<>>
             PROVE  \E k \in Nat : Second(msgs, k) /\ WithoutOldestUnit(msgs) = SubSeq(msgs, k, Len(msgs))
  OBVIOUS
<1> DEFINE n == Len(msgs)
           rest == Tail(msgs)
           assist == {i \in DOMAIN rest : rest[i].role # "user"}
           first == IF assist = {} THEN Len(rest) + 1 ELSE CHOOSE i \in assist : \A j \in assist : i <= j
<1>1. /\ n \in Nat /\ n >= 1 /\ DOMAIN msgs = 1..n /\ Head(msgs) = msgs[1]
      /\ rest \in Seq(Message) /\ Len(rest) = n - 1 /\ DOMAIN rest = 1..n - 1
      /\ \A i \in 1..n - 1 : rest[i] = msgs[i + 1]
      /\ \A i \in 1..n : msgs[i] \in Message
  OBVIOUS
<1>2. \A m \in Message : m.role \in {"user", "assistant"}
  BY DEF Message
<1>3. \A i \in 1..n : msgs[i].role \in {"user", "assistant"}
  BY <1>1, <1>2
<1>4. CASE msgs[1].role = "user"
  <2>1. WithoutOldestUnit(msgs) = rest
    BY <1>1, <1>4 DEF WithoutOldestUnit
  <2>2. SubSeq(msgs, 2, n) = rest
    <3>1. /\ SubSeq(msgs, 2, n) \in Seq(Message) /\ Len(SubSeq(msgs, 2, n)) = n - 1
          /\ \A i \in 1..n - 1 : SubSeq(msgs, 2, n)[i] = msgs[i + 1]
      BY <1>1
    <3> DEFINE other == SubSeq(msgs, 2, n)
    <3> HIDE DEF rest, other
    <3>2. other \in Seq(Message) /\ Len(other) = n - 1 /\ \A i \in 1..n - 1 : other[i] = msgs[i + 1]
      BY <3>1 DEF other
    <3>3. other = rest
      BY <1>1, <3>2
    <3>4. QED  BY <3>3 DEF other
  <2>3. Second(msgs, 2)
    <3>1. UnitStart(msgs, 2)
      <4>1. \A j \in 1..2 - 1 : j = 1
        OBVIOUS
      <4>2. QED  BY <1>4, <4>1 DEF UnitStart
    <3>2. 2 \in 2..n + 1 /\ 2..2 - 1 = {}
      BY <1>1
    <3>3. QED  BY <1>4, <3>1, <3>2 DEF Second
  <2>4. QED  BY <2>1, <2>2, <2>3
<1>5. CASE msgs[1].role # "user"
  <2>1. WithoutOldestUnit(msgs) = SubSeq(rest, first, Len(rest))
    BY <1>1, <1>5 DEF WithoutOldestUnit
  <2>2. /\ first \in 1..n /\ (first \in 1..n - 1 => rest[first].role # "user")
        /\ \A j \in 1..first - 1 : rest[j].role = "user"
    <3>1. CASE assist = {}
      <4>1. first = n
        BY <1>1, <3>1
      <4>2. \A j \in 1..n - 1 : rest[j].role = "user"
        BY <1>1, <3>1
      <4>3. n \in 1..n /\ n \notin 1..n - 1
        BY <1>1
      <4> HIDE DEF first, assist
      <4>4. QED  BY <1>1, <4>1, <4>2, <4>3
    <3>2. CASE assist # {}
      <4>1. assist \in SUBSET Nat
        BY <1>1
      <4>2. \E i \in assist : \A j \in assist : i <= j
        <5> HIDE DEF assist
        <5> QED  BY <3>2, <4>1, SmallestExists
      <4>3. first \in assist /\ \A j \in assist : first <= j
        <5> DEFINE P(i) == \A j \in assist : i <= j
        <5>1. first = CHOOSE i \in assist : P(i)
          BY <3>2
        <5>2. \E i \in assist : P(i)
          BY <4>2
        <5> HIDE DEF P, first, assist
        <5>3. first \in assist /\ P(first)
          BY <5>1, <5>2
        <5>4. QED  BY <5>3 DEF P
      <4> HIDE DEF first
      <4>4. first \in 1..n - 1 /\ rest[first].role # "user"
        BY <1>1, <4>3
      <4>5. ASSUME NEW j \in 1..first - 1 PROVE rest[j].role = "user"
        <5>1. j \in 1..n - 1 /\ ~(first <= j)
          BY <1>1, <4>4
        <5>2. j \notin assist
          BY <4>3, <5>1
        <5>3. QED  BY <1>1, <5>1, <5>2
      <4>6. QED  BY <1>1, <4>4, <4>5
    <3>3. QED  BY <3>1, <3>2
  <2> HIDE DEF first, assist
  <2> DEFINE k == first + 1
  <2>3. k \in 2..n + 1 /\ k \in Nat /\ 1 \in 1..k - 1
    BY <1>1, <2>2
  <2>4. UnitStart(msgs, k) /\ (k <= n => msgs[k].role = "assistant")
    <3>1. SUFFICES ASSUME k \in 1..n PROVE msgs[k].role = "assistant"
      BY <1>1, <2>3 DEF UnitStart
    <3>2. first \in 1..n - 1
      BY <1>1, <2>2, <3>1
    <3>3. rest[first] = msgs[k] /\ rest[first].role # "user"
      BY <1>1, <2>2, <3>2
    <3>4. QED  BY <1>3, <3>1, <3>3
  <2>5. ASSUME NEW j \in 2..k - 1 PROVE ~UnitStart(msgs, j)
    <3>1. j - 1 \in 1..first - 1 /\ j - 1 \in 1..n - 1 /\ (j - 1) + 1 = j /\ j \in 1..n /\ 1 \in 1..j - 1
      BY <1>1, <2>2
    <3>2. msgs[j].role = "user"
      BY <1>1, <2>2, <3>1
    <3>3. msgs[j].role # "assistant"
      BY <3>2
    <3>4. QED  BY <1>1, <1>5, <3>1, <3>3 DEF UnitStart
  <2>6. SubSeq(rest, first, Len(rest)) = SubSeq(msgs, k, n)
    <3> DEFINE a == SubSeq(rest, first, Len(rest))
               b == SubSeq(msgs, k, n)
    <3>1. /\ first \in Nat /\ first \in 1..Len(rest) + 1 /\ k \in 1..n + 1
          /\ Len(rest) + 1 - first = n - first /\ n + 1 - k = n - first
      <4>1. Len(rest) = n - 1 /\ n \in Nat
        BY <1>1
      <4> HIDE DEF rest, n
      <4>2. first \in Nat /\ first \in 1..Len(rest) + 1 /\ Len(rest) + 1 - first = n - first
        BY <2>2, <4>1
      <4>3. k \in 1..n + 1 /\ n + 1 - k = n - first
        BY <2>2, <4>1
      <4>4. QED  BY <4>2, <4>3
    <3>2. a \in Seq(Message) /\ Len(a) = n - first /\ \A i \in Nat : i \in 1..n - first => a[i] = rest[first + i - 1]
      <4> HIDE DEF a, rest, k
      <4> QED  BY <1>1, <3>1, Suffix DEF a
    <3>3. b \in Seq(Message) /\ Len(b) = n - first /\ \A i \in Nat : i \in 1..n - first => b[i] = msgs[k + i - 1]
      <4> HIDE DEF b, k
      <4> QED  BY <2>3, <3>1, Suffix DEF b
    <3>4. \A i \in 1..n - first : rest[first + i - 1] = msgs[k + i - 1]
      <4>1. \A i \in 1..n - first : first + i - 1 \in 1..n - 1 /\ first + i - 1 + 1 = k + i - 1
        BY <1>1, <2>2
      <4> HIDE DEF k, rest
      <4>2. QED  BY <1>1, <4>1
    <3> HIDE DEF a, b, k, rest
    <3>5. \A i \in Nat : i \in 1..Len(a) => a[i] = b[i]
      BY <3>2, <3>3, <3>4
    <3>6. a = b
      BY <3>2, <3>3, <3>5, SameMessages
    <3>7. QED  BY <3>6 DEF a, b
  <2>7. Second(msgs, k)
    BY <1>5, <2>3, <2>4, <2>5 DEF Second
  <2>8. QED  BY <2>1, <2>3, <2>6, <2>7
<1>6. QED  BY <1>4, <1>5

\* The other units begin where they did.
LEMMA UnitsStay ==
  \A msgs \in Seq(Message), k \in Nat : Second(msgs, k) =>
    \A i \in Nat : i \in 2..Len(msgs) + 2 - k =>
      (UnitStart(SubSeq(msgs, k, Len(msgs)), i) <=> UnitStart(msgs, i + k - 1))
<1> SUFFICES ASSUME NEW msgs \in Seq(Message), NEW k \in Nat, Second(msgs, k),
                    NEW i \in Nat, i \in 2..Len(msgs) + 2 - k
             PROVE  UnitStart(SubSeq(msgs, k, Len(msgs)), i) <=> UnitStart(msgs, i + k - 1)
  OBVIOUS
<1> DEFINE n == Len(msgs)
           w == SubSeq(msgs, k, n)
           at == i + k - 1
           AllUsers(s, top) == \A j \in 1..top - 1 : s[j].role = "user"
<1>1. n \in Nat /\ DOMAIN msgs = 1..n /\ k \in 2..n + 1 /\ k \in 1..n + 1
  BY DEF Second
<1>2. /\ w \in Seq(Message) /\ Len(w) = n + 1 - k
      /\ \A j \in Nat : j \in 1..n + 1 - k => w[j] = msgs[k + j - 1]
  <2> HIDE DEF w, n
  <2>1. QED  BY <1>1, Suffix DEF w, n
<1>3. DOMAIN w = 1..n + 1 - k
  BY <1>2
<1> HIDE DEF w
<1>4. at \in 2..n + 1 /\ (at \in DOMAIN msgs <=> i \in DOMAIN w)
  BY <1>1, <1>3
<1>5. CASE i \notin DOMAIN w
  BY <1>4, <1>5 DEF UnitStart
<1>6. CASE i \in DOMAIN w
  <2>1. i \in 1..n + 1 - k /\ at \in 1..n /\ w[i] = msgs[at]
    BY <1>2, <1>3, <1>4, <1>6
  <2>2. AllUsers(w, i) <=> AllUsers(msgs, at)
    <3>1. CASE msgs[1].role = "user"
      <4>1. k = 2 /\ at = i + 1
        BY <3>1 DEF Second
      <4>2. \A j \in 1..i - 1 : w[j] = msgs[j + 1] /\ j + 1 \in 1..at - 1
        <5>1. \A j \in 1..i - 1 : j \in Nat /\ j \in 1..n + 1 - k /\ k + j - 1 = j + 1 /\ j + 1 \in 1..at - 1
          BY <1>1, <2>1, <4>1
        <5>2. QED  BY <1>2, <5>1
      <4>3. \A j \in 1..at - 1 : j # 1 => (j - 1 \in 1..i - 1 /\ w[j - 1] = msgs[j])
        <5>1. \A j \in 1..at - 1 : j # 1 => j - 1 \in 1..i - 1 /\ (j - 1) + 1 = j
          BY <1>1, <2>1, <4>1
        <5>2. QED  BY <4>2, <5>1
      <4> HIDE DEF at
      <4>4. ASSUME AllUsers(w, i) PROVE AllUsers(msgs, at)
        BY <3>1, <4>3, <4>4
      <4>5. ASSUME AllUsers(msgs, at) PROVE AllUsers(w, i)
        BY <4>2, <4>5
      <4>6. QED  BY <4>4, <4>5
    <3>2. CASE msgs[1].role # "user"
      <4>1. k <= n /\ 1 \in 1..n + 1 - k /\ k + 1 - 1 = k /\ 1 \in 1..i - 1 /\ 1 \in 1..at - 1
        BY <1>1, <2>1
      <4>2. w[1] = msgs[k] /\ msgs[k].role = "assistant"
        <5>1. w[1] = msgs[k + 1 - 1]
          BY <1>2, <4>1
        <5>2. QED  BY <3>2, <4>1, <5>1 DEF Second
      <4>3. w[1].role # "user"
        BY <4>2
      <4>4. QED  BY <3>2, <4>1, <4>3
    <3>3. QED  BY <3>1, <3>2
  <2>3. UnitStart(w, i) <=> w[i].role = "assistant" \/ AllUsers(w, i)
    BY <1>6 DEF UnitStart
  <2> HIDE DEF at
  <2>4. UnitStart(msgs, at) <=> msgs[at].role = "assistant" \/ AllUsers(msgs, at)
    BY <1>4, <1>6 DEF UnitStart
  <2> HIDE DEF AllUsers
  <2>5. UnitStart(w, i) <=> UnitStart(msgs, at)
    BY <2>1, <2>2, <2>3, <2>4
  <2>6. QED  BY <2>5 DEF at, w
<1>7. QED  BY <1>5, <1>6 DEF w

\* So what is kept does not change when the oldest unit goes first.
LEMMA KeptFromSecond ==
  \A msgs \in Seq(Message), max \in Nat, k \in Nat : Len(msgs) > max /\ max > 0 /\ Second(msgs, k) =>
    KeptFrom(msgs, max) = KeptFrom(SubSeq(msgs, k, Len(msgs)), max) + k - 1
<1> SUFFICES ASSUME NEW msgs \in Seq(Message), NEW max \in Nat, NEW k \in Nat, Len(msgs) > max, max > 0, Second(msgs, k)
             PROVE  KeptFrom(msgs, max) = KeptFrom(SubSeq(msgs, k, Len(msgs)), max) + k - 1
  OBVIOUS
<1> DEFINE n == Len(msgs)
           w == SubSeq(msgs, k, n)
           d == k - 1
<1>1. n \in Nat /\ k \in 2..n + 1 /\ k \in 1..n + 1
  BY DEF Second
<1>2. w \in Seq(Message) /\ Len(w) = n + 1 - k
  <2> HIDE DEF w, n
  <2>1. QED  BY <1>1, Suffix DEF w, n
<1>3. \A i \in Nat : i \in 2..n + 2 - k => (UnitStart(w, i) <=> UnitStart(msgs, i + k - 1))
  BY UnitsStay
<1>4. UnitStart(msgs, k) /\ \A j \in 2..k - 1 : ~UnitStart(msgs, j)
  BY DEF Second
<1> HIDE DEF w
<1>5. CASE Len(w) <= max
  <2>1. KeptFrom(w, max) = 1
    BY <1>5 DEF KeptFrom
  <2>2. n - k < max
    BY <1>1, <1>2, <1>5
  <2>3. CutsAt(msgs, max, k)
    BY <1>1, <1>4, <2>2 DEF CutsAt
  <2>4. KeptFrom(msgs, max) = k
    BY <2>3, CutsAtOnce
  <2>5. 1 + k - 1 = k
    OBVIOUS
  <2>6. QED  BY <2>1, <2>4, <2>5 DEF w
<1>6. CASE Len(w) > max
  <2> DEFINE i == KeptFrom(w, max)
             from == i + k - 1
  <2>1. CutsAt(w, max, i)
    BY <1>2, <1>6, CutsSomewhere
  <2> HIDE DEF i
  <2>2. i \in 2..n + 2 - k /\ UnitStart(w, i) /\ n + 1 - k - i < max /\ i \in Nat
    BY <1>1, <1>2, <2>1 DEF CutsAt
  <2>3. from \in 2..n + 1 /\ from \in Nat /\ n - from < max
    BY <1>1, <2>2
  <2>4. UnitStart(msgs, from)
    BY <1>3, <2>2
  <2>5. ASSUME NEW j \in 2..from - 1, UnitStart(msgs, j) PROVE n - j >= max
    <3>1. ~(j \in 2..k - 1)
      BY <1>4, <2>5
    <3>2. CASE j = k
      BY <1>1, <1>2, <1>6, <3>2
    <3>3. CASE j > k
      <4> DEFINE p == j - k + 1
      <4>1. p \in 2..i - 1 /\ p \in Nat /\ p \in 2..n + 2 - k /\ p + k - 1 = j /\ j \in Nat
        BY <1>1, <2>2, <3>3
      <4>2. UnitStart(w, p)
        <5> HIDE DEF p
        <5> QED  BY <1>3, <2>5, <4>1
      <4>3. n + 1 - k - p >= max
        <5> HIDE DEF p
        <5> QED  BY <1>2, <2>1, <4>1, <4>2 DEF CutsAt
      <4>4. QED  BY <1>1, <4>1, <4>3
    <3>4. QED  BY <1>1, <2>2, <3>1, <3>2, <3>3
  <2> HIDE DEF from
  <2>6. CutsAt(msgs, max, from)
    BY <2>3, <2>4, <2>5 DEF CutsAt
  <2>7. KeptFrom(msgs, max) = from
    BY <2>3, <2>6, CutsAtOnce
  <2>8. QED  BY <2>7 DEF from, i, w
<1>7. QED  BY <1>1, <1>2, <1>5, <1>6

\* Neither does what is trimmed.
LEMMA TrimSecond ==
  \A msgs \in Seq(Message), max \in Nat, k \in Nat : Len(msgs) > 2 * max /\ max > 0 /\ Second(msgs, k) =>
    Trim(msgs, max) = Trim(SubSeq(msgs, k, Len(msgs)), max)
<1> SUFFICES ASSUME NEW msgs \in Seq(Message), NEW max \in Nat, NEW k \in Nat, Len(msgs) > 2 * max, max > 0, Second(msgs, k)
             PROVE  Trim(msgs, max) = Trim(SubSeq(msgs, k, Len(msgs)), max)
  OBVIOUS
<1> DEFINE n == Len(msgs)
           w == SubSeq(msgs, k, n)
           from == KeptFrom(msgs, 2 * max)
           i == KeptFrom(w, 2 * max)
<1>1. n \in Nat /\ DOMAIN msgs = 1..n /\ k \in 2..n + 1 /\ k \in 1..n + 1 /\ 2 * max \in Nat /\ 2 * max > 0
  BY DEF Second
<1>2. /\ w \in Seq(Message) /\ Len(w) = n + 1 - k
      /\ \A j \in Nat : j \in 1..n + 1 - k => w[j] = msgs[k + j - 1]
  <2> HIDE DEF w, n
  <2>1. QED  BY <1>1, Suffix DEF w, n
<1>3. DOMAIN w = 1..n + 1 - k
  BY <1>2
<1>4. from = i + k - 1
  BY <1>1, KeptFromSecond
<1> HIDE DEF w, from
<1>5. i \in 1..Len(w) + 1
  BY <1>1, <1>2, KeptFromFacts
<1> HIDE DEF i
<1>6. i \in Nat /\ from \in 1..n + 1 /\ from \in Nat /\ n + 1 - from = Len(w) + 1 - i
  BY <1>1, <1>2, <1>4, <1>5
<1>7. SubSeq(w, i, Len(w)) = SubSeq(msgs, from, n)
  <2> DEFINE a == SubSeq(w, i, Len(w))
             b == SubSeq(msgs, from, n)
  <2>1. a \in Seq(Message) /\ Len(a) = n + 1 - from /\ \A j \in Nat : j \in 1..n + 1 - from => a[j] = w[i + j - 1]
    <3> HIDE DEF a
    <3> QED  BY <1>2, <1>5, <1>6, Suffix DEF a
  <2>2. b \in Seq(Message) /\ Len(b) = n + 1 - from /\ \A j \in Nat : j \in 1..n + 1 - from => b[j] = msgs[from + j - 1]
    <3> HIDE DEF b
    <3> QED  BY <1>6, Suffix DEF b
  <2>3. ASSUME NEW j \in Nat, j \in 1..n + 1 - from PROVE w[i + j - 1] = msgs[from + j - 1]
    <3>1. i + j - 1 \in Nat /\ i + j - 1 \in 1..n + 1 - k /\ k + (i + j - 1) - 1 = from + j - 1
      BY <1>1, <1>2, <1>4, <1>5, <2>3
    <3>2. w[i + j - 1] = msgs[k + (i + j - 1) - 1]
      BY <1>2, <3>1
    <3>3. QED  BY <3>1, <3>2
  <2> HIDE DEF a, b
  <2>4. \A j \in Nat : j \in 1..Len(a) => a[j] = b[j]
    BY <2>1, <2>2, <2>3
  <2>5. a = b
    BY <2>1, <2>2, <2>4, SameMessages
  <2>6. QED  BY <2>5 DEF a, b
<1>8. (from \in DOMAIN msgs <=> i \in DOMAIN w) /\ (i \in DOMAIN w => w[i] = msgs[from])
  <2>1. from \in DOMAIN msgs <=> i \in DOMAIN w
    BY <1>1, <1>3, <1>4, <1>5, <1>6
  <2>2. ASSUME i \in DOMAIN w PROVE w[i] = msgs[from]
    <3>1. w[i] = msgs[k + i - 1] /\ k + i - 1 = from
      BY <1>1, <1>2, <1>3, <1>4, <1>6, <2>2
    <3>2. QED  BY <3>1
  <2>3. QED  BY <2>1, <2>2
<1>9. max # NoLimit /\ max # 0
  BY ConversationAssumption
<1>10. Trim(msgs, max) = (IF from \in DOMAIN msgs /\ msgs[from].role = "assistant" THEN <<Human("anchor")>> ELSE <<>>)
                           \o SubSeq(msgs, from, n)
  BY <1>9 DEF Trim, from
<1>11. Trim(w, max) = (IF i \in DOMAIN w /\ w[i].role = "assistant" THEN <<Human("anchor")>> ELSE <<>>)
                        \o SubSeq(w, i, Len(w))
  BY <1>9 DEF Trim, i
<1>12. Trim(msgs, max) = Trim(w, max)
  <2> DEFINE one == IF from \in DOMAIN msgs /\ msgs[from].role = "assistant" THEN <<Human("anchor")>> ELSE <<>>
             other == IF i \in DOMAIN w /\ w[i].role = "assistant" THEN <<Human("anchor")>> ELSE <<>>
             a == SubSeq(msgs, from, n)
             b == SubSeq(w, i, Len(w))
  <2>1. one = other
    BY <1>8
  <2>2. a = b
    BY <1>7
  <2>3. Trim(msgs, max) = one \o a /\ Trim(w, max) = other \o b
    BY <1>10, <1>11
  <2> HIDE DEF one, other, a, b
  <2>4. QED  BY <2>1, <2>2, <2>3
<1>13. QED  BY <1>12 DEF w

\* A conversation within the limit only gets its first user message.
LEMMA TrimShort ==
  \A msgs \in Seq(Message), max \in Nat : Len(msgs) <= 2 * max /\ max > 0 => Trim(msgs, max) = Anchored(msgs)
<1> SUFFICES ASSUME NEW msgs \in Seq(Message), NEW max \in Nat, Len(msgs) <= 2 * max, max > 0
             PROVE  Trim(msgs, max) = Anchored(msgs)
  OBVIOUS
<1> DEFINE a == SubSeq(msgs, 1, Len(msgs))
           anchor == <<Human("anchor")>>
           none == <<>>
<1>1. max # NoLimit /\ max # 0 /\ DOMAIN msgs = 1..Len(msgs) /\ Len(msgs) \in Nat
  BY ConversationAssumption
<1>2. KeptFrom(msgs, 2 * max) = 1
  BY DEF KeptFrom
<1>3. a = msgs
  <2>1. 1 \in Nat /\ 1 \in 1..Len(msgs) + 1 /\ Len(msgs) + 1 - 1 = Len(msgs) /\ \A i \in Nat : 1 + i - 1 = i
    BY <1>1
  <2>2. a \in Seq(Message) /\ Len(a) = Len(msgs) /\ \A i \in Nat : i \in 1..Len(msgs) => a[i] = msgs[i]
    <3> HIDE DEF a
    <3>1. /\ a \in Seq(Message) /\ Len(a) = Len(msgs) + 1 - 1
          /\ \A i \in Nat : i \in 1..Len(msgs) + 1 - 1 => a[i] = msgs[1 + i - 1]
      BY <2>1, Suffix DEF a
    <3>2. QED  BY <2>1, <3>1
  <2> HIDE DEF a
  <2>3. QED  BY <2>2, SameMessages
<1>4. Trim(msgs, max) = (IF 1 \in DOMAIN msgs /\ msgs[1].role = "assistant" THEN anchor ELSE none) \o a
  BY <1>1, <1>2 DEF Trim
<1>5. (1 \in DOMAIN msgs <=> msgs # <<>>) /\ (msgs # <<>> => Head(msgs) = msgs[1])
  BY <1>1
<1>6. none \o msgs = msgs
  OBVIOUS
<1>7. Anchored(msgs) = IF 1 \in DOMAIN msgs /\ msgs[1].role = "assistant" THEN anchor \o msgs ELSE msgs
  BY <1>5 DEF Anchored
<1> HIDE DEF a, anchor, none
<1>8. QED  BY <1>3, <1>4, <1>6, <1>7

\* A conversation without its oldest unit is shorter, and trimmed alike.
LEMMA TrimLong ==
  \A msgs \in Seq(Message), max \in Nat : Len(msgs) > 2 * max /\ max > 0 =>
    /\ WithoutOldestUnit(msgs) \in Seq(Message) /\ Len(WithoutOldestUnit(msgs)) < Len(msgs)
    /\ Trim(msgs, max) = Trim(WithoutOldestUnit(msgs), max)
<1> SUFFICES ASSUME NEW msgs \in Seq(Message), NEW max \in Nat, Len(msgs) > 2 * max, max > 0
             PROVE  /\ WithoutOldestUnit(msgs) \in Seq(Message) /\ Len(WithoutOldestUnit(msgs)) < Len(msgs)
                    /\ Trim(msgs, max) = Trim(WithoutOldestUnit(msgs), max)
  OBVIOUS
<1>1. msgs # <<>> /\ Len(msgs) \in Nat
  OBVIOUS
<1>2. PICK k \in Nat : Second(msgs, k) /\ WithoutOldestUnit(msgs) = SubSeq(msgs, k, Len(msgs))
  BY <1>1, OldestUnitGone
<1>3. k \in 2..Len(msgs) + 1 /\ k \in 1..Len(msgs) + 1
  BY <1>1, <1>2 DEF Second
<1>4. SubSeq(msgs, k, Len(msgs)) \in Seq(Message) /\ Len(SubSeq(msgs, k, Len(msgs))) = Len(msgs) + 1 - k
  BY <1>3, Suffix
<1>5. Trim(msgs, max) = Trim(SubSeq(msgs, k, Len(msgs)), max)
  BY <1>2, TrimSecond
<1>6. Len(msgs) + 1 - k < Len(msgs)
  BY <1>1, <1>3
<1>7. QED  BY <1>2, <1>4, <1>5, <1>6

\* Dropping unit after unit, as the transpiled loop does, comes to the same as
\* the reference's trim.
LEMMA AddsAlike ==
  \A msgs \in Seq(Message), m \in Message, max \in LimitType : TAdd(msgs, m, max) = Add(msgs, m, max)
<1> SUFFICES ASSUME NEW msgs \in Seq(Message), NEW m \in Message, NEW max \in LimitType
             PROVE  TAdd(msgs, m, max) = Add(msgs, m, max)
  OBVIOUS
<1> DEFINE S == Seq(Message)
           trim == CHOOSE f : f = [have \in S |-> IF Len(have) > max * 2 THEN f[WithoutOldestUnit(have)] ELSE Anchored(have)]
           all == Append(msgs, m)
<1>1. all \in S
  OBVIOUS
<1>2. TAdd(msgs, m, max) = IF max = NoLimit THEN all ELSE IF max = 0 THEN <<>> ELSE trim[all]
  BY DEF TAdd
<1>3. Add(msgs, m, max) = Trim(all, max)
  BY DEF Add
<1>4. CASE max = NoLimit \/ max = 0
  BY <1>2, <1>3, <1>4 DEF Trim
<1>5. CASE max # NoLimit /\ max # 0
  <2>1. max \in Nat /\ max > 0 /\ max * 2 = 2 * max /\ 2 * max \in Nat
    BY <1>5 DEF LimitType
  <2>2. \A have \in S : Len(have) \in Nat
    OBVIOUS
  <2> DEFINE g == [have \in S |-> Trim(have, max)]
  <2>3. \A have \in S : g[have] = IF Len(have) > max * 2 THEN g[WithoutOldestUnit(have)] ELSE Anchored(have)
    <3> SUFFICES ASSUME NEW have \in S
                 PROVE  g[have] = IF Len(have) > max * 2 THEN g[WithoutOldestUnit(have)] ELSE Anchored(have)
      OBVIOUS
    <3>1. \A one \in S : g[one] = Trim(one, max)
      OBVIOUS
    <3> HIDE DEF g
    <3>2. CASE Len(have) > max * 2
      <4>1. WithoutOldestUnit(have) \in S /\ Trim(have, max) = Trim(WithoutOldestUnit(have), max)
        BY <2>1, <3>2, TrimLong
      <4> HIDE DEF S
      <4>2. QED  BY <3>1, <3>2, <4>1
    <3>3. CASE ~(Len(have) > max * 2)
      <4>1. Len(have) <= 2 * max
        BY <2>1, <2>2, <3>3
      <4>2. Trim(have, max) = Anchored(have)
        BY <2>1, <4>1, TrimShort
      <4> HIDE DEF S
      <4>3. QED  BY <3>1, <3>3, <4>2
    <3>4. QED  BY <3>2, <3>3
  <2>4. g = [have \in S |-> g[have]]
    OBVIOUS
  <2> HIDE DEF g
  <2>5. g = [have \in S |-> IF Len(have) > max * 2 THEN g[WithoutOldestUnit(have)] ELSE Anchored(have)]
    <3> HIDE DEF S, trim
    <3>1. QED  BY <2>3, <2>4
  <2>6. trim = [have \in S |-> IF Len(have) > max * 2 THEN trim[WithoutOldestUnit(have)] ELSE Anchored(have)]
    <3> HIDE DEF S
    <3>1. QED  BY <2>5
  <2>7. \A have \in S : trim[have] = IF Len(have) > max * 2 THEN trim[WithoutOldestUnit(have)] ELSE Anchored(have)
    <3> HIDE DEF trim
    <3>1. QED  BY <2>6
  <2> HIDE DEF trim
  <2> DEFINE N == {n \in Nat : \A have \in S : Len(have) <= n => trim[have] = Trim(have, max)}
  <2>8. ASSUME NEW have \in S, ~(Len(have) > max * 2) PROVE trim[have] = Trim(have, max)
    <3>1. Len(have) <= 2 * max
      BY <2>1, <2>2, <2>8
    <3>2. Trim(have, max) = Anchored(have)
      BY <2>1, <3>1, TrimShort
    <3>3. QED  BY <2>7, <2>8, <3>2
  <2>9. 0 \in N
    <3>1. \A have \in S : Len(have) <= 0 => ~(Len(have) > max * 2)
      BY <2>1, <2>2
    <3>2. QED  BY <2>8, <3>1
  <2>10. ASSUME NEW n \in N PROVE n + 1 \in N
    <3>1. SUFFICES ASSUME NEW have \in S, Len(have) <= n + 1, Len(have) > max * 2 PROVE trim[have] = Trim(have, max)
      BY <2>8
    <3>2. /\ WithoutOldestUnit(have) \in S /\ Len(WithoutOldestUnit(have)) < Len(have)
          /\ Trim(have, max) = Trim(WithoutOldestUnit(have), max)
      BY <2>1, <3>1, TrimLong
    <3>3. Len(WithoutOldestUnit(have)) <= n
      BY <2>2, <3>1, <3>2
    <3>4. trim[WithoutOldestUnit(have)] = Trim(WithoutOldestUnit(have), max)
      BY <3>2, <3>3
    <3>5. trim[have] = trim[WithoutOldestUnit(have)]
      BY <2>7, <3>1
    <3>6. QED  BY <3>2, <3>4, <3>5
  <2>11. N = Nat
    <3>1. N \in SUBSET Nat
      OBVIOUS
    <3> HIDE DEF N
    <3>2. QED  BY <2>9, <2>10, <3>1, SetInduction
  <2>12. Len(all) \in N /\ Len(all) <= Len(all)
    <3>1. Len(all) \in Nat
      BY <1>1, <2>2
    <3> HIDE DEF N, all
    <3>2. QED  BY <2>11, <3>1
  <2>13. trim[all] = Trim(all, max)
    BY <1>1, <2>12
  <2>14. QED  BY <1>2, <1>3, <1>5, <2>13
<1>6. QED  BY <1>4, <1>5

-----------------------------------------------------------------------------
(* The transpiled compaction cuts where the reference's does *)

\* Where the search ahead stops, and where the search back does.
Stops(msgs, i) == i > Len(msgs) \/ IsTurnBoundary(msgs[i])
Halts(msgs, i) == i <= 2 \/ IsTurnBoundary(msgs[i])

\* j is the first stop from i on, or the last one up to i.
FirstStop(msgs, i, j) == j \in i..Len(msgs) + 1 /\ Stops(msgs, j) /\ \A p \in i..j - 1 : ~Stops(msgs, p)
LastStop(msgs, i, j) == j \in 1..i /\ Halts(msgs, j) /\ \A p \in j + 1..i : ~Halts(msgs, p)

\* There is just one first stop.
LEMMA FirstStopFacts ==
  \A msgs \in Seq(Message), i \in Nat : i \in 1..Len(msgs) + 1 =>
    /\ \E j \in Nat : FirstStop(msgs, i, j)
    /\ \A j, k \in Nat : FirstStop(msgs, i, j) /\ FirstStop(msgs, i, k) => j = k
<1> SUFFICES ASSUME NEW msgs \in Seq(Message), NEW i \in Nat, i \in 1..Len(msgs) + 1
             PROVE  /\ \E j \in Nat : FirstStop(msgs, i, j)
                    /\ \A j, k \in Nat : FirstStop(msgs, i, j) /\ FirstStop(msgs, i, k) => j = k
  OBVIOUS
<1> DEFINE n == Len(msgs)
           T == {j \in i..n + 1 : Stops(msgs, j)}
<1>1. n \in Nat
  OBVIOUS
<1>2. T \in SUBSET Nat /\ n + 1 \in T
  BY <1>1 DEF Stops
<1>3. PICK j \in T : \A p \in T : j <= p
  <2>1. T # {}
    BY <1>2
  <2> HIDE DEF T
  <2>2. QED  BY <1>2, <2>1, SmallestExists
<1>4. \A p \in i..j - 1 : ~Stops(msgs, p)
  <2>1. SUFFICES ASSUME NEW p \in i..j - 1, Stops(msgs, p) PROVE FALSE
    OBVIOUS
  <2>2. p \in i..n + 1 /\ ~(j <= p)
    BY <1>1, <1>3
  <2>3. QED  BY <1>3, <2>1, <2>2
<1>5. FirstStop(msgs, i, j) /\ j \in Nat
  BY <1>1, <1>3, <1>4 DEF FirstStop
<1>6. ASSUME NEW k \in Nat, NEW l \in Nat, FirstStop(msgs, i, k), FirstStop(msgs, i, l) PROVE k = l
  <2>1. ~(k < l)
    <3>1. k < l => k \in i..l - 1
      BY <1>1, <1>6 DEF FirstStop
    <3>2. QED  BY <1>6, <3>1 DEF FirstStop
  <2>2. ~(l < k)
    <3>1. l < k => l \in i..k - 1
      BY <1>1, <1>6 DEF FirstStop
    <3>2. QED  BY <1>6, <3>1 DEF FirstStop
  <2>3. QED  BY <2>1, <2>2
<1>7. QED  BY <1>5, <1>6

\* A stop is its own first one; otherwise it is that of the next message.
LEMMA FirstStopStep ==
  \A msgs \in Seq(Message), i, j \in Nat : i \in 1..Len(msgs) + 1 =>
    /\ Stops(msgs, i) => FirstStop(msgs, i, i)
    /\ ~Stops(msgs, i) => i + 1 \in 1..Len(msgs) + 1 /\ (FirstStop(msgs, i + 1, j) => FirstStop(msgs, i, j))
<1> SUFFICES ASSUME NEW msgs \in Seq(Message), NEW i \in Nat, NEW j \in Nat, i \in 1..Len(msgs) + 1
             PROVE  /\ Stops(msgs, i) => FirstStop(msgs, i, i)
                    /\ ~Stops(msgs, i) => i + 1 \in 1..Len(msgs) + 1 /\ (FirstStop(msgs, i + 1, j) => FirstStop(msgs, i, j))
  OBVIOUS
<1>1. Len(msgs) \in Nat
  OBVIOUS
<1>2. ASSUME Stops(msgs, i) PROVE FirstStop(msgs, i, i)
  BY <1>1, <1>2 DEF FirstStop
<1>3. ASSUME ~Stops(msgs, i) PROVE i + 1 \in 1..Len(msgs) + 1
  BY <1>1, <1>3 DEF Stops
<1>4. ASSUME ~Stops(msgs, i), FirstStop(msgs, i + 1, j) PROVE FirstStop(msgs, i, j)
  <2>1. j \in i + 1..Len(msgs) + 1 /\ Stops(msgs, j) /\ \A p \in i + 1..j - 1 : ~Stops(msgs, p)
    BY <1>4 DEF FirstStop
  <2>2. \A p \in i..j - 1 : p = i \/ p \in i + 1..j - 1
    BY <1>1
  <2>3. j \in i..Len(msgs) + 1
    BY <1>1, <2>1
  <2>4. QED  BY <1>4, <2>1, <2>2, <2>3 DEF FirstStop
<1>5. QED  BY <1>2, <1>3, <1>4

\* There is just one last stop.
LEMMA LastStopFacts ==
  \A msgs \in Seq(Message), i \in Nat : i \in 1..Len(msgs) =>
    /\ \E j \in Nat : LastStop(msgs, i, j)
    /\ \A j, k \in Nat : LastStop(msgs, i, j) /\ LastStop(msgs, i, k) => j = k
<1> SUFFICES ASSUME NEW msgs \in Seq(Message), NEW i \in Nat, i \in 1..Len(msgs)
             PROVE  /\ \E j \in Nat : LastStop(msgs, i, j)
                    /\ \A j, k \in Nat : LastStop(msgs, i, j) /\ LastStop(msgs, i, k) => j = k
  OBVIOUS
<1> DEFINE T == {j \in 1..i : Halts(msgs, j)}
<1>1. T \in SUBSET (1..i) /\ 1 \in T
  BY DEF Halts
<1>2. PICK j \in T : \A p \in T : p <= j
  <2>1. T # {}
    BY <1>1
  <2> HIDE DEF T
  <2>2. QED  BY <1>1, <2>1, LargestExists
<1>3. \A p \in j + 1..i : ~Halts(msgs, p)
  <2>1. SUFFICES ASSUME NEW p \in j + 1..i, Halts(msgs, p) PROVE FALSE
    OBVIOUS
  <2>2. p \in 1..i /\ ~(p <= j)
    BY <1>2
  <2>3. QED  BY <1>2, <2>1, <2>2
<1>4. LastStop(msgs, i, j) /\ j \in Nat
  BY <1>2, <1>3 DEF LastStop
<1>5. ASSUME NEW k \in Nat, NEW l \in Nat, LastStop(msgs, i, k), LastStop(msgs, i, l) PROVE k = l
  <2>1. ~(k < l)
    <3>1. k < l => l \in k + 1..i
      BY <1>5 DEF LastStop
    <3>2. QED  BY <1>5, <3>1 DEF LastStop
  <2>2. ~(l < k)
    <3>1. l < k => k \in l + 1..i
      BY <1>5 DEF LastStop
    <3>2. QED  BY <1>5, <3>1 DEF LastStop
  <2>3. QED  BY <2>1, <2>2
<1>6. QED  BY <1>4, <1>5

\* A stop is its own last one; otherwise it is that of the message before.
LEMMA LastStopStep ==
  \A msgs \in Seq(Message), i, j \in Nat : i \in 1..Len(msgs) =>
    /\ Halts(msgs, i) => LastStop(msgs, i, i)
    /\ ~Halts(msgs, i) => i - 1 \in 1..Len(msgs) /\ (LastStop(msgs, i - 1, j) => LastStop(msgs, i, j))
<1> SUFFICES ASSUME NEW msgs \in Seq(Message), NEW i \in Nat, NEW j \in Nat, i \in 1..Len(msgs)
             PROVE  /\ Halts(msgs, i) => LastStop(msgs, i, i)
                    /\ ~Halts(msgs, i) => i - 1 \in 1..Len(msgs) /\ (LastStop(msgs, i - 1, j) => LastStop(msgs, i, j))
  OBVIOUS
<1>1. Len(msgs) \in Nat
  OBVIOUS
<1>2. ASSUME Halts(msgs, i) PROVE LastStop(msgs, i, i)
  BY <1>1, <1>2 DEF LastStop
<1>3. ASSUME ~Halts(msgs, i) PROVE i - 1 \in 1..Len(msgs)
  BY <1>1, <1>3 DEF Halts
<1>4. ASSUME ~Halts(msgs, i), LastStop(msgs, i - 1, j) PROVE LastStop(msgs, i, j)
  <2>1. j \in 1..i - 1 /\ Halts(msgs, j) /\ \A p \in j + 1..i - 1 : ~Halts(msgs, p)
    BY <1>4 DEF LastStop
  <2>2. \A p \in j + 1..i : p = i \/ p \in j + 1..i - 1
    BY <1>1
  <2>3. j \in 1..i
    BY <1>1, <2>1
  <2>4. QED  BY <1>4, <2>1, <2>2, <2>3 DEF LastStop
<1>5. QED  BY <1>2, <1>3, <1>4

\* The transpiled searches, as tables.
AheadIs(f, msgs) == f = [i \in 1..Len(msgs) + 1 |-> IF i > Len(msgs) \/ IsTurnBoundary(msgs[i]) THEN i ELSE f[i + 1]]
BackIs(f, msgs) == f = [i \in DOMAIN msgs |-> IF i <= 2 \/ IsTurnBoundary(msgs[i]) THEN i ELSE f[i - 1]]

\* The search ahead has a table, and finds the first stop.
LEMMA AheadFacts ==
  \A msgs \in Seq(Message) :
    /\ \E f : AheadIs(f, msgs)
    /\ \A f : AheadIs(f, msgs) => \A i \in Nat : i \in 1..Len(msgs) + 1 => FirstStop(msgs, i, f[i])
<1> SUFFICES ASSUME NEW msgs \in Seq(Message)
             PROVE  /\ \E f : AheadIs(f, msgs)
                    /\ \A f : AheadIs(f, msgs) => \A i \in Nat : i \in 1..Len(msgs) + 1 => FirstStop(msgs, i, f[i])
  OBVIOUS
<1> DEFINE n == Len(msgs)
           D == 1..n + 1
           g == [i \in D |-> CHOOSE j \in Nat : FirstStop(msgs, i, j)]
<1>1. n \in Nat /\ \A i \in D : i \in Nat
  OBVIOUS
<1>2. \A i \in D : g[i] \in Nat /\ FirstStop(msgs, i, g[i])
  <2> SUFFICES ASSUME NEW i \in D PROVE g[i] \in Nat /\ FirstStop(msgs, i, g[i])
    OBVIOUS
  <2>1. \E j \in Nat : FirstStop(msgs, i, j)
    BY <1>1, FirstStopFacts
  <2>2. g[i] = CHOOSE j \in Nat : FirstStop(msgs, i, j)
    OBVIOUS
  <2> HIDE DEF g
  <2>3. QED  BY <2>1, <2>2
<1>3. g = [i \in D |-> g[i]]
  OBVIOUS
<1> HIDE DEF g
<1>4. \A i \in D : g[i] = IF Stops(msgs, i) THEN i ELSE g[i + 1]
  <2> SUFFICES ASSUME NEW i \in D PROVE g[i] = IF Stops(msgs, i) THEN i ELSE g[i + 1]
    OBVIOUS
  <2>1. CASE Stops(msgs, i)
    <3>1. FirstStop(msgs, i, i)
      BY <1>1, <2>1, FirstStopStep
    <3>2. QED  BY <1>1, <1>2, <2>1, <3>1, FirstStopFacts
  <2>2. CASE ~Stops(msgs, i)
    <3>1. i + 1 \in D
      BY <1>1, <2>2, FirstStopStep
    <3>2. FirstStop(msgs, i, g[i + 1]) /\ g[i + 1] \in Nat
      BY <1>1, <1>2, <2>2, <3>1, FirstStopStep
    <3>3. QED  BY <1>1, <1>2, <2>2, <3>2, FirstStopFacts
  <2>3. QED  BY <2>1, <2>2
<1>5. AheadIs(g, msgs)
  <2>1. \A i \in D : Stops(msgs, i) <=> (i > Len(msgs) \/ IsTurnBoundary(msgs[i]))
    BY DEF Stops
  <2>2. \A i \in D : g[i] = IF i > Len(msgs) \/ IsTurnBoundary(msgs[i]) THEN i ELSE g[i + 1]
    BY <1>4, <2>1
  <2>3. D = 1..Len(msgs) + 1
    OBVIOUS
  <2> HIDE DEF D, n
  <2>4. g = [i \in D |-> IF i > Len(msgs) \/ IsTurnBoundary(msgs[i]) THEN i ELSE g[i + 1]]
    BY <1>3, <2>2
  <2>5. QED  BY <2>3, <2>4 DEF AheadIs
<1>6. ASSUME NEW f, AheadIs(f, msgs) PROVE \A i \in D : FirstStop(msgs, i, f[i])
  <2>1. \A i \in D : f[i] = IF Stops(msgs, i) THEN i ELSE f[i + 1]
    BY <1>6 DEF AheadIs, Stops
  <2> DEFINE N == {d \in Nat : \A i \in D : n + 1 - i <= d => FirstStop(msgs, i, f[i])}
  <2>2. 0 \in N
    <3>1. SUFFICES ASSUME NEW i \in D, n + 1 - i <= 0 PROVE FirstStop(msgs, i, f[i])
      OBVIOUS
    <3>2. Stops(msgs, i)
      BY <1>1, <3>1 DEF Stops
    <3>3. QED  BY <1>1, <2>1, <3>2, FirstStopStep
  <2>3. ASSUME NEW d \in N PROVE d + 1 \in N
    <3>1. SUFFICES ASSUME NEW i \in D, n + 1 - i <= d + 1 PROVE FirstStop(msgs, i, f[i])
      OBVIOUS
    <3>2. CASE Stops(msgs, i)
      BY <1>1, <2>1, <3>2, FirstStopStep
    <3>3. CASE ~Stops(msgs, i)
      <4>1. i + 1 \in D /\ f[i] = f[i + 1]
        BY <1>1, <2>1, <3>3, FirstStopStep
      <4>2. n + 1 - (i + 1) <= d
        BY <1>1, <3>1
      <4>3. FirstStop(msgs, i + 1, f[i + 1])
        BY <4>1, <4>2
      <4>4. f[i + 1] \in Nat
        BY <1>1, <4>1, <4>3 DEF FirstStop
      <4>5. QED  BY <1>1, <3>3, <4>1, <4>3, <4>4, FirstStopStep
    <3>4. QED  BY <3>2, <3>3
  <2>4. N = Nat
    <3>1. N \in SUBSET Nat
      OBVIOUS
    <3> HIDE DEF N
    <3>2. QED  BY <2>2, <2>3, <3>1, SetInduction
  <2>5. \A i \in D : n + 1 - i \in Nat
    BY <1>1
  <2>6. QED
    <3> SUFFICES ASSUME NEW i \in D PROVE FirstStop(msgs, i, f[i])
      OBVIOUS
    <3>1. n + 1 - i \in N /\ n + 1 - i <= n + 1 - i
      <4> HIDE DEF N
      <4>1. QED  BY <2>4, <2>5
    <3>2. QED  BY <3>1
<1>7. QED  BY <1>5, <1>6

\* The search back has one, and finds the last stop.
LEMMA BackFacts ==
  \A msgs \in Seq(Message) :
    /\ \E f : BackIs(f, msgs)
    /\ \A f : BackIs(f, msgs) => \A i \in Nat : i \in 1..Len(msgs) => LastStop(msgs, i, f[i])
<1> SUFFICES ASSUME NEW msgs \in Seq(Message)
             PROVE  /\ \E f : BackIs(f, msgs)
                    /\ \A f : BackIs(f, msgs) => \A i \in Nat : i \in 1..Len(msgs) => LastStop(msgs, i, f[i])
  OBVIOUS
<1> DEFINE n == Len(msgs)
           D == 1..n
           g == [i \in D |-> CHOOSE j \in Nat : LastStop(msgs, i, j)]
<1>1. n \in Nat /\ \A i \in D : i \in Nat
  OBVIOUS
<1>2. \A i \in D : g[i] \in Nat /\ LastStop(msgs, i, g[i])
  <2> SUFFICES ASSUME NEW i \in D PROVE g[i] \in Nat /\ LastStop(msgs, i, g[i])
    OBVIOUS
  <2>1. \E j \in Nat : LastStop(msgs, i, j)
    BY <1>1, LastStopFacts
  <2>2. g[i] = CHOOSE j \in Nat : LastStop(msgs, i, j)
    OBVIOUS
  <2> HIDE DEF g
  <2>3. QED  BY <2>1, <2>2
<1>3. g = [i \in D |-> g[i]]
  OBVIOUS
<1> HIDE DEF g
<1>4. \A i \in D : g[i] = IF Halts(msgs, i) THEN i ELSE g[i - 1]
  <2> SUFFICES ASSUME NEW i \in D PROVE g[i] = IF Halts(msgs, i) THEN i ELSE g[i - 1]
    OBVIOUS
  <2>1. CASE Halts(msgs, i)
    <3>1. LastStop(msgs, i, i)
      BY <1>1, <2>1, LastStopStep
    <3>2. QED  BY <1>1, <1>2, <2>1, <3>1, LastStopFacts
  <2>2. CASE ~Halts(msgs, i)
    <3>1. i - 1 \in D
      BY <1>1, <2>2, LastStopStep
    <3>2. LastStop(msgs, i, g[i - 1]) /\ g[i - 1] \in Nat
      BY <1>1, <1>2, <2>2, <3>1, LastStopStep
    <3>3. QED  BY <1>1, <1>2, <2>2, <3>2, LastStopFacts
  <2>3. QED  BY <2>1, <2>2
<1>5. BackIs(g, msgs)
  <2>1. \A i \in D : Halts(msgs, i) <=> (i <= 2 \/ IsTurnBoundary(msgs[i]))
    BY DEF Halts
  <2>2. \A i \in D : g[i] = IF i <= 2 \/ IsTurnBoundary(msgs[i]) THEN i ELSE g[i - 1]
    BY <1>4, <2>1
  <2>3. D = DOMAIN msgs
    OBVIOUS
  <2> HIDE DEF D, n
  <2>4. g = [i \in D |-> IF i <= 2 \/ IsTurnBoundary(msgs[i]) THEN i ELSE g[i - 1]]
    BY <1>3, <2>2
  <2>5. QED  BY <2>3, <2>4 DEF BackIs
<1>6. ASSUME NEW f, BackIs(f, msgs) PROVE \A i \in D : LastStop(msgs, i, f[i])
  <2>1. \A i \in D : f[i] = IF Halts(msgs, i) THEN i ELSE f[i - 1]
    <3>1. D = DOMAIN msgs
      OBVIOUS
    <3> HIDE DEF D
    <3>2. QED  BY <1>6, <3>1 DEF BackIs, Halts
  <2> DEFINE N == {d \in Nat : \A i \in D : i <= d => LastStop(msgs, i, f[i])}
  <2>2. 0 \in N
    BY <1>1
  <2>3. ASSUME NEW d \in N PROVE d + 1 \in N
    <3>1. SUFFICES ASSUME NEW i \in D, i <= d + 1 PROVE LastStop(msgs, i, f[i])
      OBVIOUS
    <3>2. CASE Halts(msgs, i)
      BY <1>1, <2>1, <3>2, LastStopStep
    <3>3. CASE ~Halts(msgs, i)
      <4>1. i - 1 \in D /\ f[i] = f[i - 1]
        BY <1>1, <2>1, <3>3, LastStopStep
      <4>2. i - 1 <= d
        BY <1>1, <3>1
      <4>3. LastStop(msgs, i - 1, f[i - 1])
        BY <4>1, <4>2
      <4>4. f[i - 1] \in Nat
        BY <1>1, <4>1, <4>3 DEF LastStop
      <4>5. QED  BY <1>1, <3>3, <4>1, <4>3, <4>4, LastStopStep
    <3>4. QED  BY <3>2, <3>3
  <2>4. N = Nat
    <3>1. N \in SUBSET Nat
      OBVIOUS
    <3> HIDE DEF N
    <3>2. QED  BY <2>2, <2>3, <3>1, SetInduction
  <2>5. QED
    <3> SUFFICES ASSUME NEW i \in D PROVE LastStop(msgs, i, f[i])
      OBVIOUS
    <3>1. i \in N /\ i <= i
      <4> HIDE DEF N
      <4>1. QED  BY <1>1, <2>4
    <3>2. QED  BY <3>1
<1>7. QED  BY <1>5, <1>6

\* Both editions cut at the same message.
LEMMA CutsAlike ==
  \A msgs \in Seq(Message), tail \in Nat : tail \in 2..Len(msgs) + 1 => TFindCutPoint(msgs, tail) = FindCutPoint(msgs, tail)
<1> SUFFICES ASSUME NEW msgs \in Seq(Message), NEW tail \in Nat, tail \in 2..Len(msgs) + 1
             PROVE  TFindCutPoint(msgs, tail) = FindCutPoint(msgs, tail)
  OBVIOUS
<1> DEFINE n == Len(msgs)
           top == IF tail > n THEN n ELSE tail
           ahead == CHOOSE f : f = [i \in 1..Len(msgs) + 1 |-> IF i > Len(msgs) \/ IsTurnBoundary(msgs[i]) THEN i ELSE f[i + 1]]
           back == CHOOSE f : f = [i \in DOMAIN msgs |-> IF i <= 2 \/ IsTurnBoundary(msgs[i]) THEN i ELSE f[i - 1]]
           turns == {i \in DOMAIN msgs : IsTurnBoundary(msgs[i])}
           here == {i \in turns : i >= tail}
           behind == {i \in turns : i <= tail}
           first == CHOOSE i \in here : \A j \in here : i <= j
           last == CHOOSE i \in behind : \A j \in behind : j <= i
           a == ahead[tail]
           b == back[top]
<1>1. n \in Nat /\ DOMAIN msgs = 1..n /\ n >= 1 /\ top \in 1..n /\ top \in Nat /\ tail \in 1..n + 1
  OBVIOUS
<1>2. TFindCutPoint(msgs, tail) = LET cut == IF a <= n THEN a ELSE b IN IF cut <= 2 THEN 0 ELSE cut
  BY DEF TFindCutPoint
<1>3. FindCutPoint(msgs, tail) = LET cut == IF here # {} THEN first ELSE IF behind # {} THEN last ELSE 0
                                 IN  IF cut > 2 THEN cut ELSE 0
  BY DEF FindCutPoint
<1>4. FirstStop(msgs, tail, a)
  <2>1. ahead = CHOOSE f : AheadIs(f, msgs)
    BY DEF AheadIs
  <2> HIDE DEF ahead, n
  <2>2. AheadIs(ahead, msgs)
    BY <2>1, AheadFacts
  <2>3. QED  BY <1>1, <2>2, AheadFacts DEF n
<1>5. LastStop(msgs, top, b)
  <2>1. back = CHOOSE f : BackIs(f, msgs)
    BY DEF BackIs
  <2> HIDE DEF back, top, n
  <2>2. BackIs(back, msgs)
    BY <2>1, BackFacts
  <2>3. QED  BY <1>1, <2>2, BackFacts DEF n
<1> HIDE DEF a, b, ahead, back
<1>6. a \in tail..n + 1 /\ (a <= n => IsTurnBoundary(msgs[a])) /\ \A p \in tail..a - 1 : p <= n /\ ~IsTurnBoundary(msgs[p])
  <2>1. a \in tail..n + 1 /\ Stops(msgs, a) /\ \A p \in tail..a - 1 : ~Stops(msgs, p)
    BY <1>4 DEF FirstStop
  <2>2. QED  BY <1>1, <2>1 DEF Stops
<1>7. /\ b \in 1..top /\ (b > 2 => IsTurnBoundary(msgs[b]))
      /\ \A p \in b + 1..top : p > 2 /\ ~IsTurnBoundary(msgs[p])
  <2>1. b \in 1..top /\ Halts(msgs, b) /\ \A p \in b + 1..top : ~Halts(msgs, p)
    BY <1>5 DEF LastStop
  <2>2. QED  BY <1>1, <2>1 DEF Halts
<1>8. here = {i \in 1..n : IsTurnBoundary(msgs[i]) /\ i >= tail} /\ behind = {i \in 1..n : IsTurnBoundary(msgs[i]) /\ i <= tail}
  BY <1>1
<1> HIDE DEF here, behind, turns, first, last
<1>9. CASE a <= n
  <2>1. a \in here
    BY <1>1, <1>6, <1>8, <1>9
  <2>2. \A j \in here : a <= j
    <3> SUFFICES ASSUME NEW j \in here, j < a PROVE FALSE
      BY <1>1, <1>6, <1>8
    <3>1. j \in tail..a - 1 /\ IsTurnBoundary(msgs[j])
      BY <1>1, <1>6, <1>8
    <3>2. QED  BY <1>6, <3>1
  <2>3. first = a
    <3>1. \A i, j \in here : i <= j /\ j <= i => i = j
      BY <1>8
    <3>2. first \in here /\ \A j \in here : first <= j
      BY <2>1, <2>2 DEF first
    <3>3. QED  BY <2>1, <2>2, <3>1, <3>2
  <2>4. here # {}
    BY <2>1
  <2>5. QED  BY <1>1, <1>2, <1>3, <1>6, <1>9, <2>3, <2>4
<1>10. CASE ~(a <= n)
  <2>1. here = {}
    <3> SUFFICES ASSUME NEW j \in here PROVE FALSE
      OBVIOUS
    <3>1. j \in tail..a - 1 /\ IsTurnBoundary(msgs[j])
      BY <1>1, <1>6, <1>8, <1>10
    <3>2. QED  BY <1>6, <3>1
  <2>2. \A i \in behind : i \in 1..top /\ IsTurnBoundary(msgs[i])
    BY <1>1, <1>8
  <2>3. \A i \in behind : i <= b
    <3> SUFFICES ASSUME NEW i \in behind, i > b PROVE FALSE
      BY <1>1, <1>7, <2>2
    <3>1. i \in b + 1..top
      BY <1>1, <1>7, <2>2
    <3>2. QED  BY <1>7, <2>2, <3>1
  <2>4. CASE b > 2
    <3>1. b \in behind
      BY <1>1, <1>7, <1>8, <2>4
    <3>2. last = b
      <4>1. \A i, j \in behind : i <= j /\ j <= i => i = j
        BY <1>8
      <4>2. last \in behind /\ \A j \in behind : j <= last
        BY <2>3, <3>1 DEF last
      <4>3. QED  BY <2>3, <3>1, <4>1, <4>2
    <3>3. QED  BY <1>1, <1>2, <1>3, <1>7, <1>10, <2>1, <2>4, <3>1, <3>2
  <2>5. CASE b <= 2
    <3>1. TFindCutPoint(msgs, tail) = 0
      BY <1>2, <1>10, <2>5
    <3>2. ASSUME behind # {} PROVE last <= 2
      <4>1. behind \in SUBSET (1..n)
        BY <1>8
      <4>2. \E i \in behind : \A j \in behind : j <= i
        BY <1>1, <3>2, <4>1, LargestExists
      <4>3. last \in behind
        BY <4>2 DEF last
      <4>4. last <= b /\ last \in 1..n
        BY <2>3, <4>1, <4>3
      <4>5. QED  BY <1>1, <1>7, <2>5, <4>4
    <3>3. ASSUME behind # {} PROVE last \in Nat
      <4>1. behind \in SUBSET (1..n)
        BY <1>8
      <4>2. \E i \in behind : \A j \in behind : j <= i
        BY <1>1, <3>3, <4>1, LargestExists
      <4>3. last \in behind
        BY <4>2 DEF last
      <4>4. QED  BY <1>1, <4>1, <4>3
    <3>4. QED  BY <1>3, <2>1, <3>1, <3>2, <3>3
  <2>6. QED  BY <1>1, <1>7, <2>4, <2>5
<1>11. QED  BY <1>9, <1>10

\* What the transpiled compaction puts together: the new memory, one message
\* after the other.
Table(new, max) == CHOOSE have : have = [i \in 0..Len(new) |-> IF i = 0 THEN <<>> ELSE TAdd(have[i - 1], new[i], max)]

\* Messages added one by one to an empty memory come to the same.
LEMMA AddAllAlike ==
  \A new \in Seq(Message), max \in LimitType : Table(new, max)[Len(new)] = AddAll(<<>>, new, max)
<1> SUFFICES ASSUME NEW new \in Seq(Message), NEW max \in LimitType
             PROVE  Table(new, max)[Len(new)] = AddAll(<<>>, new, max)
  OBVIOUS
<1> DEFINE n == Len(new)
           M == Seq(Message)
           none == <<>>
           trimmed == [have \in Seq(Message) |-> Trim(have, max)]
           F == [i \in 1..n |-> [have \in M |-> trimmed[Append(have, new[i])]]]
           add == CHOOSE g : g = [i \in 0..n |-> IF i = 0 THEN none ELSE trimmed[Append(g[i - 1], new[i])]]
           table == Table(new, max)
<1>1. n \in Nat /\ (\A i \in 1..n : new[i] \in Message) /\ none \in M
  OBVIOUS
<1>2. \A have \in M, m \in Message :
        /\ trimmed[Append(have, m)] = TAdd(have, m, max)
        /\ TAdd(have, m, max) \in M
  <2> TAKE have \in M, m \in Message
  <2>1. Append(have, m) \in Seq(Message)
    OBVIOUS
  <2>2. trimmed[Append(have, m)] = Trim(Append(have, m), max)
    BY <2>1
  <2>3. Add(have, m, max) \in Seq(Message)
    BY AddFacts
  <2>4. TAdd(have, m, max) = Add(have, m, max)
    BY AddsAlike
  <2>5. QED  BY <2>2, <2>3, <2>4 DEF Add
<1>3. AddAll(none, new, max) = add[n]
  BY DEF AddAll
<1>4. table = CHOOSE have : have = [i \in 0..n |-> IF i = 0 THEN none ELSE TAdd(have[i - 1], new[i], max)]
  BY DEF Table
<1> HIDE DEF trimmed, none, table
<1>5. F \in [1..n -> [M -> M]]
  BY <1>1, <1>2
<1>6. \A i \in 1..n, have \in M : F[i][have] = trimmed[Append(have, new[i])]
  OBVIOUS
<1>7. \E g \in [0..n -> M] : g[0] = none /\ \A i \in 1..n : g[i] = F[i][g[i - 1]]
  <2> HIDE DEF F, M, n, add
  <2>1. HasIteration(M, n, none, F)
    BY <1>1, <1>5, IterationExists
  <2>2. QED  BY <2>1 DEF HasIteration, Iterates
<1> HIDE DEF F
<1>8. PICK g \in [0..n -> M] : g[0] = none /\ \A i \in 1..n : g[i] = trimmed[Append(g[i - 1], new[i])]
  <2> HIDE DEF M, n, add
  <2>1. PICK g \in [0..n -> M] : g[0] = none /\ \A i \in 1..n : g[i] = F[i][g[i - 1]]
    BY <1>7
  <2>2. ASSUME NEW i \in 1..n PROVE g[i] = trimmed[Append(g[i - 1], new[i])]
    <3>1. i - 1 \in 0..n
      BY <1>1
    <3>2. g[i - 1] \in M
      BY <3>1
    <3>3. QED  BY <1>6, <2>1, <3>2
  <2>3. QED  BY <2>1, <2>2
<1>9. \A i \in 1..n : g[i] = TAdd(g[i - 1], new[i], max)
  <2> HIDE DEF M, n, add
  <2> TAKE i \in 1..n
  <2>1. i - 1 \in 0..n
    BY <1>1
  <2>2. g[i - 1] \in M /\ new[i] \in Message
    BY <1>1, <2>1
  <2>3. QED  BY <1>2, <1>8, <2>2
<1>10. g = [i \in 0..n |-> IF i = 0 THEN none ELSE trimmed[Append(g[i - 1], new[i])]]
  <2> DEFINE h == [i \in 0..n |-> IF i = 0 THEN none ELSE trimmed[Append(g[i - 1], new[i])]]
  <2> HIDE DEF n, add, M
  <2>1. ASSUME NEW i \in 0..n PROVE g[i] = h[i]
    <3>1. CASE i = 0
      BY <1>8, <3>1
    <3>2. CASE i \in 1..n
      <4>1. i # 0
        BY <1>1, <3>2
      <4>2. h[i] = trimmed[Append(g[i - 1], new[i])]
        BY <4>1
      <4>3. QED  BY <1>8, <3>2, <4>2
    <3>3. QED  BY <1>1, <3>1, <3>2
  <2>2. g = h
    BY <2>1
  <2>3. QED  BY <2>2
<1>11. g = [i \in 0..n |-> IF i = 0 THEN none ELSE TAdd(g[i - 1], new[i], max)]
  <2> DEFINE h == [i \in 0..n |-> IF i = 0 THEN none ELSE TAdd(g[i - 1], new[i], max)]
  <2> HIDE DEF n, add, M
  <2>1. ASSUME NEW i \in 0..n PROVE g[i] = h[i]
    <3>1. CASE i = 0
      BY <1>8, <3>1
    <3>2. CASE i \in 1..n
      <4>1. i # 0
        BY <1>1, <3>2
      <4>2. h[i] = TAdd(g[i - 1], new[i], max)
        BY <4>1
      <4>3. QED  BY <1>9, <3>2, <4>2
    <3>3. QED  BY <1>1, <3>1, <3>2
  <2>2. g = h
    BY <2>1
  <2>3. QED  BY <2>2
<1>12. add = [i \in 0..n |-> IF i = 0 THEN none ELSE trimmed[Append(add[i - 1], new[i])]]
  BY <1>10
<1>13. table = [i \in 0..n |-> IF i = 0 THEN none ELSE TAdd(table[i - 1], new[i], max)]
  BY <1>4, <1>11
<1> HIDE DEF add
<1>14. add[0] = none /\ \A i \in 1..n : add[i] = trimmed[Append(add[i - 1], new[i])]
  <2> HIDE DEF n
  <2>1. ASSUME NEW i \in 1..n PROVE i \in 0..n /\ i # 0
    BY <1>1
  <2>2. 0 \in 0..n
    BY <1>1
  <2>3. QED  BY <1>12, <2>1, <2>2
<1>15. table[0] = none /\ \A i \in 1..n : table[i] = TAdd(table[i - 1], new[i], max)
  <2> HIDE DEF n
  <2>1. ASSUME NEW i \in 1..n PROVE i \in 0..n /\ i # 0
    BY <1>1
  <2>2. 0 \in 0..n
    BY <1>1
  <2>3. QED  BY <1>13, <2>1, <2>2
<1> DEFINE S == {i \in Nat : i <= n => add[i] \in M /\ table[i] = add[i]}
<1>16. 0 \in S
  BY <1>1, <1>14, <1>15
<1>17. ASSUME NEW i \in S PROVE i + 1 \in S
  <2>1. SUFFICES ASSUME i + 1 <= n PROVE add[i + 1] \in M /\ table[i + 1] = add[i + 1]
    OBVIOUS
  <2> DEFINE k == i + 1
             have == add[i]
             m == new[k]
  <2>2. i \in Nat /\ k \in 1..n /\ k - 1 = i /\ have \in M /\ table[i] = have /\ m \in Message
    BY <1>1, <2>1
  <2> HIDE DEF k, n, M
  <2>3. add[k] = trimmed[Append(have, m)] /\ table[k] = TAdd(have, m, max)
    BY <1>14, <1>15, <2>2
  <2> HIDE DEF have, m
  <2>4. add[k] = TAdd(have, m, max) /\ TAdd(have, m, max) \in M
    BY <1>2, <2>2, <2>3
  <2>5. QED  BY <2>3, <2>4 DEF k
<1>18. S = Nat
  <2>1. S \in SUBSET Nat
    OBVIOUS
  <2> HIDE DEF S
  <2>2. QED  BY <1>16, <1>17, <2>1, SetInduction
<1>19. table[n] = add[n]
  <2>1. n \in S /\ n <= n
    BY <1>1, <1>18
  <2> HIDE DEF n, M
  <2>2. QED  BY <2>1
<1>20. QED  BY <1>3, <1>19 DEF table, none

\* Both editions compact to the same.
LEMMA CompactsAlike ==
  \A msgs \in Seq(Message), tail \in Nat, max \in LimitType :
    tail \in 2..Len(msgs) + 1 => TCompact(msgs, tail, max) = Compact(msgs, tail, max)
<1> SUFFICES ASSUME NEW msgs \in Seq(Message), NEW tail \in Nat, NEW max \in LimitType, tail \in 2..Len(msgs) + 1
             PROVE  TCompact(msgs, tail, max) = Compact(msgs, tail, max)
  OBVIOUS
<1> DEFINE cut == FindCutPoint(msgs, tail)
           rest == SubSeq(msgs, cut, Len(msgs))
           summary == <<Human("summary")>>
           new == summary \o rest
<1>1. TFindCutPoint(msgs, tail) = cut
  BY CutsAlike
<1>2. TCompact(msgs, tail, max) = IF cut = 0 THEN <<>> ELSE Table(new, max)[Len(new)]
  BY <1>1 DEF TCompact, Table
<1>3. Compact(msgs, tail, max) = IF cut = 0 THEN <<>> ELSE AddAll(<<>>, new, max)
  BY DEF Compact
<1>4. ASSUME cut # 0 PROVE new \in Seq(Message)
  <2>1. cut \in 1..Len(msgs) /\ Len(msgs) \in Nat
    BY <1>4, FindCutPointFacts
  <2> HIDE DEF cut
  <2>2. rest \in Seq(Message)
    BY <2>1
  <2>3. summary \in Seq(Message)
    BY DEF Human, Message, Texts
  <2> HIDE DEF rest, summary
  <2>4. QED  BY <2>2, <2>3
<1> HIDE DEF cut, new
<1>5. CASE cut = 0
  BY <1>2, <1>3, <1>5
<1>6. CASE cut # 0
  <2>1. Table(new, max)[Len(new)] = AddAll(<<>>, new, max)
    BY <1>4, <1>6, AddAllAlike
  <2>2. QED  BY <1>2, <1>3, <1>6, <2>1
<1>7. QED  BY <1>5, <1>6

-----------------------------------------------------------------------------
(* The loop: types, the memory's bound and the open calls *)

Call == [id : CallIds, key : Keys]
Pcs  == {"idle", "compact", "turn", "request", "recover", "batch", "tool"}
Fits(msgs, max) == max # NoLimit => Len(msgs) <= 2 * max + 1

AgentType ==
  /\ limit \in LimitType
  /\ memory \in Seq(Message)
  /\ Fits(memory, limit)
  /\ steering \in Seq(Texts) /\ followUps \in Seq(Texts)
  /\ pc \in Pcs
  /\ todo \in Seq(Call)
  /\ pc = "tool" => todo # <<>>
  /\ seen \in [Keys -> Nat] /\ executed \in [Keys -> Nat] /\ corrected \subseteq Keys

\* A run is on, or the last one did not leave a batch half done.
Orderly == pc # "idle" \/ outcome \notin {"loop", "dropped"}

Waiting(c) == pc \in {"batch", "tool"} /\ \E i \in 1..Len(todo) : todo[i].id = c

\* Each open call waits for its turn in the batch, or is one of those in old.
OpenAccounted(old) == Orderly => \A c : Open(memory, c) => c \in old \/ Waiting(c)

\* All that a step does but starting a run.
LoopStep == Run \/ Steer \/ FollowUp \/ Cancel \/ DropRun

IdsOf(calls) == [i \in DOMAIN calls |-> calls[i].id]

\* The ids of the calls that wait.
LEMMA IdsOfFacts ==
  ASSUME NEW calls \in Seq(Call)
  PROVE  /\ IdsOf(calls) \in Seq(CallIds)
         /\ ToSet(IdsOf(calls)) = {calls[i].id : i \in 1..Len(calls)}
<1>1. DOMAIN calls = 1..Len(calls) /\ Len(calls) \in Nat /\ \A i \in 1..Len(calls) : calls[i] \in Call
  OBVIOUS
<1>2. \A i \in 1..Len(calls) : calls[i].id \in CallIds
  BY <1>1 DEF Call
<1>3. IdsOf(calls) = [i \in 1..Len(calls) |-> calls[i].id]
  BY <1>1 DEF IdsOf
<1>4. IdsOf(calls) \in Seq(CallIds)
  BY <1>1, <1>2, <1>3
<1>5. DOMAIN IdsOf(calls) = 1..Len(calls) /\ \A i \in 1..Len(calls) : IdsOf(calls)[i] = calls[i].id
  BY <1>3
<1>6. QED  BY <1>4, <1>5 DEF ToSet

\* A cancelled run answers what waits.
LEMMA CancelledFacts ==
  ASSUME AgentType, pc # "idle", Cancelled, NEW old, OpenAccounted(old)
  PROVE  /\ memory' \in Seq(Message) /\ Fits(memory', limit)
         /\ \A c : Open(memory', c) => c \in old
         /\ pc' = "idle" /\ steering' = <<>> /\ todo' = <<>>
<1> DEFINE ids == IdsOf(todo)
<1>1. limit \in LimitType /\ memory \in Seq(Message) /\ Fits(memory, limit) /\ todo \in Seq(Call)
  BY DEF AgentType
<1>2. ids \in Seq(CallIds) /\ ToSet(ids) = {todo[i].id : i \in 1..Len(todo)}
  BY <1>1, IdsOfFacts
<1>3. [i \in DOMAIN todo |-> ToolResult(todo[i].id)] = Results(ids)
  BY DEF Results, IdsOf
<1>4. memory' = AddResults(memory, ids, limit)
  BY <1>3 DEF Cancelled, AddResults
<1> HIDE DEF ids
<1>5. /\ memory' \in Seq(Message)
      /\ (limit # NoLimit /\ Len(memory) <= 2 * limit + 1) => Len(memory') <= 2 * limit + 1
      /\ \A c : Open(memory', c) => Open(memory, c) /\ c \notin ToSet(ids)
  BY <1>1, <1>2, <1>4, ResultsAnswer
<1>6. ASSUME NEW c, Open(memory', c) PROVE c \in old
  <2>1. Open(memory, c) /\ c \notin ToSet(ids)
    BY <1>5, <1>6
  <2>2. c \in old \/ Waiting(c)
    BY <2>1 DEF OpenAccounted, Orderly
  <2>3. ~Waiting(c)
    BY <1>2, <2>1 DEF Waiting
  <2>4. QED  BY <2>2, <2>3
<1>7. QED  BY <1>1, <1>5, <1>6 DEF Fits, Cancelled, Leave

\* A step to a state where nothing waits and what is open was open before.
LEMMA SettledKeeps ==
  ASSUME AgentType, limit' = limit, memory' \in Seq(Message), Fits(memory', limit),
         steering' \in Seq(Texts), followUps' \in Seq(Texts),
         pc' \in Pcs \ {"batch", "tool"}, todo' \in Seq(Call), UNCHANGED guardVars,
         NEW old, Orderly' => \A c : Open(memory', c) => c \in old
  PROVE  AgentType' /\ OpenAccounted(old)'
<1>1. AgentType'
  BY DEF AgentType, Pcs, guardVars
<1>2. OpenAccounted(old)'
  BY DEF OpenAccounted
<1>3. QED  BY <1>1, <1>2

\* run_inner is called on a memory in which only old calls are open.
LEMMA StartOnKeeps ==
  ASSUME AgentType, NEW start, start \in Seq(Message), Fits(start, limit),
         StartOn(start), NEW old, \A c : Open(start, c) => c \in old
  PROVE  AgentType' /\ OpenAccounted(old)'
<1>1. /\ limit' = limit /\ memory' = start /\ steering' = steering /\ followUps' = followUps
      /\ pc' = "compact" /\ todo' = <<>> /\ corrected' = {}
      /\ seen' = [k \in Keys |-> 0] /\ executed' = [k \in Keys |-> 0]
  BY DEF StartOn
<1>2. AgentType'
  <2>1. seen' \in [Keys -> Nat] /\ executed' \in [Keys -> Nat] /\ corrected' \subseteq Keys
    BY <1>1
  <2>2. todo' \in Seq(Call) /\ pc' \in Pcs
    BY <1>1 DEF Pcs
  <2>3. QED  BY <1>1, <2>1, <2>2 DEF AgentType
<1>3. OpenAccounted(old)'
  BY <1>1 DEF OpenAccounted
<1>4. QED  BY <1>2, <1>3

\* The memory is compacted or left alone, then the task is added.
LEMMA PrepareKeeps ==
  ASSUME AgentType, Prepare, NEW old, OpenAccounted(old)
  PROVE  AgentType' /\ OpenAccounted(old)'
<1> DEFINE task == Human("task")
<1>1. limit \in LimitType /\ memory \in Seq(Message) /\ pc = "compact"
  BY DEF AgentType, Prepare
<1>2. PICK start \in {memory} \cup Compactions(memory, limit) : memory' = Add(start, task, limit)
  BY DEF Prepare
<1>3. start \in Seq(Message) /\ \A c : Open(start, c) => Open(memory, c)
  <2>1. CASE start = memory
    BY <1>1, <2>1
  <2>2. CASE start \in Compactions(memory, limit)
    BY <1>1, <2>2, CompactionFacts
  <2>3. QED  BY <1>2, <2>1, <2>2
<1>4. task \in Message /\ task.uses = <<>>
  BY DEF Human, Message, Texts
<1> HIDE DEF task
<1>5. /\ memory' \in Seq(Message)
      /\ limit # NoLimit => Len(memory') <= 2 * limit + 1
      /\ \A c : Open(memory', c) => c \in ToSet(task.uses) \/ Open(start, c)
  BY <1>1, <1>2, <1>3, <1>4, AddFacts
<1>6. ToSet(task.uses) = {}
  BY <1>4 DEF ToSet
<1>7. ASSUME NEW c, Open(memory', c) PROVE c \in old
  <2>1. Open(memory, c)
    BY <1>3, <1>5, <1>6, <1>7
  <2>2. c \in old \/ Waiting(c)
    BY <1>1, <2>1 DEF OpenAccounted, Orderly
  <2>3. QED  BY <1>1, <2>2 DEF Waiting
<1>8. /\ limit' = limit /\ steering' = steering /\ followUps' = followUps /\ todo' = todo
      /\ pc' = "turn" /\ UNCHANGED guardVars
  BY DEF Prepare, hostVars
<1>9. /\ Fits(memory', limit) /\ pc' \in Pcs \ {"batch", "tool"}
      /\ steering' \in Seq(Texts) /\ followUps' \in Seq(Texts) /\ todo' \in Seq(Call)
  BY <1>5, <1>8 DEF Fits, Pcs, AgentType
<1>10. QED  BY <1>5, <1>7, <1>8, <1>9, SettledKeeps

\* The top of the loop: the turn cap, the cancellation, the steering poll.
LEMMA BeginTurnKeeps ==
  ASSUME AgentType, BeginTurn, NEW old, OpenAccounted(old)
  PROVE  AgentType' /\ OpenAccounted(old)'
<1>1. /\ limit \in LimitType /\ memory \in Seq(Message) /\ Fits(memory, limit) /\ pc = "turn"
      /\ steering \in Seq(Texts) /\ followUps \in Seq(Texts) /\ todo \in Seq(Call)
  BY DEF AgentType, BeginTurn
<1>2. limit' = limit /\ followUps' = followUps /\ UNCHANGED guardVars
  BY DEF BeginTurn
<1>3. \A c : Open(memory, c) => c \in old
  BY <1>1 DEF OpenAccounted, Orderly, Waiting
<1>4. CASE Leave("max") /\ UNCHANGED <<memory, steering, turn, todo, owed>>
  <2>1. /\ memory' = memory /\ steering' = steering /\ todo' = todo /\ pc' = "idle"
    BY <1>4 DEF Leave
  <2>2. pc' \in Pcs \ {"batch", "tool"}
    BY <2>1 DEF Pcs
  <2>3. \A c : Open(memory', c) => c \in old
    BY <1>3, <2>1
  <2>4. QED  BY <1>1, <1>2, <2>1, <2>2, <2>3, SettledKeeps
<1>5. CASE Cancelled
  <2>1. /\ memory' \in Seq(Message) /\ Fits(memory', limit)
        /\ \A c : Open(memory', c) => c \in old
        /\ pc' = "idle" /\ steering' = <<>> /\ todo' = <<>>
    BY <1>1, <1>5, CancelledFacts
  <2>2. pc' \in Pcs \ {"batch", "tool"} /\ steering' \in Seq(Texts) /\ todo' \in Seq(Call)
    BY <2>1 DEF Pcs
  <2>3. QED  BY <1>1, <1>2, <2>1, <2>2, SettledKeeps
<1>6. CASE /\ memory' = AddAll(memory, HumanAll(steering), limit)
           /\ steering' = <<>>
           /\ pc' = "request"
           /\ UNCHANGED <<todo, outcome>>
  <2>1. memory' = AddHumans(memory, steering, limit)
    BY <1>6 DEF AddHumans
  <2>2. /\ memory' \in Seq(Message)
        /\ (limit # NoLimit /\ Len(memory) <= 2 * limit + 1) => Len(memory') <= 2 * limit + 1
        /\ \A c : Open(memory', c) => Open(memory, c)
    BY <1>1, <2>1, HumansOpenNothing
  <2>3. Fits(memory', limit) /\ \A c : Open(memory', c) => c \in old
    BY <1>1, <1>3, <2>2 DEF Fits
  <2>4. pc' \in Pcs \ {"batch", "tool"} /\ steering' \in Seq(Texts) /\ todo' \in Seq(Call)
    BY <1>1, <1>6 DEF Pcs
  <2>5. QED  BY <1>1, <1>2, <2>2, <2>3, <2>4, SettledKeeps
<1>7. QED  BY <1>4, <1>5, <1>6 DEF BeginTurn

\* The failed request ends the run or goes to the compaction.
LEMMA RequestFailsKeeps ==
  ASSUME AgentType, NEW overflow \in BOOLEAN, RequestFails(overflow), NEW old, OpenAccounted(old)
  PROVE  AgentType' /\ OpenAccounted(old)'
<1>1. /\ limit \in LimitType /\ memory \in Seq(Message) /\ Fits(memory, limit) /\ pc = "request"
      /\ steering \in Seq(Texts) /\ followUps \in Seq(Texts) /\ todo \in Seq(Call)
  BY DEF AgentType, RequestFails
<1>2. \A c : Open(memory, c) => c \in old
  BY <1>1 DEF OpenAccounted, Orderly, Waiting
<1>3. /\ limit' = limit /\ memory' = memory /\ steering' = steering /\ followUps' = followUps
      /\ todo' = todo /\ UNCHANGED guardVars /\ pc' \in {"recover", "idle"}
  BY DEF RequestFails, hostVars, Leave
<1>4. pc' \in Pcs \ {"batch", "tool"}
  BY <1>3 DEF Pcs
<1>5. Orderly' => \A c : Open(memory', c) => c \in old
  BY <1>2, <1>3
<1>6. QED  BY <1>1, <1>3, <1>4, <1>5, SettledKeeps

\* The memory is compacted after a context overflow, or the run fails.
LEMMA RecoverKeeps ==
  ASSUME AgentType, Recover, NEW old, OpenAccounted(old)
  PROVE  AgentType' /\ OpenAccounted(old)'
<1>1. /\ limit \in LimitType /\ memory \in Seq(Message) /\ Fits(memory, limit) /\ pc = "recover"
      /\ steering \in Seq(Texts) /\ followUps \in Seq(Texts) /\ todo \in Seq(Call)
  BY DEF AgentType, Recover
<1>2. \A c : Open(memory, c) => c \in old
  BY <1>1 DEF OpenAccounted, Orderly, Waiting
<1>3. /\ limit' = limit /\ steering' = steering /\ followUps' = followUps
      /\ todo' = todo /\ UNCHANGED guardVars /\ pc' \in {"request", "idle"}
      /\ memory' = memory \/ memory' \in Compactions(memory, limit)
  BY DEF Recover, hostVars, Leave
<1>4. pc' \in Pcs \ {"batch", "tool"}
  BY <1>3 DEF Pcs
<1>5. memory' \in Seq(Message) /\ Fits(memory', limit) /\ \A c : Open(memory', c) => c \in old
  <2>1. CASE memory' = memory
    BY <1>1, <1>2, <2>1
  <2>2. CASE memory' \in Compactions(memory, limit)
    <3>1. /\ memory' \in Seq(Message)
          /\ limit # NoLimit => Len(memory') <= 2 * limit + 1
          /\ \A c : Open(memory', c) => Open(memory, c)
      BY <1>1, <2>2, CompactionFacts
    <3>2. QED  BY <1>2, <3>1 DEF Fits
  <2>3. QED  BY <1>3, <2>1, <2>2
<1>6. QED  BY <1>1, <1>3, <1>4, <1>5, SettledKeeps

\* The ids of a new batch.
LEMMA FreshFacts ==
  ASSUME NEW n \in Nat, Unused(n) # {}
  PROVE  Fresh(n) \in Seq(CallIds) /\ Len(Fresh(n)) = n
<1> DEFINE base == CHOOSE b \in Unused(n) : TRUE
<1>1. base \in Unused(n)
  OBVIOUS
<1>2. base \in Nat /\ \A i \in 0..n - 1 : base + i \in CallIds
  BY <1>1, ConversationAssumption DEF Unused
<1>3. Fresh(n) = [i \in 1..n |-> base + i - 1]
  BY DEF Fresh
<1> HIDE DEF base
<1>4. \A i \in 1..n : base + i - 1 \in CallIds
  <2> TAKE i \in 1..n
  <2>1. i - 1 \in 0..n - 1 /\ base + (i - 1) = base + i - 1
    BY <1>2
  <2>2. base + (i - 1) \in CallIds
    BY <1>2, <2>1
  <2>3. QED  BY <2>1, <2>2
<1>5. QED  BY <1>3, <1>4

\* A response with tool calls: its calls are new and become the open ones.
LEMMA WantsToolsKeeps ==
  ASSUME AgentType, NEW keys \in Batches, WantsTools(keys), NEW old, OpenAccounted(old)
  PROVE  AgentType' /\ OpenAccounted(old)'
<1> DEFINE n == Len(keys)
           ids == Fresh(n)
           use == ToolUses(ids)
<1>1. /\ limit \in LimitType /\ memory \in Seq(Message) /\ Fits(memory, limit) /\ pc = "request"
      /\ steering \in Seq(Texts) /\ followUps \in Seq(Texts) /\ todo \in Seq(Call)
  BY DEF AgentType, WantsTools
<1>2. limit' = limit /\ followUps' = followUps /\ UNCHANGED guardVars
  BY DEF WantsTools
<1>3. CASE Cancelled
  <2>1. /\ memory' \in Seq(Message) /\ Fits(memory', limit)
        /\ \A c : Open(memory', c) => c \in old
        /\ pc' = "idle" /\ steering' = <<>> /\ todo' = <<>>
    BY <1>1, <1>3, CancelledFacts
  <2>2. pc' \in Pcs \ {"batch", "tool"} /\ steering' \in Seq(Texts) /\ todo' \in Seq(Call)
    BY <2>1 DEF Pcs
  <2>3. QED  BY <1>1, <1>2, <2>1, <2>2, SettledKeeps
<1>4. CASE /\ memory' = Add(memory, use, limit)
           /\ todo' = [i \in DOMAIN keys |-> [id |-> ids[i], key |-> keys[i]]]
           /\ pc' = "batch"
           /\ UNCHANGED <<steering, outcome>>
  <2>1. keys \in Seq(Keys) /\ n \in Nat /\ DOMAIN keys = 1..n /\ \A i \in 1..n : keys[i] \in Keys
    BY AgentAssumption
  <2>2. ids \in Seq(CallIds) /\ Len(ids) = n
    <3>1. Unused(n) # {}
      BY DEF WantsTools
    <3> HIDE DEF n
    <3>2. QED  BY <2>1, <3>1, FreshFacts
  <2> HIDE DEF n, ids
  <2>3. use \in Message /\ use.uses = ids
    BY <2>2 DEF ToolUses, Message, Texts
  <2>4. todo' \in Seq(Call) /\ Len(todo') = n /\ \A i \in 1..n : todo'[i].id = ids[i]
    <3>1. \A i \in 1..n : [id |-> ids[i], key |-> keys[i]] \in Call
      BY <2>1, <2>2 DEF Call
    <3>2. todo' = [i \in 1..n |-> [id |-> ids[i], key |-> keys[i]]]
      BY <1>4, <2>1
    <3>3. todo' \in Seq(Call) /\ Len(todo') = n
      BY <2>1, <3>1, <3>2
    <3>4. QED  BY <3>2, <3>3
  <2> HIDE DEF use
  <2>5. /\ memory' \in Seq(Message)
        /\ limit # NoLimit => Len(memory') <= 2 * limit + 1
        /\ \A c : Open(memory', c) =>
             \/ c \in ToSet(use.uses)
             \/ use.uses = <<>> /\ use.answers # c /\ Open(memory, c)
    BY <1>1, <1>4, <2>3, AddFacts
  <2>6. AgentType'
    BY <1>1, <1>2, <1>4, <2>4, <2>5 DEF AgentType, Pcs, Fits, guardVars
  <2>7. ASSUME NEW c, Open(memory', c) PROVE c \in old \/ Waiting(c)'
    <3>1. CASE c \in ToSet(ids)
      <4>1. PICK i \in 1..n : ids[i] = c
        BY <2>2, <3>1 DEF ToSet
      <4>2. QED  BY <1>4, <2>4, <4>1 DEF Waiting
    <3>2. CASE Open(memory, c)
      BY <1>1, <3>2 DEF OpenAccounted, Orderly, Waiting
    <3>3. QED  BY <2>3, <2>5, <2>7, <3>1, <3>2
  <2>8. QED  BY <2>6, <2>7 DEF OpenAccounted
<1>5. QED  BY <1>3, <1>4 DEF WantsTools

\* The answer and the follow-ups are added: no call is opened.
LEMMA AnswersKeeps ==
  ASSUME AgentType, Answers, NEW old, OpenAccounted(old)
  PROVE  AgentType' /\ OpenAccounted(old)'
<1>1. /\ limit \in LimitType /\ memory \in Seq(Message) /\ Fits(memory, limit) /\ pc = "request"
      /\ steering \in Seq(Texts) /\ followUps \in Seq(Texts) /\ todo \in Seq(Call)
  BY DEF AgentType, Answers
<1>2. limit' = limit /\ UNCHANGED guardVars
  BY DEF Answers
<1>3. CASE Cancelled /\ UNCHANGED followUps
  <2>1. /\ memory' \in Seq(Message) /\ Fits(memory', limit)
        /\ \A c : Open(memory', c) => c \in old
        /\ pc' = "idle" /\ steering' = <<>> /\ todo' = <<>>
    BY <1>1, <1>3, CancelledFacts
  <2>2. pc' \in Pcs \ {"batch", "tool"} /\ steering' \in Seq(Texts) /\ todo' \in Seq(Call)
    BY <2>1 DEF Pcs
  <2>3. QED  BY <1>1, <1>2, <1>3, <2>1, <2>2, SettledKeeps
<1>4. CASE /\ memory' = AddAll(Add(memory, Answer, limit), HumanAll(followUps), limit)
           /\ followUps' = <<>>
           /\ IF followUps # <<>> THEN pc' = "turn" /\ UNCHANGED outcome ELSE Leave("done")
           /\ UNCHANGED <<steering, todo>>
  <2> DEFINE answered == Add(memory, Answer, limit)
  <2>1. Answer \in Message /\ ToSet(Answer.uses) = {}
    BY DEF Answer, Message, Texts, ToSet
  <2>2. /\ answered \in Seq(Message)
        /\ limit # NoLimit => Len(answered) <= 2 * limit + 1
        /\ \A c : Open(answered, c) => Open(memory, c)
    BY <1>1, <2>1, AddFacts
  <2>3. memory' = AddHumans(answered, followUps, limit)
    BY <1>4 DEF AddHumans
  <2> HIDE DEF answered
  <2>4. /\ memory' \in Seq(Message)
        /\ (limit # NoLimit /\ Len(answered) <= 2 * limit + 1) => Len(memory') <= 2 * limit + 1
        /\ \A c : Open(memory', c) => Open(answered, c)
    BY <1>1, <2>2, <2>3, HumansOpenNothing
  <2>5. Fits(memory', limit)
    BY <2>2, <2>4 DEF Fits
  <2>6. \A c : Open(memory', c) => c \in old
    <3>1. \A c : Open(memory, c) => c \in old
      BY <1>1 DEF OpenAccounted, Orderly, Waiting
    <3>2. QED  BY <2>2, <2>4, <3>1
  <2>7. pc' \in Pcs \ {"batch", "tool"} /\ steering' \in Seq(Texts) /\ followUps' \in Seq(Texts) /\ todo' \in Seq(Call)
    BY <1>1, <1>4 DEF Pcs, Leave
  <2>8. QED  BY <1>1, <1>2, <2>4, <2>5, <2>6, <2>7, SettledKeeps
<1>5. QED  BY <1>3, <1>4 DEF Answers

\* Behind a batch whose calls are all answered the loop turns.
LEMMA BatchDoneKeeps ==
  ASSUME AgentType, BatchDone, NEW old, OpenAccounted(old)
  PROVE  AgentType' /\ OpenAccounted(old)'
<1>1. /\ limit \in LimitType /\ memory \in Seq(Message) /\ Fits(memory, limit) /\ pc = "batch" /\ todo = <<>>
      /\ steering \in Seq(Texts) /\ followUps \in Seq(Texts) /\ todo \in Seq(Call)
  BY DEF AgentType, BatchDone
<1>2. \A c : Open(memory, c) => c \in old
  <2>1. \A c : ~Waiting(c)
    BY <1>1 DEF Waiting
  <2>2. QED  BY <1>1, <2>1 DEF OpenAccounted, Orderly
<1>3. /\ limit' = limit /\ memory' = memory /\ steering' = steering /\ followUps' = followUps
      /\ todo' = todo /\ UNCHANGED guardVars /\ pc' = "turn"
  BY DEF BatchDone, hostVars
<1>4. pc' \in Pcs \ {"batch", "tool"} /\ \A c : Open(memory', c) => c \in old
  BY <1>2, <1>3 DEF Pcs
<1>5. QED  BY <1>1, <1>3, <1>4, SettledKeeps

\* A cancelled batch leaves its open calls to the repair of the next run.
LEMMA BatchCancelledKeeps ==
  ASSUME AgentType, BatchCancelled, NEW old, OpenAccounted(old)
  PROVE  AgentType' /\ OpenAccounted(old)'
<1>1. /\ limit \in LimitType /\ pc = "batch" /\ followUps \in Seq(Texts)
  BY DEF AgentType, BatchCancelled
<1>2. limit' = limit /\ followUps' = followUps /\ UNCHANGED guardVars /\ Cancelled
  BY DEF BatchCancelled
<1>3. /\ memory' \in Seq(Message) /\ Fits(memory', limit)
      /\ \A c : Open(memory', c) => c \in old
      /\ pc' = "idle" /\ steering' = <<>> /\ todo' = <<>>
  BY <1>1, <1>2, CancelledFacts
<1>4. pc' \in Pcs \ {"batch", "tool"} /\ steering' \in Seq(Texts) /\ todo' \in Seq(Call)
  BY <1>3 DEF Pcs
<1>5. QED  BY <1>1, <1>2, <1>3, <1>4, SettledKeeps

\* The head of the batch gets its result.
LEMMA AnsweredFacts ==
  ASSUME AgentType, todo # <<>>, Answered, pc \in {"batch", "tool"}, NEW old, OpenAccounted(old)
  PROVE  /\ memory' \in Seq(Message) /\ Fits(memory', limit)
         /\ todo' \in Seq(Call)
         /\ Head(todo).key \in Keys
         /\ \A c : Open(memory', c) => c \in old \/ \E i \in 1..Len(todo') : todo'[i].id = c
<1> DEFINE id == Head(todo).id
           result == ToolResult(id)
<1>1. limit \in LimitType /\ memory \in Seq(Message) /\ todo \in Seq(Call)
  BY DEF AgentType
<1>2. /\ Head(todo) \in Call /\ Head(todo) = todo[1] /\ todo' = Tail(todo) /\ todo' \in Seq(Call)
      /\ Len(todo) \in Nat /\ Len(todo') = Len(todo) - 1 /\ \A i \in 1..Len(todo') : todo'[i] = todo[i + 1]
  BY <1>1 DEF Answered
<1>3. id \in CallIds /\ Head(todo).key \in Keys
  BY <1>2 DEF Call
<1>4. memory' = Add(memory, result, limit)
  BY DEF Answered
<1>5. id = todo[1].id
  BY <1>2
<1> HIDE DEF id
<1>6. result \in Message /\ result.uses = <<>> /\ result.answers = id
  BY <1>3 DEF ToolResult, Message, Texts
<1> HIDE DEF result
<1>7. /\ memory' \in Seq(Message)
      /\ limit # NoLimit => Len(memory') <= 2 * limit + 1
      /\ \A c : Open(memory', c) =>
           \/ c \in ToSet(result.uses)
           \/ result.uses = <<>> /\ result.answers # c /\ Open(memory, c)
  BY <1>1, <1>4, <1>6, AddFacts
<1>8. ASSUME NEW c, Open(memory', c) PROVE c \in old \/ \E i \in 1..Len(todo') : todo'[i].id = c
  <2>1. c # id /\ Open(memory, c)
    <3>1. ToSet(<<>>) = {}
      BY DEF ToSet
    <3>2. QED  BY <1>6, <1>7, <1>8, <3>1
  <2>2. c \in old \/ Waiting(c)
    BY <1>8, <2>1 DEF OpenAccounted, Orderly
  <2>3. ASSUME Waiting(c) PROVE \E i \in 1..Len(todo') : todo'[i].id = c
    <3>1. PICK i \in 1..Len(todo) : todo[i].id = c
      BY <2>3 DEF Waiting
    <3>2. i # 1
      BY <1>5, <2>1, <3>1
    <3>3. i - 1 \in 1..Len(todo') /\ (i - 1) + 1 = i
      BY <1>2, <3>2
    <3>4. todo'[i - 1] = todo[i]
      BY <1>2, <3>3
    <3>5. QED  BY <3>1, <3>3, <3>4
  <2>4. QED  BY <2>2, <2>3
<1>9. QED  BY <1>2, <1>3, <1>7, <1>8 DEF Fits

\* A tool's result closes its call.
LEMMA ToolReturnsKeeps ==
  ASSUME AgentType, ToolReturns, NEW old, OpenAccounted(old)
  PROVE  AgentType' /\ OpenAccounted(old)'
<1>1. pc = "tool" /\ todo # <<>> /\ Answered
  BY DEF AgentType, ToolReturns
<1>2. /\ memory' \in Seq(Message) /\ Fits(memory', limit) /\ todo' \in Seq(Call)
      /\ \A c : Open(memory', c) => c \in old \/ \E i \in 1..Len(todo') : todo'[i].id = c
  BY <1>1, AnsweredFacts
<1>3. /\ limit' = limit /\ steering' = steering /\ followUps' = followUps /\ pc' = "batch" /\ UNCHANGED guardVars
  BY DEF ToolReturns, hostVars
<1>4. AgentType'
  BY <1>2, <1>3 DEF AgentType, Pcs, guardVars
<1>5. OpenAccounted(old)'
  BY <1>2, <1>3 DEF OpenAccounted, Waiting
<1>6. QED  BY <1>4, <1>5

\* The next call of a batch: hinted, given up with its run, or executed.
LEMMA NextCallKeeps ==
  ASSUME AgentType, NextCall, NEW old, OpenAccounted(old)
  PROVE  AgentType' /\ OpenAccounted(old)'
<1> DEFINE key == Head(todo).key
           n == seen[key] + 1
<1>1. /\ pc = "batch" /\ todo # <<>> /\ todo \in Seq(Call) /\ memory \in Seq(Message)
      /\ seen \in [Keys -> Nat] /\ executed \in [Keys -> Nat] /\ corrected \subseteq Keys
  BY DEF AgentType, NextCall
<1>2. limit' = limit /\ steering' = steering /\ followUps' = followUps /\ seen' = [seen EXCEPT ![key] = n]
  BY DEF NextCall, hostVars
<1>3. key \in Keys
  <2>1. Head(todo) \in Call
    BY <1>1
  <2>2. QED  BY <2>1 DEF Call
<1> HIDE DEF key
<1>4. n \in Nat /\ executed[key] + 1 \in Nat
  BY <1>1, <1>3
<1>5. seen' \in [Keys -> Nat]
  BY <1>1, <1>2, <1>3, <1>4
<1>6. CASE Answered /\ corrected' = corrected \cup {key} /\ UNCHANGED <<pc, outcome, executed>>
  <2>1. /\ memory' \in Seq(Message) /\ Fits(memory', limit) /\ todo' \in Seq(Call)
        /\ \A c : Open(memory', c) => c \in old \/ \E i \in 1..Len(todo') : todo'[i].id = c
    BY <1>1, <1>6, AnsweredFacts
  <2>2. AgentType'
    BY <1>1, <1>2, <1>3, <1>5, <1>6, <2>1 DEF AgentType
  <2>3. OpenAccounted(old)'
    BY <1>1, <1>6, <2>1 DEF OpenAccounted, Waiting
  <2>4. QED  BY <2>2, <2>3
<1>7. CASE Leave("loop") /\ UNCHANGED <<memory, todo, corrected, executed>>
  <2>1. AgentType'
    BY <1>2, <1>5, <1>7 DEF AgentType, Leave, Pcs
  <2>2. OpenAccounted(old)'
    BY <1>7 DEF OpenAccounted, Orderly, Leave
  <2>3. QED  BY <2>1, <2>2
<1>8. CASE /\ pc' = "tool" /\ executed' = [executed EXCEPT ![key] = @ + 1]
           /\ UNCHANGED <<memory, todo, outcome, corrected>>
  <2>1. executed' \in [Keys -> Nat]
    BY <1>1, <1>3, <1>4, <1>8
  <2>2. AgentType'
    BY <1>1, <1>2, <1>5, <1>8, <2>1 DEF AgentType, Pcs
  <2>3. OpenAccounted(old)'
    BY <1>1, <1>8 DEF OpenAccounted, Orderly, Waiting
  <2>4. QED  BY <2>2, <2>3
<1>9. QED
  BY <1>6, <1>7, <1>8 DEF NextCall, key

\* What the host does, and a dropped run.
LEMMA HostKeeps ==
  ASSUME AgentType, Steer \/ FollowUp \/ Cancel \/ DropRun, NEW old, OpenAccounted(old)
  PROVE  AgentType' /\ OpenAccounted(old)'
<1>1. "steer" \in Texts /\ "follow" \in Texts
  BY DEF Texts
<1>2. CASE Steer
  <2>1. /\ steering' = Append(steering, "steer") /\ followUps' = followUps /\ limit' = limit /\ memory' = memory
        /\ pc' = pc /\ todo' = todo /\ outcome' = outcome /\ UNCHANGED guardVars
    BY <1>2 DEF Steer, loopVars
  <2>2. steering' \in Seq(Texts)
    BY <1>1, <2>1 DEF AgentType
  <2>3. AgentType'
    BY <2>1, <2>2 DEF AgentType, guardVars
  <2>4. OpenAccounted(old)'
    BY <2>1 DEF OpenAccounted, Orderly, Waiting
  <2>5. QED  BY <2>3, <2>4
<1>3. CASE FollowUp
  <2>1. /\ followUps' = Append(followUps, "follow") /\ steering' = steering /\ limit' = limit /\ memory' = memory
        /\ pc' = pc /\ todo' = todo /\ outcome' = outcome /\ UNCHANGED guardVars
    BY <1>3 DEF FollowUp, loopVars
  <2>2. followUps' \in Seq(Texts)
    BY <1>1, <2>1 DEF AgentType
  <2>3. AgentType'
    BY <2>1, <2>2 DEF AgentType, guardVars
  <2>4. OpenAccounted(old)'
    BY <2>1 DEF OpenAccounted, Orderly, Waiting
  <2>5. QED  BY <2>3, <2>4
<1>4. CASE Cancel
  <2>1. /\ followUps' = followUps /\ steering' = steering /\ limit' = limit /\ memory' = memory
        /\ pc' = pc /\ todo' = todo /\ outcome' = outcome /\ UNCHANGED guardVars
    BY <1>4 DEF Cancel, loopVars
  <2>2. AgentType'
    BY <2>1 DEF AgentType, guardVars
  <2>3. OpenAccounted(old)'
    BY <2>1 DEF OpenAccounted, Orderly, Waiting
  <2>4. QED  BY <2>2, <2>3
<1>5. CASE DropRun
  <2>1. /\ followUps' = followUps /\ steering' = steering /\ limit' = limit /\ memory' = memory
        /\ pc' = "idle" /\ outcome' = "dropped" /\ todo' = <<>> /\ UNCHANGED guardVars
    BY <1>5 DEF DropRun, hostVars, Leave
  <2>2. AgentType'
    BY <2>1 DEF AgentType, guardVars, Pcs
  <2>3. OpenAccounted(old)'
    BY <2>1 DEF OpenAccounted, Orderly
  <2>4. QED  BY <2>2, <2>3
<1>6. QED  BY <1>2, <1>3, <1>4, <1>5

\* Every action of the reference loop keeps the invariant, whichever edition runs it.
LEMMA LoopStepKeeps ==
  ASSUME AgentType, LoopStep, NEW old, OpenAccounted(old)
  PROVE  AgentType' /\ OpenAccounted(old)'
<1>1. CASE Prepare           BY <1>1, PrepareKeeps
<1>2. CASE BeginTurn         BY <1>2, BeginTurnKeeps
<1>3. CASE \E overflow \in BOOLEAN : RequestFails(overflow)
  BY <1>3, RequestFailsKeeps
<1>4. CASE Recover           BY <1>4, RecoverKeeps
<1>5. CASE \E keys \in Batches : WantsTools(keys)
  BY <1>5, WantsToolsKeeps
<1>6. CASE Answers           BY <1>6, AnswersKeeps
<1>7. CASE BatchDone         BY <1>7, BatchDoneKeeps
<1>8. CASE BatchCancelled    BY <1>8, BatchCancelledKeeps
<1>9. CASE NextCall          BY <1>9, NextCallKeeps
<1>10. CASE ToolReturns      BY <1>10, ToolReturnsKeeps
<1>11. CASE Steer \/ FollowUp \/ Cancel \/ DropRun
  BY <1>11, HostKeeps
<1>12. QED
  BY <1>1, <1>2, <1>3, <1>4, <1>5, <1>6, <1>7, <1>8, <1>9, <1>10, <1>11 DEF LoopStep, Run

-----------------------------------------------------------------------------
(* Both editions *)

\* A run begins: the reference repairs first, the transpiled edition counts
\* what it finds as open.
LEMMA StartKeeps ==
  ASSUME AgentType, NEW old,
         \/ StartOn(Repair(memory, limit))
         \/ StartOn(memory) /\ ToSet(Unanswered(memory)) \subseteq old
  PROVE  AgentType' /\ OpenAccounted(old)'
<1>1. limit \in LimitType /\ memory \in Seq(Message) /\ Fits(memory, limit)
  BY DEF AgentType
<1>2. CASE StartOn(Repair(memory, limit))
  <2> DEFINE start == Repair(memory, limit)
  <2>1. /\ start \in Seq(Message)
        /\ (limit # NoLimit /\ Len(memory) <= 2 * limit + 1) => Len(start) <= 2 * limit + 1
        /\ \A c : ~Open(start, c)
    BY <1>1, RepairFacts
  <2>2. StartOn(start)
    BY <1>2
  <2> HIDE DEF start
  <2>3. Fits(start, limit)
    BY <1>1, <2>1 DEF Fits
  <2>4. QED  BY <2>1, <2>2, <2>3, StartOnKeeps
<1>3. CASE StartOn(memory) /\ ToSet(Unanswered(memory)) \subseteq old
  <2>1. \A c : Open(memory, c) => c \in old
    BY <1>1, <1>3, UnansweredIsOpen
  <2> DEFINE start == memory
  <2>2. StartOn(start) /\ start = memory
    BY <1>3
  <2>3. QED  BY <1>1, <1>3, <2>1, StartOnKeeps
<1>4. QED  BY <1>2, <1>3

TAgentInv ==
  /\ AgentType
  /\ edition \in {"rust-ref", "a2r"}
  /\ edition = "rust-ref" => open = {}
  /\ OpenAccounted(open)

\* What is open is in the conversation.
LEMMA OpenIsUsed ==
  ASSUME NEW msgs \in Seq(Message), NEW c, Open(msgs, c)
  PROVE  c \in UNION {ToSet(msgs[i].uses) \cup {msgs[i].answers} : i \in DOMAIN msgs}
<1>1. PICK b \in 1..Len(msgs) : c \in ToSet(msgs[b].uses)
  BY DEF Open
<1>2. b \in DOMAIN msgs
  OBVIOUS
<1>3. QED  BY <1>1, <1>2

\* An agent starts with an empty memory.
LEMMA TAgentInit ==
  ASSUME TInit PROVE TAgentInv
<1>1. /\ limit \in Limits /\ memory = <<>> /\ steering = <<>> /\ followUps = <<>>
      /\ pc = "idle" /\ todo = <<>> /\ seen = [k \in Keys |-> 0] /\ corrected = {}
      /\ executed = [k \in Keys |-> 0] /\ open = {} /\ edition \in {"rust-ref", "a2r"}
  BY DEF TInit, Init
<1>2. limit \in LimitType
  BY <1>1, AgentAssumption DEF LimitType
<1>3. memory \in Seq(Message) /\ Len(memory) = 0 /\ steering \in Seq(Texts) /\ followUps \in Seq(Texts) /\ todo \in Seq(Call)
  BY <1>1
<1>4. seen \in [Keys -> Nat] /\ executed \in [Keys -> Nat] /\ corrected \subseteq Keys
  BY <1>1
<1>5. Fits(memory, limit)
  BY <1>2, <1>3 DEF Fits, LimitType
<1>6. AgentType
  BY <1>1, <1>2, <1>3, <1>4, <1>5 DEF AgentType, Pcs
<1>7. \A c : ~Open(memory, c)
  BY <1>3 DEF Open
<1>8. QED  BY <1>1, <1>6, <1>7 DEF TAgentInv, OpenAccounted

\* A loop step of either edition.
LEMMA EditionStep ==
  ASSUME TNext
  PROVE  \/ edition = "rust-ref" /\ LoopStep /\ UNCHANGED <<edition, open>>
         \/ edition = "rust-ref" /\ StartOn(Repair(memory, limit)) /\ UNCHANGED <<edition, open>>
         \/ edition = "a2r" /\ LoopStep /\ open' = open \cap Used' /\ UNCHANGED edition
         \/ edition = "a2r" /\ StartOn(memory) /\ open' = open \cup ToSet(Unanswered(memory)) /\ UNCHANGED edition
<1>1. CASE Reference
  BY <1>1 DEF Reference, Next, LoopStep, StartRun
<1>2. CASE TStartRun
  BY <1>2 DEF TStartRun
<1>3. CASE TRun \/ TSteer \/ TFollowUp \/ TCancel \/ TDropRun
  BY <1>3 DEF TRun, TPrepare, TBeginTurn, TRequestFails, TRecover, TWantsTools, TAnswers, TBatchDone,
              TBatchCancelled, TNextCall, TToolReturns, TSteer, TFollowUp, TCancel, TDropRun, A2r, LoopStep, Run
<1>4. QED  BY <1>1, <1>2, <1>3 DEF TNext

\* Every step of either edition keeps the invariant.
LEMMA TAgentStep ==
  ASSUME TAgentInv, [TNext]_tvars
  PROVE  TAgentInv'
<1>1. AgentType /\ edition \in {"rust-ref", "a2r"} /\ (edition = "rust-ref" => open = {})
  BY DEF TAgentInv
<1>2. PICK old : old = open
  OBVIOUS
<1>3. OpenAccounted(old)
  BY <1>2 DEF TAgentInv
<1>4. CASE edition = "rust-ref" /\ LoopStep /\ UNCHANGED <<edition, open>>
  <2>1. AgentType' /\ OpenAccounted(old)'
    BY <1>1, <1>3, <1>4, LoopStepKeeps
  <2>2. OpenAccounted(open)'
    BY <1>2, <1>4, <2>1 DEF OpenAccounted
  <2>3. QED  BY <1>1, <1>4, <2>1, <2>2 DEF TAgentInv
<1>5. CASE edition = "rust-ref" /\ StartOn(Repair(memory, limit)) /\ UNCHANGED <<edition, open>>
  <2>1. AgentType' /\ OpenAccounted(old)'
    BY <1>1, <1>5, StartKeeps
  <2>2. OpenAccounted(open)'
    BY <1>2, <1>5, <2>1 DEF OpenAccounted
  <2>3. QED  BY <1>1, <1>5, <2>1, <2>2 DEF TAgentInv
<1>6. CASE edition = "a2r" /\ LoopStep /\ open' = open \cap Used' /\ UNCHANGED edition
  <2>1. AgentType' /\ OpenAccounted(old)'
    BY <1>1, <1>3, <1>6, LoopStepKeeps
  <2>2. memory' \in Seq(Message)
    BY <2>1 DEF AgentType
  <2>3. \A c : Open(memory', c) => c \in Used'
    BY <2>2, OpenIsUsed DEF Used
  <2>4. OpenAccounted(open)'
    BY <1>2, <1>6, <2>1, <2>3 DEF OpenAccounted
  <2>5. QED  BY <1>1, <1>6, <2>1, <2>4 DEF TAgentInv
<1>7. CASE edition = "a2r" /\ StartOn(memory) /\ open' = open \cup ToSet(Unanswered(memory)) /\ UNCHANGED edition
  <2>1. PICK new : new = open \cup ToSet(Unanswered(memory))
    OBVIOUS
  <2>2. AgentType' /\ OpenAccounted(new)'
    BY <1>1, <1>7, <2>1, StartKeeps
  <2>3. OpenAccounted(open)'
    BY <1>7, <2>1, <2>2 DEF OpenAccounted
  <2>4. QED  BY <1>1, <1>7, <2>2, <2>3 DEF TAgentInv
<1>8. CASE UNCHANGED tvars
  BY <1>8 DEF TAgentInv, AgentType, OpenAccounted, Orderly, Waiting, tvars, vars, hostVars, loopVars, guardVars
<1>9. QED  BY <1>4, <1>5, <1>6, <1>7, <1>8, EditionStep

\* In either edition the state has its types, a limited memory has at most one
\* message more than twice its limit, and every open call waits in the batch or
\* was left by an earlier run that was dropped or ended by the cycle guard.
THEOREM AgentInvariant == TSpec => []TAgentInv
<1>1. TInit => TAgentInv
  BY TAgentInit
<1>2. TAgentInv /\ [TNext]_tvars => TAgentInv'
  BY TAgentStep
<1>3. QED  BY <1>1, <1>2, PTL DEF TSpec

\* A run that ended by itself or by cancel leaves no call without a result, but
\* for those the transpiled edition found open when it began.
THEOREM EndedRunsAnswered == TSpec => []RestAnswered
<1>1. TAgentInv => RestAnswered
  <2>1. SUFFICES ASSUME TAgentInv, pc = "idle", outcome \in {"done", "cancelled", "max"}
                 PROVE  ToSet(Unanswered(memory)) \subseteq open
    BY DEF RestAnswered
  <2>2. memory \in Seq(Message) /\ OpenAccounted(open)
    BY <2>1 DEF TAgentInv, AgentType
  <2>3. \A c : Open(memory, c) => c \in open
    BY <2>1, <2>2 DEF OpenAccounted, Orderly, Waiting
  <2>4. QED  BY <2>2, <2>3, UnansweredIsOpen
<1>2. QED  BY <1>1, AgentInvariant, PTL

\* No request carries a call without its result, but for those the transpiled
\* edition found open when its run began; the reference's never does.
THEOREM RequestsCarryNoOrphan ==
  TSpec => [](pc = "request" => /\ ToSet(Unanswered(memory)) \subseteq open
                                /\ edition = "rust-ref" => Unanswered(memory) = <<>>)
<1>1. ASSUME TAgentInv, pc = "request"
      PROVE  /\ ToSet(Unanswered(memory)) \subseteq open
             /\ edition = "rust-ref" => Unanswered(memory) = <<>>
  <2> DEFINE missing == Unanswered(memory)
  <2>1. memory \in Seq(Message) /\ OpenAccounted(open) /\ (edition = "rust-ref" => open = {})
    BY <1>1 DEF TAgentInv, AgentType
  <2>2. \A c : Open(memory, c) => c \in open
    BY <1>1, <2>1 DEF OpenAccounted, Orderly, Waiting
  <2>3. missing \in Seq(CallIds) /\ ToSet(missing) \subseteq open
    BY <2>1, <2>2, UnansweredIsOpen
  <2> HIDE DEF missing
  <2>4. ASSUME missing # <<>> PROVE missing[1] \in ToSet(missing)
    BY <2>3, <2>4 DEF ToSet
  <2>5. edition = "rust-ref" => missing = <<>>
    BY <2>1, <2>3, <2>4
  <2>6. QED  BY <2>3, <2>5 DEF missing
<1>2. QED  BY <1>1, AgentInvariant, PTL

\* A bounded memory holds at most one message more than twice its limit, and
\* whatever came next, both editions would keep the same of it; and wherever the
\* budget put the tail, they would compact it to the same.
THEOREM EditionsKeepAlike == TSpec => []MemoryKept
<1>1. TAgentInv => MemoryKept
  <2>1. SUFFICES ASSUME TAgentInv PROVE MemoryKept
    OBVIOUS
  <2>2. memory \in Seq(Message) /\ limit \in LimitType /\ (limit # NoLimit => Len(memory) <= 2 * limit + 1)
    BY <2>1 DEF TAgentInv, AgentType, Fits
  <2>3. Comers \subseteq Message
    <3>1. \A c \in CallIds : ToolResult(c) \in Message
      BY DEF ToolResult, Message, Texts
    <3>2. \A c \in CallIds : ToolUses(<<c>>) \in Message
      BY DEF ToolUses, Message, Texts
    <3>3. Human("steer") \in Message /\ Answer \in Message
      BY DEF Human, Answer, Message, Texts
    <3>4. FirstCall \subseteq CallIds
      BY DEF FirstCall
    <3> HIDE DEF Message
    <3>5. \A c \in FirstCall : {ToolUses(<<c>>), ToolResult(c)} \subseteq Message
      BY <3>1, <3>2, <3>4
    <3>6. UNION {{ToolUses(<<c>>), ToolResult(c)} : c \in FirstCall} \subseteq Message
      BY <3>5, Zenon
    <3>7. QED  BY <3>3, <3>6 DEF Comers
  <2>4. \A m \in Comers : TAdd(memory, m, limit) = Add(memory, m, limit)
    BY <2>2, <2>3, AddsAlike
  <2>5. \A tail \in 2..Len(memory) + 1 : TCompact(memory, tail, limit) = Compact(memory, tail, limit)
    <3>1. \A tail \in 2..Len(memory) + 1 : tail \in Nat
      BY <2>2
    <3>2. QED  BY <2>2, <3>1, CompactsAlike
  <2>6. QED  BY <2>2, <2>4, <2>5 DEF MemoryKept
<1>2. QED  BY <1>1, AgentInvariant, PTL

-----------------------------------------------------------------------------
(* The cycle guard and cancellation *)

\* A key without a hint was executed whenever it was called, twice at most; one
\* with a hint missed an execution, and its run ends when it reaches its threshold.
CycleInv ==
  /\ \A k \in Keys \ corrected : executed[k] = seen[k] /\ seen[k] < LoopDetectThreshold
  /\ \A k \in corrected :
       /\ executed[k] + 1 <= seen[k]
       /\ executed[k] + 2 <= TerminateAt(k)
       /\ IF pc = "idle" THEN seen[k] <= TerminateAt(k) ELSE seen[k] < TerminateAt(k)
  /\ outcome = "loop" => \E k \in corrected : seen[k] = TerminateAt(k)

\* Steps that leave the counts alone and do not end the run for a loop.
LEMMA CycleUntouched ==
  ASSUME CycleInv, AgentType, UNCHANGED guardVars, pc = "idle" => pc' = "idle",
         outcome' = outcome \/ outcome' # "loop"
  PROVE  CycleInv'
<1>1. seen' = seen /\ executed' = executed /\ corrected' = corrected
  BY DEF guardVars
<1>2. \A k \in corrected : TerminateAt(k) \in Nat /\ seen[k] \in Nat
  BY DEF TerminateAt, LoopDetectThreshold, AgentType
<1>3. QED  BY <1>1, <1>2 DEF CycleInv

\* The next call of a batch, as the bound on repeated calls sees it.
LEMMA NextCallCycle ==
  ASSUME CycleInv, AgentType, NextCall
  PROVE  CycleInv'
<1> DEFINE key == Head(todo).key
           n == seen[key] + 1
<1>1. /\ pc = "batch" /\ todo # <<>> /\ todo \in Seq(Call)
      /\ seen \in [Keys -> Nat] /\ executed \in [Keys -> Nat] /\ corrected \subseteq Keys
  BY DEF AgentType, NextCall
<1>2. key \in Keys
  <2>1. Head(todo) \in Call
    BY <1>1
  <2>2. QED  BY <2>1 DEF Call
<1>3. \A k \in Keys : TerminateAt(k) \in {4, 8}
  BY DEF TerminateAt, LoopDetectThreshold
<1>4. /\ \A k \in Keys \ corrected : executed[k] = seen[k] /\ seen[k] < 3
      /\ \A k \in corrected : executed[k] + 1 <= seen[k] /\ executed[k] + 2 <= TerminateAt(k) /\ seen[k] < TerminateAt(k)
      /\ outcome = "loop" => \E k \in corrected : seen[k] = TerminateAt(k)
  BY <1>1 DEF CycleInv, LoopDetectThreshold
<1>5. outcome # "loop"
  <2>1. ASSUME NEW k \in corrected PROVE seen[k] # TerminateAt(k)
    <3>1. seen[k] < TerminateAt(k) /\ seen[k] \in Nat /\ TerminateAt(k) \in Nat
      BY <1>1, <1>3, <1>4
    <3>2. QED  BY <3>1
  <2>2. QED  BY <1>4, <2>1
<1>6. seen' = [seen EXCEPT ![key] = n]
  BY DEF NextCall
<1>7. /\ seen' \in [Keys -> Nat] /\ seen'[key] = n /\ n = seen[key] + 1 /\ n \in Nat
      /\ \A k \in Keys : k # key => seen'[k] = seen[k]
  BY <1>1, <1>2, <1>6
<1> HIDE DEF key, n
<1>8. \A k \in Keys : seen[k] \in Nat /\ executed[k] \in Nat
  BY <1>1
<1>9. CASE /\ n >= 3 /\ key \notin corrected
           /\ corrected' = corrected \cup {key}
           /\ UNCHANGED <<pc, outcome, executed>>
  <2>1. seen[key] = 2 /\ executed[key] = 2 /\ n = 3
    BY <1>2, <1>4, <1>7, <1>8, <1>9
  <2>2. \A k \in corrected' : executed'[k] + 1 <= seen'[k] /\ executed'[k] + 2 <= TerminateAt(k) /\ seen'[k] < TerminateAt(k)
    <3> TAKE k \in corrected'
    <3>1. CASE k = key
      BY <1>2, <1>3, <1>7, <1>9, <2>1, <3>1
    <3>2. CASE k # key
      BY <1>1, <1>4, <1>7, <1>9, <3>2
    <3>3. QED  BY <3>1, <3>2
  <2>3. \A k \in Keys \ corrected' : executed'[k] = seen'[k] /\ seen'[k] < 3
    BY <1>4, <1>7, <1>9
  <2>4. QED  BY <1>1, <1>5, <1>9, <2>2, <2>3 DEF CycleInv, LoopDetectThreshold
<1>10. CASE /\ ~(n >= 3 /\ key \notin corrected) /\ n >= TerminateAt(key)
            /\ Leave("loop") /\ UNCHANGED <<corrected, executed>>
  <2>1. n >= 3
    BY <1>2, <1>3, <1>7, <1>10
  <2>2. key \in corrected
    BY <1>10, <2>1
  <2>3. n = TerminateAt(key)
    BY <1>2, <1>3, <1>4, <1>7, <1>8, <1>10, <2>2
  <2>4. \A k \in corrected' : executed'[k] + 1 <= seen'[k] /\ executed'[k] + 2 <= TerminateAt(k) /\ seen'[k] <= TerminateAt(k)
    <3> TAKE k \in corrected'
    <3>1. k \in Keys /\ k \in corrected
      BY <1>1, <1>10
    <3>2. CASE k = key
      BY <1>2, <1>4, <1>7, <1>8, <1>10, <2>2, <2>3, <3>2
    <3>3. CASE k # key
      BY <1>3, <1>4, <1>7, <1>8, <1>10, <3>1, <3>3
    <3>4. QED  BY <3>2, <3>3
  <2>5. \A k \in Keys \ corrected' : executed'[k] = seen'[k] /\ seen'[k] < 3
    BY <1>4, <1>7, <1>10, <2>2
  <2>6. key \in corrected' /\ seen'[key] = TerminateAt(key) /\ pc' = "idle"
    BY <1>7, <1>10, <2>2, <2>3 DEF Leave
  <2>7. QED  BY <2>4, <2>5, <2>6 DEF CycleInv, LoopDetectThreshold
<1>11. CASE /\ ~(n >= 3 /\ key \notin corrected) /\ n < TerminateAt(key)
            /\ pc' = "tool" /\ executed' = [executed EXCEPT ![key] = @ + 1]
            /\ UNCHANGED <<outcome, corrected>>
  <2>1. executed'[key] = executed[key] + 1 /\ \A k \in Keys : k # key => executed'[k] = executed[k]
    BY <1>1, <1>2, <1>11
  <2>2. \A k \in corrected' : executed'[k] + 1 <= seen'[k] /\ executed'[k] + 2 <= TerminateAt(k) /\ seen'[k] < TerminateAt(k)
    <3> TAKE k \in corrected'
    <3>1. k \in Keys /\ k \in corrected
      BY <1>1, <1>11
    <3>2. CASE k = key
      BY <1>2, <1>3, <1>4, <1>7, <1>8, <1>11, <2>1, <3>1, <3>2
    <3>3. CASE k # key
      BY <1>4, <1>7, <1>11, <2>1, <3>1, <3>3
    <3>4. QED  BY <3>2, <3>3
  <2>3. \A k \in Keys \ corrected' : executed'[k] = seen'[k] /\ seen'[k] < 3
    <3> TAKE k \in Keys \ corrected'
    <3>1. CASE k = key
      BY <1>2, <1>4, <1>7, <1>8, <1>11, <2>1, <3>1
    <3>2. CASE k # key
      BY <1>4, <1>7, <1>11, <2>1, <3>2
    <3>3. QED  BY <3>1, <3>2
  <2>4. QED  BY <1>5, <1>11, <2>2, <2>3 DEF CycleInv, LoopDetectThreshold
<1>12. QED
  BY <1>9, <1>10, <1>11 DEF NextCall, key, n, LoopDetectThreshold

\* Every step keeps the bound on repeated calls.
LEMMA CycleStep ==
  ASSUME CycleInv, AgentType, TNext
  PROVE  CycleInv'
<1>1. ASSUME NEW start, StartOn(start) PROVE CycleInv'
  <2>1. seen' = [k \in Keys |-> 0] /\ executed' = [k \in Keys |-> 0] /\ corrected' = {} /\ outcome' = "none"
    BY <1>1 DEF StartOn
  <2>2. \A k \in Keys : seen'[k] = 0 /\ executed'[k] = 0
    BY <2>1
  <2>3. QED  BY <2>1, <2>2 DEF CycleInv, LoopDetectThreshold
<1>2. ASSUME LoopStep PROVE CycleInv'
  <2>1. CASE NextCall
    BY <2>1, NextCallCycle
  <2>2. CASE ~NextCall
    <3>1. UNCHANGED guardVars
      BY <1>2, <2>2 DEF LoopStep, Run, Prepare, BeginTurn, RequestFails, Recover, WantsTools, Answers, BatchDone,
                        BatchCancelled, ToolReturns, Steer, FollowUp, Cancel, DropRun
    <3>2. outcome' = outcome \/ outcome' # "loop"
      BY <1>2, <2>2 DEF LoopStep, Run, Prepare, BeginTurn, RequestFails, Recover, WantsTools, Answers, BatchDone,
                        BatchCancelled, ToolReturns, Steer, FollowUp, Cancel, DropRun, Leave, Cancelled, loopVars
    <3>3. pc = "idle" => pc' = "idle"
      BY <1>2, <2>2 DEF LoopStep, Run, Prepare, BeginTurn, RequestFails, Recover, WantsTools, Answers, BatchDone,
                        BatchCancelled, ToolReturns, Steer, FollowUp, Cancel, DropRun, loopVars
    <3>4. QED  BY <3>1, <3>2, <3>3, CycleUntouched
  <2>3. QED  BY <2>1, <2>2
<1>3. QED  BY <1>1, <1>2, EditionStep

\* The cycle guard, in either edition: no (tool, args) pair is executed up to its
\* termination threshold, and a run only ends for a loop after the model was warned.
THEOREM CycleGuarded == TSpec => []CycleBounded
<1>1. TInit => CycleInv
  <2>1. SUFFICES ASSUME TInit PROVE CycleInv
    OBVIOUS
  <2>2. seen = [k \in Keys |-> 0] /\ executed = [k \in Keys |-> 0] /\ corrected = {} /\ outcome = "none"
    BY <2>1 DEF TInit, Init
  <2>3. \A k \in Keys : seen[k] = 0 /\ executed[k] = 0
    BY <2>2
  <2>4. QED  BY <2>2, <2>3 DEF CycleInv, LoopDetectThreshold
<1>2. CycleInv /\ TAgentInv /\ [TNext]_tvars => CycleInv'
  <2>1. SUFFICES ASSUME CycleInv, AgentType, [TNext]_tvars PROVE CycleInv'
    BY DEF TAgentInv
  <2>2. CASE UNCHANGED tvars
    BY <2>1, <2>2 DEF CycleInv, tvars, vars, loopVars, guardVars
  <2>3. QED  BY <2>1, <2>2, CycleStep
<1>3. TAgentInv /\ CycleInv => CycleBounded
  <2>1. SUFFICES ASSUME AgentType, CycleInv PROVE CycleBounded
    BY DEF TAgentInv
  <2>2. ASSUME NEW k \in Keys PROVE executed[k] <= TerminateAt(k) - 2
    <3>1. executed[k] \in Nat /\ seen[k] \in Nat /\ TerminateAt(k) \in {4, 8}
      BY <2>1 DEF AgentType, TerminateAt, LoopDetectThreshold
    <3>2. QED  BY <2>1, <3>1 DEF CycleInv, LoopDetectThreshold
  <2>3. QED  BY <2>1, <2>2 DEF CycleBounded, CycleInv
<1>4. QED  BY <1>1, <1>2, <1>3, AgentInvariant, PTL DEF TSpec

\* After a cancel no further tool is started in the run and no turn begun.
THEOREM CancelStopsWork == TSpec => CancelQuiet
<1>1. [TNext]_tvars => [(cancel /\ cancel' /\ pc # "idle") => (executed' = executed /\ turn' = turn)]_vars
  <2>1. SUFFICES ASSUME [TNext]_tvars, cancel, cancel', pc # "idle" PROVE executed' = executed /\ turn' = turn
    OBVIOUS
  <2>2. CASE UNCHANGED tvars
    BY <2>2 DEF tvars, vars, loopVars, guardVars
  <2>3. ASSUME NEW start, StartOn(start) PROVE FALSE
    BY <2>1, <2>3 DEF StartOn
  <2>4. ASSUME LoopStep PROVE executed' = executed /\ turn' = turn
    BY <2>1, <2>4 DEF LoopStep, Run, Prepare, BeginTurn, RequestFails, Recover, WantsTools, Answers, BatchDone,
                      BatchCancelled, NextCall, ToolReturns, Steer, FollowUp, Cancel, DropRun, loopVars, guardVars
  <2>5. QED  BY <2>1, <2>2, <2>3, <2>4, EditionStep
<1>2. QED  BY <1>1, PTL DEF TSpec, CancelQuiet

-----------------------------------------------------------------------------
(* What a memory with room for its last turn keeps *)

\* Messages added one by one, as a table of the memories in between.
LEMMA AddAllSteps ==
  \A msgs, new \in Seq(Message), max \in LimitType :
    \E add \in [0..Len(new) -> Seq(Message)] :
      /\ add[0] = msgs
      /\ \A i \in 1..Len(new) : add[i] = Add(add[i - 1], new[i], max)
      /\ AddAll(msgs, new, max) = add[Len(new)]
<1> SUFFICES ASSUME NEW msgs \in Seq(Message), NEW new \in Seq(Message), NEW max \in LimitType
             PROVE  \E add \in [0..Len(new) -> Seq(Message)] :
                      /\ add[0] = msgs
                      /\ \A i \in 1..Len(new) : add[i] = Add(add[i - 1], new[i], max)
                      /\ AddAll(msgs, new, max) = add[Len(new)]
  OBVIOUS
<1> DEFINE n == Len(new)
           M == Seq(Message)
           trimmed == [have \in Seq(Message) |-> Trim(have, max)]
           F == [i \in 1..n |-> [have \in M |-> trimmed[Append(have, new[i])]]]
           add == CHOOSE g : g = [i \in 0..n |-> IF i = 0 THEN msgs ELSE trimmed[Append(g[i - 1], new[i])]]
<1>1. n \in Nat /\ \A i \in 1..n : new[i] \in Message
  OBVIOUS
<1>2. \A have \in M, m \in Message : trimmed[Append(have, m)] = Add(have, m, max) /\ Add(have, m, max) \in M
  <2> TAKE have \in M, m \in Message
  <2>1. Append(have, m) \in Seq(Message)
    OBVIOUS
  <2>2. trimmed[Append(have, m)] = Trim(Append(have, m), max)
    BY <2>1
  <2>3. Add(have, m, max) \in Seq(Message)
    BY AddFacts
  <2>4. QED  BY <2>2, <2>3 DEF Add
<1>3. AddAll(msgs, new, max) = add[n]
  BY DEF AddAll
<1> HIDE DEF trimmed
<1>4. F \in [1..n -> [M -> M]]
  BY <1>1, <1>2
<1>5. \A i \in 1..n, have \in M : F[i][have] = Add(have, new[i], max)
  BY <1>1, <1>2
<1>6. \E g \in [0..n -> M] : g[0] = msgs /\ \A i \in 1..n : g[i] = F[i][g[i - 1]]
  <2>1. msgs \in M
    OBVIOUS
  <2> HIDE DEF F, M, n, add
  <2>2. HasIteration(M, n, msgs, F)
    BY <1>1, <1>4, <2>1, IterationExists
  <2>3. QED  BY <2>2 DEF HasIteration, Iterates
<1> HIDE DEF F
<1>7. PICK g \in [0..n -> M] : g[0] = msgs /\ \A i \in 1..n : g[i] = Add(g[i - 1], new[i], max)
  <2> HIDE DEF M, n, add
  <2>1. PICK g \in [0..n -> M] : g[0] = msgs /\ \A i \in 1..n : g[i] = F[i][g[i - 1]]
    BY <1>6
  <2>2. ASSUME NEW i \in 1..n PROVE g[i] = Add(g[i - 1], new[i], max)
    <3>1. i - 1 \in 0..n
      BY <1>1
    <3>2. g[i - 1] \in M
      BY <3>1
    <3>3. QED  BY <1>5, <2>1, <3>2
  <2>3. QED  BY <2>1, <2>2
<1> DEFINE Follows(f, i) == IF i = 0 THEN msgs ELSE trimmed[Append(f[i - 1], new[i])]
<1>8. \A f \in [0..n -> M], i \in 1..n : trimmed[Append(f[i - 1], new[i])] = Add(f[i - 1], new[i], max)
  <2> HIDE DEF M, n
  <2> TAKE f \in [0..n -> M], i \in 1..n
  <2>1. i - 1 \in 0..n
    BY <1>1
  <2>2. f[i - 1] \in M /\ new[i] \in Message
    BY <1>1, <2>1
  <2>3. QED  BY <1>2, <2>2
<1>9. g = [i \in 0..n |-> Follows(g, i)]
  <2> HIDE DEF n, add, M
  <2>1. ASSUME NEW i \in 0..n PROVE g[i] = Follows(g, i)
    <3>1. CASE i = 0
      BY <1>7, <3>1
    <3>2. CASE i \in 1..n
      <4>1. i # 0
        BY <1>1, <3>2
      <4>2. Follows(g, i) = trimmed[Append(g[i - 1], new[i])]
        BY <4>1
      <4>3. QED  BY <1>7, <1>8, <3>2, <4>2
    <3>3. QED  BY <1>1, <3>1, <3>2
  <2> HIDE DEF Follows
  <2>2. QED  BY <2>1
<1>10. add = [i \in 0..n |-> Follows(add, i)]
  BY <1>9
<1> HIDE DEF add
<1>11. add[0] = msgs /\ \A i \in 1..n : add[i] = trimmed[Append(add[i - 1], new[i])]
  <2> HIDE DEF n
  <2>1. 0 \in 0..n /\ \A i \in 1..n : i \in 0..n /\ i # 0
    BY <1>1
  <2>2. QED  BY <1>10, <2>1
<1> DEFINE S == {i \in Nat : i <= n => add[i] = g[i]}
<1>12. S = Nat
  <2>1. 0 \in S
    BY <1>7, <1>11
  <2>2. ASSUME NEW i \in S PROVE i + 1 \in S
    <3>1. SUFFICES ASSUME i + 1 <= n PROVE add[i + 1] = g[i + 1]
      OBVIOUS
    <3> DEFINE k == i + 1
    <3>2. i \in Nat /\ k \in 1..n /\ k - 1 = i /\ add[i] = g[i]
      BY <1>1, <3>1
    <3> HIDE DEF k, n, M
    <3>3. add[k] = trimmed[Append(g[k - 1], new[k])]
      BY <1>11, <3>2
    <3>4. add[k] = g[k]
      BY <1>7, <1>8, <3>2, <3>3
    <3>5. QED  BY <3>4 DEF k
  <2>3. S \in SUBSET Nat
    OBVIOUS
  <2> HIDE DEF S
  <2>4. QED  BY <2>1, <2>2, <2>3, SetInduction
<1>13. add[n] = g[n]
  <2>1. n \in S /\ n <= n
    BY <1>1, <1>12
  <2> HIDE DEF n
  <2>2. QED  BY <2>1
<1>14. QED  BY <1>3, <1>7, <1>13

\* a is the place of the assistant's last message.
LastAt(msgs, a) ==
  /\ a \in 1..Len(msgs) /\ msgs[a].role = "assistant"
  /\ \A j \in 1..Len(msgs) : j > a => msgs[j].role = "user"

AllUser(msgs) == \A j \in 1..Len(msgs) : msgs[j].role = "user"

\* have is what is left of msgs from k on, behind a message of the user's if a is 1.
Part(have, msgs, k, a) ==
  /\ a \in {0, 1} /\ k \in 1..Len(msgs) + 1 /\ Len(have) = a + (Len(msgs) + 1 - k)
  /\ a = 1 => have[1].role = "user" /\ have[1].uses = <<>> /\ have[1].answers = NoCall
  /\ \A j \in 1..Len(msgs) + 1 - k : have[a + j] = msgs[k + j - 1]

\* Cut at k, the messages lost nothing or a whole number of units, at any rate not
\* the last turn; without an assistant's message a full memory's worth is left.
Whole(msgs, k, max) ==
  \/ k = 1
  \/ /\ max # NoLimit
     /\ UnitStart(msgs, k)
     /\ \A b \in 1..Len(msgs) : LastAt(msgs, b) => k <= b
     /\ AllUser(msgs) => Len(msgs) + 1 - k >= 2 * max

\* have is what a trim of msgs leaves.
Keeps(have, msgs, max) ==
  \E k \in 1..Len(msgs) + 1, a \in {0, 1} :
    /\ Part(have, msgs, k, a) /\ Whole(msgs, k, max)
    /\ a = 1 => k <= Len(msgs) /\ msgs[k].role = "assistant"

\* A memory has room for its last turn and n messages more.
Room(msgs, n, max) ==
  max # NoLimit => /\ max > 0
                   /\ \A b \in 1..Len(msgs) : LastAt(msgs, b) => Len(msgs) - b + 1 + n <= 2 * max

\* Of some messages of the assistant one is the last.
LEMMA LastExists ==
  \A msgs \in Seq(Message) : AllUser(msgs) \/ \E b \in 1..Len(msgs) : LastAt(msgs, b)
<1> SUFFICES ASSUME NEW msgs \in Seq(Message), ~AllUser(msgs)
             PROVE  \E b \in 1..Len(msgs) : LastAt(msgs, b)
  OBVIOUS
<1> DEFINE n == Len(msgs)
           those == {i \in 1..n : msgs[i].role # "user"}
<1>1. n \in Nat /\ those \in SUBSET (1..n) /\ those # {}
  BY DEF AllUser
<1>2. PICK b \in those : \A j \in those : j <= b
  <2> HIDE DEF those, n
  <2>1. QED  BY <1>1, LargestExists
<1>3. ASSUME NEW i \in 1..n PROVE msgs[i].role \in {"user", "assistant"}
  <2>1. msgs[i] \in Message
    OBVIOUS
  <2>2. QED  BY <2>1 DEF Message
<1>4. ASSUME NEW j \in 1..n, j > b PROVE msgs[j].role = "user"
  BY <1>1, <1>2, <1>4
<1>5. b \in 1..n /\ msgs[b].role = "assistant"
  BY <1>2, <1>3
<1>6. QED  BY <1>4, <1>5 DEF LastAt

\* Trimming a memory with room for its last turn.
LEMMA TrimKeeps ==
  \A msgs \in Seq(Message), max \in LimitType : Room(msgs, 0, max) => Keeps(Trim(msgs, max), msgs, max)
<1> SUFFICES ASSUME NEW msgs \in Seq(Message), NEW max \in LimitType, Room(msgs, 0, max)
             PROVE  Keeps(Trim(msgs, max), msgs, max)
  OBVIOUS
<1> DEFINE n == Len(msgs)
<1>1. n \in Nat /\ DOMAIN msgs = 1..n
  OBVIOUS
<1>2. CASE max = NoLimit
  <2>1. Trim(msgs, max) = msgs
    BY <1>2 DEF Trim
  <2>2. Part(msgs, msgs, 1, 0)
    BY <1>1 DEF Part
  <2>3. 1 \in 1..n + 1 /\ 0 \in {0, 1} /\ Whole(msgs, 1, max)
    BY <1>1 DEF Whole
  <2> HIDE DEF n
  <2>4. Keeps(msgs, msgs, max)
    BY <2>2, <2>3 DEF Keeps, n
  <2>5. QED  BY <2>1, <2>4
<1>3. CASE max # NoLimit
  <2> DEFINE k == KeptFrom(msgs, 2 * max)
             rest == SubSeq(msgs, k, n)
             anchor == IF k \in DOMAIN msgs /\ msgs[k].role = "assistant" THEN <<Human("anchor")>> ELSE <<>>
             a == IF k \in DOMAIN msgs /\ msgs[k].role = "assistant" THEN 1 ELSE 0
  <2>1. max \in Nat /\ max > 0 /\ max # 0 /\ 2 * max \in Nat
    BY <1>3 DEF Room, LimitType
  <2>2. k \in 1..n + 1
    BY <2>1, KeptFromFacts
  <2>3. Trim(msgs, max) = anchor \o rest
    BY <1>3, <2>1 DEF Trim
  <2>4. Whole(msgs, k, max)
    <3>1. CASE n <= 2 * max
      BY <3>1 DEF KeptFrom, Whole
    <3>2. CASE n > 2 * max
      <4>1. CutsAt(msgs, 2 * max, k)
        BY <2>1, <3>2, CutsSomewhere
      <4> HIDE DEF k
      <4>2. /\ k \in 2..n + 1 /\ UnitStart(msgs, k) /\ n - k < 2 * max
            /\ \A j \in 2..k - 1 : UnitStart(msgs, j) => n - j >= 2 * max
        BY <4>1 DEF CutsAt
      <4>3. ASSUME NEW b \in 1..n, LastAt(msgs, b) PROVE k <= b
        <5>1. n - b + 1 <= 2 * max
          BY <1>1, <1>3, <2>1, <4>3 DEF Room
        <5>2. UnitStart(msgs, b)
          BY <4>3 DEF LastAt, UnitStart
        <5>3. SUFFICES ASSUME b < k PROVE FALSE
          BY <1>1, <4>2
        <5>4. b \in 2..k - 1
          BY <1>1, <2>1, <3>2, <4>2, <5>1, <5>3
        <5>5. n - b >= 2 * max
          BY <4>2, <5>2, <5>4
        <5>6. QED  BY <1>1, <2>1, <5>1, <5>5
      <4>4. ASSUME AllUser(msgs) PROVE n + 1 - k >= 2 * max
        <5>1. CASE k = 2
          BY <1>1, <2>1, <3>2, <5>1
        <5>2. CASE k # 2
          <6>1. k - 1 \in 2..k - 1 /\ k - 1 \in 1..n
            BY <1>1, <4>2, <5>2
          <6>2. UnitStart(msgs, k - 1)
            BY <1>1, <4>4, <6>1 DEF AllUser, UnitStart
          <6>3. n - (k - 1) >= 2 * max
            BY <4>2, <6>1, <6>2
          <6>4. QED  BY <1>1, <2>1, <4>2, <6>3
        <5>3. QED  BY <5>1, <5>2
      <4>5. QED  BY <1>3, <4>2, <4>3, <4>4 DEF Whole
    <3>3. QED  BY <1>1, <2>1, <3>1, <3>2
  <2> HIDE DEF k
  <2>5. rest \in Seq(Message) /\ Len(rest) = n + 1 - k /\ \A j \in 1..n + 1 - k : rest[j] = msgs[k + j - 1]
    BY <1>1, <2>2
  <2>6. Human("anchor") \in Message /\ Human("anchor").role = "user" /\ Human("anchor").uses = <<>> /\ Human("anchor").answers = NoCall
    BY DEF Human, Message, Texts
  <2>7. /\ a \in {0, 1} /\ anchor \in Seq(Message) /\ Len(anchor) = a
        /\ a = 1 => anchor[1] = Human("anchor") /\ k <= n /\ msgs[k].role = "assistant"
    BY <1>1, <2>2, <2>6
  <2> HIDE DEF rest, anchor, a
  <2>8. /\ anchor \o rest \in Seq(Message) /\ Len(anchor \o rest) = a + (n + 1 - k)
        /\ a = 1 => (anchor \o rest)[1] = anchor[1]
        /\ \A j \in 1..n + 1 - k : (anchor \o rest)[a + j] = rest[j]
    BY <2>5, <2>7, Joined
  <2>9. Part(anchor \o rest, msgs, k, a)
    BY <2>2, <2>5, <2>6, <2>7, <2>8 DEF Part
  <2>10. Keeps(anchor \o rest, msgs, max)
    BY <2>2, <2>4, <2>7, <2>9 DEF Keeps
  <2>11. QED  BY <2>3, <2>10
<1>4. QED  BY <1>2, <1>3

\* A trim, a message of the user's and another trim come to one trim.
LEMMA KeepsAppend ==
  \A have, msgs, new \in Seq(Message), m \in Message, max \in LimitType :
    m.role = "user" /\ Keeps(have, msgs, max) /\ Keeps(new, Append(have, m), max) => Keeps(new, Append(msgs, m), max)
<1> SUFFICES ASSUME NEW have \in Seq(Message), NEW msgs \in Seq(Message), NEW new \in Seq(Message),
                    NEW m \in Message, NEW max \in LimitType,
                    m.role = "user", Keeps(have, msgs, max), Keeps(new, Append(have, m), max)
             PROVE  Keeps(new, Append(msgs, m), max)
  OBVIOUS
<1> DEFINE n == Len(msgs)
           y == Append(msgs, m)
           x == Append(have, m)
<1>1. PICK k \in 1..n + 1, a \in {0, 1} :
        /\ Part(have, msgs, k, a) /\ Whole(msgs, k, max)
        /\ a = 1 => k <= n /\ msgs[k].role = "assistant"
  BY DEF Keeps
<1>2. PICK k2 \in 1..Len(x) + 1, a2 \in {0, 1} :
        /\ Part(new, x, k2, a2) /\ Whole(x, k2, max)
        /\ a2 = 1 => k2 <= Len(x) /\ x[k2].role = "assistant"
  <2> HIDE DEF x
  <2>1. Keeps(new, x, max)
    BY DEF x
  <2>2. QED  BY <2>1 DEF Keeps
<1>3. /\ n \in Nat /\ y \in Seq(Message) /\ Len(y) = n + 1 /\ y[n + 1] = m
      /\ \A j \in 1..n : y[j] = msgs[j]
      /\ \A j \in 1..n + 1 : j \in 1..n \/ j = n + 1
  OBVIOUS
<1>4. /\ Len(have) = a + (n + 1 - k) /\ k \in Nat /\ a \in Nat
      /\ \A j \in 1..n + 1 - k : have[a + j] = msgs[k + j - 1]
      /\ a = 1 => have[1].role = "user" /\ have[1].uses = <<>> /\ have[1].answers = NoCall
  BY <1>1, <1>3 DEF Part
<1>5. /\ x \in Seq(Message) /\ Len(x) = a + (n + 2 - k)
      /\ \A j \in 1..a + (n + 1 - k) : x[j] = have[j]
      /\ x[a + (n + 2 - k)] = m
  <2>1. /\ x \in Seq(Message) /\ Len(x) = Len(have) + 1 /\ x[Len(have) + 1] = m
        /\ \A j \in 1..Len(have) : x[j] = have[j]
    OBVIOUS
  <2>2. Len(have) + 1 = a + (n + 2 - k)
    BY <1>1, <1>3, <1>4
  <2> HIDE DEF x
  <2>3. QED  BY <1>4, <2>1, <2>2
<1> HIDE DEF x, y
<1>6. ASSUME NEW j \in 1..n + 2 - k PROVE x[a + j] = y[k + j - 1]
  <2>1. CASE j = n + 2 - k
    BY <1>1, <1>3, <1>4, <1>5, <2>1
  <2>2. CASE j # n + 2 - k
    <3>1. j \in 1..n + 1 - k /\ a + j \in 1..a + (n + 1 - k) /\ k + j - 1 \in 1..n
      BY <1>1, <1>3, <1>4, <2>2
    <3>2. QED  BY <1>3, <1>4, <1>5, <3>1
  <2>3. QED  BY <2>1, <2>2
<1>7. a = 1 => x[1].role = "user" /\ x[1].uses = <<>> /\ x[1].answers = NoCall
  <2>1. a = 1 => 1 \in 1..a + (n + 1 - k)
    BY <1>1, <1>3
  <2>2. QED  BY <1>4, <1>5, <2>1
<1>8. ASSUME NEW b \in 1..n + 1, LastAt(y, b) PROVE b \in 1..n /\ LastAt(msgs, b)
  <2>1. y[b].role = "assistant" /\ \A j \in 1..n + 1 : j > b => y[j].role = "user"
    BY <1>3, <1>8 DEF LastAt
  <2>2. b \in 1..n
    BY <1>3, <2>1
  <2>3. \A j \in 1..n : j > b => msgs[j].role = "user"
    BY <1>3, <2>1
  <2>4. QED  BY <1>3, <2>1, <2>2, <2>3 DEF LastAt
<1>9. AllUser(y) => AllUser(msgs)
  BY <1>3 DEF AllUser
<1>10. max # NoLimit => 2 * max \in Nat
  BY DEF LimitType
<1>11. ASSUME NEW j \in 1..n PROVE msgs[j].role \in {"user", "assistant"}
  <2>1. msgs[j] \in Message
    OBVIOUS
  <2>2. QED  BY <2>1 DEF Message
<1>12. CASE k2 >= a + 1
  <2> DEFINE k3 == k + k2 - a - 1
  <2>1. k3 \in 1..n + 2 /\ k3 >= k /\ k2 = a + (k3 - k + 1) /\ k2 \in Nat /\ k3 \in Nat
    BY <1>1, <1>2, <1>3, <1>4, <1>5, <1>12
  <2> HIDE DEF k3
  <2>2. \A j \in 1..n + 2 - k3 : k3 - k + j \in 1..n + 2 - k /\ k2 + j - 1 = a + (k3 - k + j) /\ k + (k3 - k + j) - 1 = k3 + j - 1
    BY <1>3, <1>4, <2>1
  <2>3. \A j \in 1..n + 2 - k3 : x[k2 + j - 1] = y[k3 + j - 1]
    <3> TAKE j \in 1..n + 2 - k3
    <3>1. x[a + (k3 - k + j)] = y[k + (k3 - k + j) - 1]
      BY <1>6, <2>2
    <3>2. QED  BY <2>2, <3>1
  <2>4. Len(x) + 1 - k2 = n + 2 - k3
    BY <1>3, <1>4, <1>5, <2>1
  <2>5. Part(new, y, k3, a2)
    <3>1. /\ Len(new) = a2 + (Len(x) + 1 - k2)
          /\ \A j \in 1..Len(x) + 1 - k2 : new[a2 + j] = x[k2 + j - 1]
          /\ a2 = 1 => new[1].role = "user" /\ new[1].uses = <<>> /\ new[1].answers = NoCall
      BY <1>2 DEF Part
    <3>2. Len(new) = a2 + (Len(y) + 1 - k3) /\ k3 \in 1..Len(y) + 1
      BY <1>3, <2>1, <2>4, <3>1
    <3>3. ASSUME NEW j \in 1..Len(y) + 1 - k3 PROVE new[a2 + j] = y[k3 + j - 1]
      <4>1. j \in 1..n + 2 - k3 /\ j \in 1..Len(x) + 1 - k2
        BY <1>3, <2>1, <2>4
      <4>2. new[a2 + j] = x[k2 + j - 1]
        BY <3>1, <4>1
      <4>3. QED  BY <2>3, <4>1, <4>2
    <3>4. QED  BY <3>1, <3>2, <3>3 DEF Part
  <2>6. k3 <= n + 1 => x[k2] = y[k3]
    <3>1. k3 <= n + 1 => 1 \in 1..n + 2 - k3 /\ k2 + 1 - 1 = k2 /\ k3 + 1 - 1 = k3
      BY <1>3, <2>1
    <3>2. QED  BY <2>3, <3>1
  <2>7. a2 = 1 => k3 <= Len(y) /\ y[k3].role = "assistant"
    BY <1>2, <1>3, <1>4, <1>5, <2>1, <2>6
  <2>8. Whole(y, k3, max)
    <3>1. SUFFICES ASSUME k3 # 1 PROVE Whole(y, k3, max)
      BY DEF Whole
    <3>2. k2 = 1 => k3 = k
      BY <1>1, <1>3, <2>1
    <3>3. max # NoLimit
      BY <1>1, <1>2, <3>1, <3>2 DEF Whole
    <3>4. ASSUME NEW b \in 1..n, LastAt(msgs, b) PROVE k <= b
      BY <1>1, <3>4 DEF Whole
    <3>5. UnitStart(y, k3)
      <4>1. SUFFICES ASSUME k3 \in 1..n + 1, y[k3].role # "assistant", NEW p \in 1..k3 - 1 PROVE y[p].role = "user"
        <5>1. DOMAIN y = 1..n + 1
          BY <1>3
        <5>2. QED  BY <4>1, <5>1 DEF UnitStart
      <4>2. CASE k3 = k /\ k <= n
        <5>1. UnitStart(msgs, k) /\ k \in DOMAIN msgs
          BY <1>1, <1>3, <3>1, <4>2 DEF Whole
        <5>2. \A j \in 1..k - 1 : msgs[j].role = "user"
          BY <1>3, <4>1, <4>2, <5>1 DEF UnitStart
        <5>3. p \in 1..n /\ p \in 1..k - 1
          BY <1>3, <4>1, <4>2
        <5>4. QED  BY <1>3, <5>2, <5>3
      <4>3. CASE k3 = k /\ k > n
        <5>1. AllUser(msgs)
          <6>1. ~ \E b \in 1..n : LastAt(msgs, b)
            BY <1>3, <1>4, <3>4, <4>3
          <6>2. QED  BY <6>1, LastExists
        <5>2. p \in 1..n
          BY <1>1, <1>3, <4>1, <4>3
        <5>3. QED  BY <1>3, <5>1, <5>2 DEF AllUser
      <4>4. CASE k3 > k
        <5>1. k2 # 1 /\ k \in 1..n
          BY <1>1, <1>3, <1>4, <2>1, <4>1, <4>4
        <5>2. UnitStart(x, k2) /\ k2 \in DOMAIN x
          <6>1. k2 \in 1..Len(x)
            BY <1>3, <1>4, <1>5, <2>1, <4>1
          <6>2. QED  BY <1>2, <1>5, <5>1, <6>1 DEF Whole
        <5>3. \A j \in 1..k2 - 1 : x[j].role = "user"
          BY <2>6, <4>1, <5>2 DEF UnitStart
        <5>4. ASSUME NEW q \in k..k3 - 1 PROVE y[q].role = "user"
          <6>1. q - k + 1 \in 1..n + 2 - k /\ a + (q - k + 1) \in 1..k2 - 1 /\ k + (q - k + 1) - 1 = q
            BY <1>3, <1>4, <2>1, <4>1
          <6>2. x[a + (q - k + 1)] = y[k + (q - k + 1) - 1]
            BY <1>6, <6>1
          <6>3. QED  BY <5>3, <6>1, <6>2
        <5>5. CASE p >= k
          <6>1. p \in k..k3 - 1
            BY <2>1, <5>5
          <6>2. QED  BY <5>4, <6>1
        <5>6. CASE p < k
          <6>1. k \in k..k3 - 1 /\ k # 1 /\ p \in 1..k - 1 /\ p \in 1..n
            BY <1>1, <1>3, <2>1, <4>4, <5>6
          <6>2. msgs[k].role = "user"
            BY <1>3, <5>1, <5>4, <6>1
          <6>3. UnitStart(msgs, k) /\ k \in DOMAIN msgs
            BY <1>1, <1>3, <5>1, <6>1 DEF Whole
          <6>4. \A j \in 1..k - 1 : msgs[j].role = "user"
            BY <6>2, <6>3 DEF UnitStart
          <6>5. QED  BY <1>3, <6>1, <6>4
        <5>7. QED  BY <1>4, <2>1, <5>5, <5>6
      <4>5. QED  BY <1>1, <1>3, <2>1, <4>2, <4>3, <4>4
    <3>6. ASSUME NEW b \in 1..n + 1, LastAt(y, b) PROVE k3 <= b
      <4>1. b \in 1..n /\ LastAt(msgs, b) /\ k <= b
        BY <1>8, <3>4, <3>6
      <4> DEFINE q == a + (b - k + 1)
      <4>2. b - k + 1 \in 1..n + 2 - k /\ q \in 1..Len(x) /\ k + (b - k + 1) - 1 = b
        BY <1>3, <1>4, <1>5, <4>1
      <4>3. x[q] = y[b]
        BY <1>6, <4>2
      <4>4. ASSUME NEW j \in 1..Len(x), j > q PROVE x[j].role = "user"
        <5>1. j - a \in 1..n + 2 - k /\ a + (j - a) = j /\ k + (j - a) - 1 \in 1..n + 1 /\ k + (j - a) - 1 > b
          BY <1>1, <1>3, <1>4, <1>5, <4>1, <4>4
        <5>2. x[a + (j - a)] = y[k + (j - a) - 1]
          BY <1>6, <5>1
        <5>3. \A i \in 1..n + 1 : i > b => y[i].role = "user"
          BY <1>3, <3>6 DEF LastAt
        <5>4. QED  BY <5>1, <5>2, <5>3
      <4>5. LastAt(x, q)
        <5>1. y[b].role = "assistant"
          BY <3>6 DEF LastAt
        <5> HIDE DEF q
        <5>2. QED  BY <4>2, <4>3, <4>4, <5>1 DEF LastAt
      <4>6. k2 = 1 \/ k2 <= q
        <5> HIDE DEF q
        <5>1. QED  BY <1>2, <4>2, <4>5 DEF Whole
      <4>7. QED  BY <1>3, <1>4, <2>1, <3>2, <4>1, <4>6
    <3>7. ASSUME AllUser(y) PROVE n + 2 - k3 >= 2 * max
      <4>1. AllUser(msgs)
        BY <1>9, <3>7
      <4>2. a = 0
        <5>1. a # 1
          BY <1>1, <1>3, <4>1 DEF AllUser
        <5>2. QED  BY <5>1
      <4>3. AllUser(x)
        <5>1. ASSUME NEW j \in 1..Len(x) PROVE x[j].role = "user"
          <6>1. j \in 1..n + 2 - k /\ a + j = j /\ k + j - 1 \in 1..n + 1
            BY <1>1, <1>3, <1>4, <1>5, <4>2
          <6>2. x[j] = y[k + j - 1]
            BY <1>6, <6>1
          <6>3. QED  BY <1>3, <3>7, <6>1, <6>2 DEF AllUser
        <5>2. QED  BY <5>1 DEF AllUser
      <4>4. CASE k2 = 1
        <5>1. k3 = k /\ n + 1 - k >= 2 * max
          BY <1>1, <3>1, <3>2, <4>1, <4>4 DEF Whole
        <5>2. QED  BY <1>3, <1>4, <1>10, <3>3, <5>1
      <4>5. CASE k2 # 1
        <5>1. Len(x) + 1 - k2 >= 2 * max
          BY <1>2, <4>3, <4>5 DEF Whole
        <5>2. QED  BY <2>4, <5>1
      <4>6. QED  BY <4>4, <4>5
    <3>8. n + 2 - k3 = Len(y) + 1 - k3
      BY <1>3, <2>1
    <3>9. QED  BY <1>3, <3>3, <3>5, <3>6, <3>7, <3>8 DEF Whole
  <2>9. k3 \in 1..Len(y) + 1
    BY <1>3, <2>1
  <2>10. Keeps(new, y, max)
    BY <2>5, <2>7, <2>8, <2>9 DEF Keeps
  <2>11. QED  BY <2>10 DEF y
<1>13. CASE ~(k2 >= a + 1)
  <2>1. a = 1 /\ k2 = 1
    BY <1>1, <1>2, <1>4, <1>13
  <2>2. a2 = 0
    BY <1>2, <1>7, <2>1
  <2>3. Len(new) = Len(x) /\ \A j \in 1..Len(x) : new[j] = x[j]
    <3>1. /\ Len(new) = a2 + (Len(x) + 1 - k2)
          /\ \A j \in 1..Len(x) + 1 - k2 : new[a2 + j] = x[k2 + j - 1]
      BY <1>2 DEF Part
    <3>2. Len(x) \in Nat /\ Len(x) + 1 - k2 = Len(x) /\ \A j \in 1..Len(x) : a2 + j = j /\ k2 + j - 1 = j
      BY <1>5, <2>1, <2>2
    <3>3. Len(new) = Len(x)
      BY <1>5, <2>1, <2>2, <3>1, <3>2
    <3>4. ASSUME NEW j \in 1..Len(x) PROVE new[j] = x[j]
      <4>1. new[a2 + j] = x[k2 + j - 1] /\ a2 + j = j /\ k2 + j - 1 = j
        BY <3>1, <3>2, <2>1, <2>2
      <4>2. QED  BY <4>1
    <3>5. QED  BY <3>3, <3>4
  <2>4. k \in 1..n /\ msgs[k].role = "assistant" /\ y[k] = msgs[k] /\ k \in 1..Len(y) + 1 /\ k <= Len(y)
    BY <1>1, <1>3, <2>1
  <2>5. Part(new, y, k, 1)
    <3>1. Len(new) = 1 + (Len(y) + 1 - k)
      BY <1>3, <1>4, <1>5, <2>1, <2>3
    <3>2. ASSUME NEW j \in 1..Len(y) + 1 - k PROVE new[1 + j] = y[k + j - 1]
      <4>1. j \in 1..n + 2 - k /\ 1 + j \in 1..Len(x)
        BY <1>3, <1>4, <1>5, <2>1
      <4>2. QED  BY <1>6, <2>1, <2>3, <4>1
    <3>3. new[1] = x[1]
      <4>1. 1 \in 1..Len(x)
        BY <1>1, <1>3, <1>5, <2>1, <2>4
      <4>2. QED  BY <2>3, <4>1
    <3>4. QED  BY <1>7, <2>1, <2>4, <3>1, <3>2, <3>3 DEF Part
  <2>6. Whole(y, k, max)
    <3>1. UnitStart(y, k)
      BY <2>4 DEF UnitStart
    <3>2. ~AllUser(y)
      BY <2>4 DEF AllUser
    <3>3. k = 1 \/ max # NoLimit
      BY <1>1 DEF Whole
    <3>4. ASSUME NEW b \in 1..Len(y), LastAt(y, b) PROVE k <= b
      <4>1. b \in 1..n /\ LastAt(msgs, b)
        BY <1>3, <1>8, <3>4
      <4>2. QED  BY <1>1, <4>1 DEF Whole
    <3>5. QED  BY <3>1, <3>2, <3>3, <3>4 DEF Whole
  <2>7. 1 \in {0, 1}
    OBVIOUS
  <2>8. Keeps(new, y, max)
    BY <2>4, <2>5, <2>6, <2>7 DEF Keeps
  <2>9. QED  BY <2>8 DEF y
<1>14. QED  BY <1>12, <1>13

\* The assistant's last message in what is left was the last before, as far from the end.
LEMMA PartLast ==
  \A have, msgs \in Seq(Message), k, a, b \in Nat : Part(have, msgs, k, a) /\ LastAt(have, b) =>
    \E c \in Nat : c >= k /\ b = a + (c - k + 1) /\ LastAt(msgs, c) /\ Len(msgs) - c = Len(have) - b /\ have[b] = msgs[c]
<1> SUFFICES ASSUME NEW have \in Seq(Message), NEW msgs \in Seq(Message), NEW k \in Nat, NEW a \in Nat, NEW b \in Nat,
                    Part(have, msgs, k, a), LastAt(have, b)
             PROVE  \E c \in Nat : /\ c >= k /\ b = a + (c - k + 1) /\ LastAt(msgs, c)
                                   /\ Len(msgs) - c = Len(have) - b /\ have[b] = msgs[c]
  OBVIOUS
<1> DEFINE n == Len(msgs)
           c == b + k - a - 1
<1>1. /\ n \in Nat /\ a \in {0, 1} /\ k \in 1..n + 1 /\ Len(have) = a + (n + 1 - k)
      /\ a = 1 => have[1].role = "user"
      /\ \A j \in 1..n + 1 - k : have[a + j] = msgs[k + j - 1]
  BY DEF Part
<1>2. /\ b \in 1..Len(have) /\ have[b].role = "assistant"
      /\ \A j \in 1..Len(have) : j > b => have[j].role = "user"
  BY DEF LastAt
<1>3. b >= a + 1
  BY <1>1, <1>2
<1>4. c \in 1..n /\ c >= k /\ b = a + (c - k + 1) /\ n - c = Len(have) - b /\ c - k + 1 \in 1..n + 1 - k /\ k + (c - k + 1) - 1 = c
  BY <1>1, <1>2, <1>3
<1> HIDE DEF c, n
<1>5. have[b] = msgs[c]
  BY <1>1, <1>4
<1>6. ASSUME NEW j \in 1..n, j > c PROVE msgs[j].role = "user"
  <2>1. j - k + 1 \in 1..n + 1 - k /\ k + (j - k + 1) - 1 = j /\ a + (j - k + 1) \in 1..Len(have) /\ a + (j - k + 1) > b
    BY <1>1, <1>4, <1>6
  <2>2. have[a + (j - k + 1)] = msgs[j]
    BY <1>1, <2>1
  <2>3. QED  BY <1>2, <2>1, <2>2
<1>7. LastAt(msgs, c)
  BY <1>2, <1>4, <1>5, <1>6 DEF LastAt, n
<1>8. c \in Nat
  BY <1>1, <1>4
<1>9. QED  BY <1>4, <1>5, <1>7, <1>8 DEF n

\* A message of the user's is not the assistant's last.
LEMMA AppendLast ==
  \A msgs \in Seq(Message), m \in Message, b \in Nat :
    m.role = "user" /\ LastAt(Append(msgs, m), b) => b \in 1..Len(msgs) /\ LastAt(msgs, b)
<1> SUFFICES ASSUME NEW msgs \in Seq(Message), NEW m \in Message, NEW b \in Nat,
                    m.role = "user", LastAt(Append(msgs, m), b)
             PROVE  b \in 1..Len(msgs) /\ LastAt(msgs, b)
  OBVIOUS
<1> DEFINE n == Len(msgs)
           y == Append(msgs, m)
<1>1. /\ n \in Nat /\ Len(y) = n + 1 /\ y[n + 1] = m /\ \A j \in 1..n : y[j] = msgs[j]
      /\ \A j \in 1..n + 1 : j \in 1..n \/ j = n + 1
  OBVIOUS
<1>2. /\ b \in 1..n + 1 /\ y[b].role = "assistant"
      /\ \A j \in 1..n + 1 : j > b => y[j].role = "user"
  BY <1>1 DEF LastAt
<1> HIDE DEF y
<1>3. b \in 1..n
  BY <1>1, <1>2
<1>4. \A j \in 1..n : j > b => msgs[j].role = "user"
  BY <1>1, <1>2
<1>5. QED  BY <1>1, <1>2, <1>3, <1>4 DEF LastAt

\* What is left has the room that was there.
LEMMA PartRoom ==
  \A have, msgs \in Seq(Message), k, a, n \in Nat, max \in LimitType :
    Part(have, msgs, k, a) /\ Room(msgs, n, max) => Room(have, n, max)
<1> SUFFICES ASSUME NEW have \in Seq(Message), NEW msgs \in Seq(Message), NEW k \in Nat, NEW a \in Nat, NEW n \in Nat,
                    NEW max \in LimitType, Part(have, msgs, k, a), Room(msgs, n, max), max # NoLimit
             PROVE  max > 0 /\ \A b \in 1..Len(have) : LastAt(have, b) => Len(have) - b + 1 + n <= 2 * max
  BY DEF Room
<1>1. max > 0 /\ \A b \in 1..Len(msgs) : LastAt(msgs, b) => Len(msgs) - b + 1 + n <= 2 * max
  BY DEF Room
<1>2. ASSUME NEW b \in 1..Len(have), LastAt(have, b) PROVE Len(have) - b + 1 + n <= 2 * max
  <2>1. PICK c \in Nat : LastAt(msgs, c) /\ Len(msgs) - c = Len(have) - b
    <3>1. b \in Nat
      OBVIOUS
    <3>2. QED  BY <1>2, <3>1, PartLast
  <2>2. c \in 1..Len(msgs)
    BY <2>1 DEF LastAt
  <2>3. Len(msgs) - c + 1 + n <= 2 * max
    BY <1>1, <2>1, <2>2
  <2>4. QED  BY <2>1, <2>3
<1>3. QED  BY <1>1, <1>2

\* The same of a trim.
LEMMA KeepsRoom ==
  \A have, msgs \in Seq(Message), n \in Nat, max \in LimitType :
    Keeps(have, msgs, max) /\ Room(msgs, n, max) => Room(have, n, max)
<1> SUFFICES ASSUME NEW have \in Seq(Message), NEW msgs \in Seq(Message), NEW n \in Nat, NEW max \in LimitType,
                    Keeps(have, msgs, max), Room(msgs, n, max)
             PROVE  Room(have, n, max)
  OBVIOUS
<1>1. PICK k \in 1..Len(msgs) + 1, a \in {0, 1} : Part(have, msgs, k, a)
  BY DEF Keeps
<1>2. k \in Nat /\ a \in Nat
  OBVIOUS
<1>3. QED  BY <1>1, <1>2, PartRoom

\* A message of the user's takes one place of the room.
LEMMA RoomAppend ==
  \A msgs \in Seq(Message), m \in Message, n \in Nat, max \in LimitType :
    m.role = "user" /\ Room(msgs, n + 1, max) => Room(Append(msgs, m), n, max)
<1> SUFFICES ASSUME NEW msgs \in Seq(Message), NEW m \in Message, NEW n \in Nat, NEW max \in LimitType,
                    m.role = "user", Room(msgs, n + 1, max), max # NoLimit
             PROVE  Room(Append(msgs, m), n, max)
  BY DEF Room
<1>1. max > 0 /\ (\A b \in 1..Len(msgs) : LastAt(msgs, b) => Len(msgs) - b + 1 + (n + 1) <= 2 * max) /\ 2 * max \in Nat
  BY DEF Room, LimitType
<1> DEFINE y == Append(msgs, m)
<1>2. Len(y) = Len(msgs) + 1 /\ Len(msgs) \in Nat
  OBVIOUS
<1>3. ASSUME NEW b \in 1..Len(y), LastAt(y, b) PROVE Len(y) - b + 1 + n <= 2 * max
  <2>1. b \in 1..Len(msgs) /\ LastAt(msgs, b)
    <3>1. b \in Nat
      BY <1>2
    <3>2. QED  BY <1>3, <3>1, AppendLast
  <2> HIDE DEF y
  <2>2. Len(msgs) - b + 1 + (n + 1) <= 2 * max
    BY <1>1, <2>1
  <2>3. QED  BY <1>1, <1>2, <2>1, <2>2
<1> HIDE DEF y
<1>4. Room(y, n, max)
  BY <1>1, <1>3 DEF Room
<1>5. QED  BY <1>4 DEF y

\* Less room is asked for.
LEMMA RoomLess ==
  \A msgs \in Seq(Message), n, few \in Nat, max \in LimitType : Room(msgs, n, max) /\ few <= n => Room(msgs, few, max)
<1> SUFFICES ASSUME NEW msgs \in Seq(Message), NEW n \in Nat, NEW few \in Nat, NEW max \in LimitType,
                    Room(msgs, n, max), few <= n, max # NoLimit
             PROVE  Room(msgs, few, max)
  BY DEF Room
<1>1. max > 0 /\ (\A b \in 1..Len(msgs) : LastAt(msgs, b) => Len(msgs) - b + 1 + n <= 2 * max) /\ 2 * max \in Nat
  BY DEF Room, LimitType
<1>2. ASSUME NEW b \in 1..Len(msgs), LastAt(msgs, b) PROVE Len(msgs) - b + 1 + few <= 2 * max
  <2>1. Len(msgs) - b + 1 + n <= 2 * max /\ Len(msgs) \in Nat
    BY <1>1, <1>2
  <2>2. QED  BY <1>1, <2>1
<1>3. QED  BY <1>1, <1>2 DEF Room

\* A memory with room behind the assistant's last message.
LEMMA RoomOfAnswer ==
  \A msgs \in Seq(Message), m \in Message, n \in Nat, max \in LimitType :
    m.role = "assistant" /\ (max # NoLimit => 1 + n <= 2 * max) => Room(Append(msgs, m), n, max)
<1> SUFFICES ASSUME NEW msgs \in Seq(Message), NEW m \in Message, NEW n \in Nat, NEW max \in LimitType,
                    m.role = "assistant", 1 + n <= 2 * max, max # NoLimit
             PROVE  Room(Append(msgs, m), n, max)
  BY DEF Room
<1> DEFINE y == Append(msgs, m)
<1>1. Len(y) = Len(msgs) + 1 /\ Len(msgs) \in Nat /\ y[Len(y)] = m /\ max \in Nat
  BY DEF LimitType
<1> HIDE DEF y
<1>2. max > 0
  BY <1>1
<1>3. ASSUME NEW b \in 1..Len(y), LastAt(y, b) PROVE Len(y) - b + 1 + n <= 2 * max
  <2>1. Len(y) \in 1..Len(y)
    BY <1>1
  <2>2. ~(Len(y) > b)
    BY <1>1, <1>3, <2>1 DEF LastAt
  <2>3. Len(y) = b
    BY <1>1, <2>2
  <2>4. QED  BY <1>1, <2>3
<1>4. Room(y, n, max)
  BY <1>2, <1>3 DEF Room
<1>5. QED  BY <1>4 DEF y

\* Untouched.
LEMMA KeepsSelf ==
  \A msgs \in Seq(Message), max \in LimitType : Keeps(msgs, msgs, max)
<1> SUFFICES ASSUME NEW msgs \in Seq(Message), NEW max \in LimitType PROVE Keeps(msgs, msgs, max)
  OBVIOUS
<1> DEFINE n == Len(msgs)
<1>1. n \in Nat
  OBVIOUS
<1>2. Part(msgs, msgs, 1, 0)
  BY <1>1 DEF Part
<1>3. 1 \in 1..n + 1 /\ 0 \in {0, 1} /\ 0 # 1 /\ Whole(msgs, 1, max)
  BY <1>1 DEF Whole
<1> HIDE DEF n
<1>4. QED  BY <1>2, <1>3 DEF Keeps, n

\* The first i of some new messages behind the others.
Upto(msgs, new, i) == msgs \o SubSeq(new, 1, i)

\* From none of them to all of them.
LEMMA UptoFacts ==
  \A msgs, new \in Seq(Message) :
    /\ Upto(msgs, new, 0) = msgs
    /\ Upto(msgs, new, Len(new)) = msgs \o new
    /\ \A i \in Nat : i + 1 <= Len(new) => Upto(msgs, new, i + 1) = Append(Upto(msgs, new, i), new[i + 1])
    /\ \A i \in Nat : i <= Len(new) => Upto(msgs, new, i) \in Seq(Message)
<1> SUFFICES ASSUME NEW msgs \in Seq(Message), NEW new \in Seq(Message)
             PROVE  /\ Upto(msgs, new, 0) = msgs
                    /\ Upto(msgs, new, Len(new)) = msgs \o new
                    /\ \A i \in Nat : i + 1 <= Len(new) => Upto(msgs, new, i + 1) = Append(Upto(msgs, new, i), new[i + 1])
                    /\ \A i \in Nat : i <= Len(new) => Upto(msgs, new, i) \in Seq(Message)
  OBVIOUS
<1>1. ASSUME NEW i \in Nat, i <= Len(new)
      PROVE  /\ SubSeq(new, 1, i) \in Seq(Message) /\ Len(SubSeq(new, 1, i)) = i
             /\ \A j \in 1..i : SubSeq(new, 1, i)[j] = new[j]
  BY <1>1
<1>2. ASSUME NEW i \in Nat, i <= Len(new)
      PROVE  /\ Upto(msgs, new, i) \in Seq(Message) /\ Len(Upto(msgs, new, i)) = Len(msgs) + i
             /\ \A j \in 1..Len(msgs) : Upto(msgs, new, i)[j] = msgs[j]
             /\ \A j \in 1..i : Upto(msgs, new, i)[Len(msgs) + j] = new[j]
  <2> DEFINE w == SubSeq(new, 1, i)
  <2>1. w \in Seq(Message) /\ Len(w) = i /\ \A j \in 1..i : w[j] = new[j]
    BY <1>1, <1>2
  <2> HIDE DEF w
  <2>2. /\ msgs \o w \in Seq(Message) /\ Len(msgs \o w) = Len(msgs) + Len(w)
        /\ \A j \in 1..Len(msgs) : (msgs \o w)[j] = msgs[j]
        /\ \A j \in 1..Len(w) : (msgs \o w)[Len(msgs) + j] = w[j]
    <3>1. msgs \in Seq(Message) /\ w \in Seq(Message)
      BY <2>1
    <3>2. QED  BY ONLY <3>1, Joined
  <2>3. QED  BY <2>1, <2>2 DEF Upto, w
<1>3. Upto(msgs, new, 0) = msgs
  <2> DEFINE a == Upto(msgs, new, 0)
  <2>1. a \in Seq(Message) /\ Len(a) = Len(msgs) /\ \A j \in 1..Len(msgs) : a[j] = msgs[j]
    BY <1>2
  <2> HIDE DEF a
  <2>2. a = msgs
    BY <2>1, SameMessages
  <2>3. QED  BY <2>2 DEF a
<1>4. Upto(msgs, new, Len(new)) = msgs \o new
  <2>1. SubSeq(new, 1, Len(new)) = new
    OBVIOUS
  <2>2. QED  BY <2>1 DEF Upto
<1>5. ASSUME NEW i \in Nat, i + 1 <= Len(new) PROVE Upto(msgs, new, i + 1) = Append(Upto(msgs, new, i), new[i + 1])
  <2> DEFINE a == Upto(msgs, new, i)
             b == Upto(msgs, new, i + 1)
             m == new[i + 1]
             n == Len(msgs)
  <2>1. /\ n \in Nat /\ a \in Seq(Message) /\ Len(a) = n + i /\ \A j \in 1..n : a[j] = msgs[j]
        /\ \A j \in 1..i : a[n + j] = new[j]
    BY <1>2, <1>5
  <2>2. /\ b \in Seq(Message) /\ Len(b) = n + (i + 1) /\ \A j \in 1..n : b[j] = msgs[j]
        /\ \A j \in 1..i + 1 : b[n + j] = new[j]
    BY <1>2, <1>5
  <2>3. m \in Message
    BY <1>5
  <2> HIDE DEF a, b, m, n
  <2>4. Append(a, m) \in Seq(Message) /\ Len(Append(a, m)) = n + i + 1 /\ Append(a, m)[n + i + 1] = m /\ \A j \in 1..n + i : Append(a, m)[j] = a[j]
    BY <2>1, <2>3
  <2>5. ASSUME NEW j \in 1..n + i + 1 PROVE b[j] = Append(a, m)[j]
    <3>1. CASE j \in 1..n
      <4>1. j \in 1..n + i
        BY <2>1, <3>1
      <4>2. QED  BY <2>1, <2>2, <2>4, <3>1, <4>1
    <3>2. CASE j \in n + 1..n + i
      <4>1. j - n \in 1..i /\ j - n \in 1..i + 1 /\ n + (j - n) = j /\ j \in 1..n + i
        BY <2>1, <3>2
      <4>2. QED  BY <2>1, <2>2, <2>4, <4>1
    <3>3. CASE j = n + i + 1
      <4>1. i + 1 \in 1..i + 1 /\ n + (i + 1) = j
        BY <2>1, <3>3
      <4>2. b[j] = new[i + 1]
        BY <2>2, <4>1
      <4>3. QED  BY <2>4, <3>3, <4>2 DEF m
    <3>4. QED  BY <2>1, <3>1, <3>2, <3>3
  <2> DEFINE c == Append(a, m)
  <2>6. b \in Seq(Message) /\ c \in Seq(Message) /\ Len(b) = Len(c) /\ \A j \in Nat : j \in 1..Len(b) => b[j] = c[j]
    BY <2>1, <2>2, <2>4, <2>5
  <2> HIDE DEF c
  <2>7. b = c
    BY <2>6, SameMessages
  <2>8. QED  BY <2>7 DEF a, b, c, m
<1>6. QED  BY <1>2, <1>3, <1>4, <1>5

\* The user's messages added one by one come to all of them added and one trim.
LEMMA AddAllKeeps ==
  \A msgs, new \in Seq(Message), max \in LimitType :
    (\A i \in 1..Len(new) : new[i].role = "user") /\ Room(msgs, Len(new), max) =>
      Keeps(AddAll(msgs, new, max), msgs \o new, max)
<1> SUFFICES ASSUME NEW msgs \in Seq(Message), NEW new \in Seq(Message), NEW max \in LimitType,
                    \A i \in 1..Len(new) : new[i].role = "user", Room(msgs, Len(new), max)
             PROVE  Keeps(AddAll(msgs, new, max), msgs \o new, max)
  OBVIOUS
<1> DEFINE n == Len(new)
           M == Seq(Message)
           all(i) == Upto(msgs, new, i)
<1>1. n \in Nat /\ (\A i \in 1..n : new[i] \in Message) /\ msgs \in M
  OBVIOUS
<1>2. PICK add \in [0..n -> M] :
        /\ add[0] = msgs
        /\ \A i \in 1..n : add[i] = Add(add[i - 1], new[i], max)
        /\ AddAll(msgs, new, max) = add[n]
  BY AddAllSteps
<1>3. /\ all(0) = msgs /\ all(n) = msgs \o new
      /\ \A i \in Nat : i + 1 <= n => all(i + 1) = Append(all(i), new[i + 1])
      /\ \A i \in Nat : i <= n => all(i) \in M
  BY UptoFacts
<1> HIDE DEF all
<1> DEFINE Fine(i) == Keeps(add[i], all(i), max) /\ Room(all(i), n - i, max)
           S == {i \in Nat : i <= n => Fine(i)}
<1>4. 0 \in S
  <2>1. Keeps(msgs, msgs, max) /\ Room(msgs, n, max) /\ n - 0 = n
    BY <1>1, KeepsSelf
  <2> HIDE DEF n
  <2>2. QED  BY <1>2, <1>3, <2>1
<1>5. ASSUME NEW i \in S PROVE i + 1 \in S
  <2>1. SUFFICES ASSUME i + 1 <= n PROVE Fine(i + 1)
    OBVIOUS
  <2> DEFINE k == i + 1
             m == new[k]
             left == n - k
             x == Append(add[i], m)
             y == Append(all(i), m)
  <2>2. i \in Nat /\ k \in 1..n /\ k - 1 = i /\ i \in 0..n /\ k \in 0..n /\ left \in Nat /\ n - i = left + 1 /\ Fine(i)
    BY <1>1, <2>1
  <2>3. add[i] \in M /\ add[k] \in M /\ all(i) \in M /\ m \in Message /\ m.role = "user" /\ all(k) = y
    <3>1. add[i] \in M /\ add[k] \in M
      <4> HIDE DEF k, M, n, S
      <4>1. QED  BY <2>2
    <3>2. all(i) \in M /\ all(k) = y
      BY <1>1, <1>3, <2>1, <2>2
    <3>3. m \in Message /\ m.role = "user"
      BY <1>1, <2>2
    <3>4. QED  BY <3>1, <3>2, <3>3
  <2>4. x \in M /\ y \in M
    BY <2>3
  <2>5. add[k] = Trim(x, max)
    <3>1. add[k] = Add(add[k - 1], new[k], max)
      BY <1>2, <2>2
    <3>2. QED  BY <2>2, <3>1 DEF Add
  <2> HIDE DEF k, n, m, left
  <2>6. Room(add[i], left + 1, max) /\ Room(all(i), left + 1, max)
    BY <2>2, <2>3, KeepsRoom
  <2>7. Room(x, left, max) /\ Room(y, left, max)
    BY <2>2, <2>3, <2>6, RoomAppend
  <2>8. Room(x, 0, max)
    <3>1. 0 \in Nat /\ 0 <= left
      BY <2>2
    <3> HIDE DEF x
    <3>2. QED  BY <2>2, <2>4, <2>7, <3>1, RoomLess
  <2>9. Keeps(add[k], x, max)
    BY <2>4, <2>5, <2>8, TrimKeeps
  <2>10. Keeps(add[k], y, max)
    BY <2>2, <2>3, <2>9, KeepsAppend
  <2>11. Fine(k)
    BY <2>3, <2>7, <2>10 DEF left
  <2>12. QED  BY <2>11 DEF k
<1>6. S = Nat
  <2>1. S \in SUBSET Nat
    OBVIOUS
  <2> HIDE DEF S
  <2>2. QED  BY <1>4, <1>5, <2>1, SetInduction
<1>7. Fine(n)
  <2>1. n \in S /\ n <= n
    BY <1>1, <1>6
  <2> HIDE DEF n, Fine
  <2>2. QED  BY <2>1
<1>8. QED  BY <1>2, <1>3, <1>7

\* The cut is at a turn of the user's.
LEMMA CutIsBoundary ==
  \A msgs \in Seq(Message) : \A tail :
    FindCutPoint(msgs, tail) # 0 => IsTurnBoundary(msgs[FindCutPoint(msgs, tail)])
<1> SUFFICES ASSUME NEW msgs \in Seq(Message), NEW tail, FindCutPoint(msgs, tail) # 0
             PROVE  IsTurnBoundary(msgs[FindCutPoint(msgs, tail)])
  OBVIOUS
<1> DEFINE turns  == {i \in DOMAIN msgs : IsTurnBoundary(msgs[i])}
           ahead  == {i \in turns : i >= tail}
           behind == {i \in turns : i <= tail}
           first  == CHOOSE i \in ahead : \A j \in ahead : i <= j
           last   == CHOOSE i \in behind : \A j \in behind : j <= i
           cut    == IF ahead # {} THEN first ELSE IF behind # {} THEN last ELSE 0
<1>1. DOMAIN msgs = 1..Len(msgs) /\ Len(msgs) \in Nat
  OBVIOUS
<1>2. turns \in SUBSET (1..Len(msgs)) /\ ahead \in SUBSET turns /\ behind \in SUBSET turns
  BY <1>1
<1>3. FindCutPoint(msgs, tail) = IF cut > 2 THEN cut ELSE 0
  BY DEF FindCutPoint
<1>4. ahead # {} => first \in ahead
  <2>1. ahead \in SUBSET Nat
    BY <1>2
  <2>2. ahead # {} => \E i \in ahead : \A j \in ahead : i <= j
    <3> HIDE DEF ahead
    <3> QED  BY <2>1, SmallestExists
  <2>3. QED  BY <2>2
<1>5. behind # {} => last \in behind
  <2>1. behind \in SUBSET (1..Len(msgs))
    BY <1>2
  <2>2. behind # {} => \E i \in behind : \A j \in behind : j <= i
    <3> HIDE DEF behind
    <3> QED  BY <1>1, <2>1, LargestExists
  <2>3. QED  BY <2>2
<1>6. \A i \in turns : IsTurnBoundary(msgs[i])
  OBVIOUS
<1> HIDE DEF turns, ahead, behind, first, last
<1>7. cut \in turns \/ cut = 0
  BY <1>2, <1>4, <1>5
<1> HIDE DEF cut
<1>8. FindCutPoint(msgs, tail) = cut
  BY <1>3
<1>9. QED  BY <1>6, <1>7, <1>8

\* A compaction with room for what it keeps: the summary, then a part that begins
\* with the user's turn.
LEMMA CompactPart ==
  \A msgs, have \in Seq(Message), max \in LimitType :
    Fits(msgs, max) /\ (max # NoLimit => max > 0) /\ have \in Compactions(msgs, max) =>
      \E k \in 1..Len(msgs) : k > 2 /\ Part(have, msgs, k, 1) /\ IsTurnBoundary(msgs[k])
<1> SUFFICES ASSUME NEW msgs \in Seq(Message), NEW have \in Seq(Message), NEW max \in LimitType,
                    Fits(msgs, max), max # NoLimit => max > 0, have \in Compactions(msgs, max)
             PROVE  \E k \in 1..Len(msgs) : k > 2 /\ Part(have, msgs, k, 1) /\ IsTurnBoundary(msgs[k])
  OBVIOUS
<1>1. PICK tail \in 2..Len(msgs) + 1 : have = Compact(msgs, tail, max) /\ have # <<>>
  BY DEF Compactions
<1> DEFINE cut == FindCutPoint(msgs, tail)
           rest == SubSeq(msgs, cut, Len(msgs))
           summary == <<Human("summary")>>
           new == summary \o rest
           none == <<>>
           n == Len(new)
<1>2. cut # 0
  BY <1>1 DEF Compact
<1>3. cut \in 1..Len(msgs) /\ cut > 2 /\ Len(msgs) \in Nat
  BY <1>2, FindCutPointFacts
<1>4. IsTurnBoundary(msgs[cut])
  BY <1>2, CutIsBoundary
<1>5. have = AddAll(none, new, max)
  BY <1>1, <1>2 DEF Compact
<1> HIDE DEF cut
<1>6. /\ rest \in Seq(Message) /\ Len(rest) = Len(msgs) + 1 - cut
      /\ \A j \in 1..Len(msgs) + 1 - cut : rest[j] = msgs[cut + j - 1]
  BY <1>3
<1>7. /\ summary \in Seq(Message) /\ Len(summary) = 1 /\ summary[1].role = "user"
      /\ summary[1].uses = <<>> /\ summary[1].answers = NoCall
  BY DEF Human, Message, Texts
<1> HIDE DEF rest, summary
<1>8. /\ new \in Seq(Message) /\ n = 1 + (Len(msgs) + 1 - cut) /\ new[1] = summary[1]
      /\ \A j \in 1..Len(msgs) + 1 - cut : new[1 + j] = rest[j]
  <2>1. /\ summary \o rest \in Seq(Message) /\ Len(summary \o rest) = Len(summary) + Len(rest)
        /\ \A i \in 1..Len(summary) : (summary \o rest)[i] = summary[i]
        /\ \A i \in 1..Len(rest) : (summary \o rest)[Len(summary) + i] = rest[i]
    <3>1. summary \in Seq(Message) /\ rest \in Seq(Message)
      BY <1>6, <1>7
    <3>2. QED  BY ONLY <3>1, Joined
  <2> HIDE DEF new
  <2>2. QED  BY <1>6, <1>7, <2>1 DEF new
<1> HIDE DEF new
<1>9. Part(new, msgs, cut, 1)
  <2>1. ASSUME NEW j \in 1..Len(msgs) + 1 - cut PROVE new[1 + j] = msgs[cut + j - 1]
    BY <1>6, <1>8
  <2>2. 1 \in {0, 1} /\ cut \in 1..Len(msgs) + 1 /\ new[1].role = "user" /\ new[1].uses = <<>> /\ new[1].answers = NoCall
    BY <1>3, <1>7, <1>8
  <2>3. QED  BY <1>8, <2>1, <2>2 DEF Part
<1>10. max # NoLimit => n <= 2 * max
  BY <1>3, <1>8 DEF Fits, LimitType
<1>11. n \in Nat /\ new[1].role = "user" /\ \A i \in 1..n : new[i] \in Message
  BY <1>7, <1>8
<1>12. none \in Seq(Message)
  OBVIOUS
<1> DEFINE all(i) == Upto(none, new, i)
<1>13. /\ all(0) = none /\ all(n) = none \o new
       /\ \A i \in Nat : i + 1 <= n => all(i + 1) = Append(all(i), new[i + 1])
       /\ \A i \in Nat : i <= n => all(i) \in Seq(Message)
  BY <1>8, <1>12, UptoFacts
<1>14. none \o new = new
  BY <1>8
<1>15. \A i \in 1..n : all(i) \in Seq(Message) /\ Len(all(i)) = i /\ all(i)[1].role = "user"
  <2> TAKE i \in 1..n
  <2> DEFINE part == SubSeq(new, 1, i)
  <2>1. part \in Seq(Message) /\ Len(part) = i /\ part[1] = new[1]
    BY <1>8, <1>11
  <2>2. all(i) = part
    BY <2>1 DEF Upto
  <2> HIDE DEF part, all
  <2>3. QED  BY <1>11, <2>1, <2>2
<1> HIDE DEF all, n, none
<1>16. PICK add \in [0..n -> Seq(Message)] :
         /\ add[0] = none
         /\ \A i \in 1..n : add[i] = Add(add[i - 1], new[i], max)
         /\ AddAll(none, new, max) = add[n]
  <2>1. none \in Seq(Message) /\ new \in Seq(Message)
    BY <1>8, <1>12
  <2>2. \E add \in [0..Len(new) -> Seq(Message)] :
          /\ add[0] = none
          /\ \A i \in 1..Len(new) : add[i] = Add(add[i - 1], new[i], max)
          /\ AddAll(none, new, max) = add[Len(new)]
    BY <2>1, AddAllSteps
  <2>3. QED  BY <2>2 DEF n
<1>17. ASSUME NEW i \in 1..n PROVE Trim(all(i), max) = all(i)
  <2> DEFINE x == all(i)
  <2>1. x \in Seq(Message) /\ Len(x) = i /\ x[1].role = "user" /\ i \in Nat /\ i > 0 /\ i <= n
    BY <1>11, <1>15
  <2> HIDE DEF x
  <2>2. CASE max = NoLimit
    BY <2>2 DEF Trim, x
  <2>3. CASE max # NoLimit
    <3>1. max \in Nat /\ max > 0 /\ Len(x) <= 2 * max
      BY <1>10, <1>11, <2>1, <2>3 DEF LimitType
    <3>2. Trim(x, max) = Anchored(x)
      BY <2>1, <3>1, TrimShort
    <3>3. Head(x).role = "user"
      BY <2>1
    <3>4. Anchored(x) = x
      BY <3>3 DEF Anchored
    <3>5. QED  BY <3>2, <3>4 DEF x
  <2>4. QED  BY <2>2, <2>3
<1> DEFINE S == {i \in Nat : i <= n => add[i] = all(i)}
<1>18. 0 \in S
  BY <1>13, <1>16
<1>19. ASSUME NEW i \in S PROVE i + 1 \in S
  <2>1. SUFFICES ASSUME i + 1 <= n PROVE add[i + 1] = all(i + 1)
    OBVIOUS
  <2> DEFINE k == i + 1
  <2>2. i \in Nat /\ k \in 1..n /\ k - 1 = i /\ add[i] = all(i) /\ all(k) = Append(all(i), new[k])
    <3>1. i \in Nat /\ k \in 1..n /\ k - 1 = i /\ i <= n
      BY <1>11, <2>1
    <3>2. add[i] = all(i)
      BY <3>1
    <3>3. all(k) = Append(all(i), new[k])
      BY <1>13, <2>1, <3>1
    <3>4. QED  BY <3>1, <3>2, <3>3
  <2> HIDE DEF k
  <2>3. add[k] = Add(all(i), new[k], max)
    BY <1>16, <2>2
  <2>4. add[k] = Trim(all(k), max)
    BY <2>2, <2>3 DEF Add
  <2>5. add[k] = all(k)
    BY <1>17, <2>2, <2>4
  <2>6. QED  BY <2>5 DEF k
<1>20. S = Nat
  <2>1. S \in SUBSET Nat
    OBVIOUS
  <2> HIDE DEF S
  <2>2. QED  BY <1>18, <1>19, <2>1, SetInduction
<1>21. add[n] = all(n)
  <2>1. n \in S /\ n <= n
    <3> HIDE DEF S
    <3>1. QED  BY <1>11, <1>20
  <2>2. QED  BY <2>1
<1>22. have = new
  BY <1>5, <1>13, <1>14, <1>16, <1>21
<1>23. QED  BY <1>3, <1>4, <1>9, <1>22

\* new stands at the end of msgs.
Ends(msgs, new) ==
  /\ Len(new) <= Len(msgs)
  /\ \A i \in 1..Len(new) : msgs[Len(msgs) - Len(new) + i] = new[i]

\* What the user has said last is not trimmed away.
LEMMA KeepsEnds ==
  \A have, msgs, new \in Seq(Message), max \in LimitType :
    Keeps(have, msgs, max) /\ Ends(msgs, new) /\ AllUser(new) /\ (max # NoLimit => Len(new) <= 2 * max) => Ends(have, new)
<1> SUFFICES ASSUME NEW have \in Seq(Message), NEW msgs \in Seq(Message), NEW new \in Seq(Message), NEW max \in LimitType,
                    Keeps(have, msgs, max), Ends(msgs, new), AllUser(new), max # NoLimit => Len(new) <= 2 * max
             PROVE  Ends(have, new)
  OBVIOUS
<1> DEFINE n == Len(msgs)
           t == Len(new)
<1>1. n \in Nat /\ t \in Nat /\ t <= n
  BY DEF Ends
<1>2. PICK k \in 1..n + 1, a \in {0, 1} : Part(have, msgs, k, a) /\ Whole(msgs, k, max)
  BY DEF Keeps
<1>3. /\ Len(have) = a + (n + 1 - k) /\ a \in Nat /\ k \in Nat
      /\ \A j \in 1..n + 1 - k : have[a + j] = msgs[k + j - 1]
  BY <1>1, <1>2 DEF Part
<1>4. \A i \in 1..t : msgs[n - t + i] = new[i] /\ new[i].role = "user"
  BY DEF Ends, AllUser
<1> HIDE DEF n, t
<1>5. k <= n - t + 1
  <2>1. CASE k = 1
    BY <1>1, <2>1
  <2>2. CASE k # 1
    <3>1. /\ max # NoLimit
          /\ \A b \in 1..n : LastAt(msgs, b) => k <= b
          /\ AllUser(msgs) => n + 1 - k >= 2 * max
      BY <1>2, <2>2 DEF Whole, n
    <3>2. max \in Nat /\ t <= 2 * max
      BY <3>1 DEF LimitType, t
    <3>3. CASE AllUser(msgs)
      BY <1>1, <1>3, <3>1, <3>2, <3>3
    <3>4. CASE ~AllUser(msgs)
      <4>1. PICK b \in 1..n : LastAt(msgs, b)
        BY <3>4, LastExists DEF n
      <4>2. k <= b /\ msgs[b].role = "assistant"
        BY <3>1, <4>1 DEF LastAt
      <4>3. SUFFICES ASSUME b > n - t PROVE FALSE
        BY <1>1, <1>3, <4>2
      <4>4. b - (n - t) \in 1..t /\ n - t + (b - (n - t)) = b
        BY <1>1, <4>3
      <4>5. msgs[b].role = "user"
        BY <1>4, <4>4
      <4>6. QED  BY <4>2, <4>5
    <3>5. QED  BY <3>3, <3>4
  <2>3. QED  BY <2>1, <2>2
<1>6. t <= Len(have)
  BY <1>1, <1>3, <1>5
<1>7. ASSUME NEW i \in 1..t PROVE have[Len(have) - t + i] = new[i]
  <2> DEFINE j == n - t + i - k + 1
  <2>1. j \in 1..n + 1 - k /\ a + j = Len(have) - t + i /\ k + j - 1 = n - t + i
    BY <1>1, <1>3, <1>5
  <2> HIDE DEF j
  <2>2. have[a + j] = msgs[k + j - 1]
    BY <1>3, <2>1
  <2>3. QED  BY <1>4, <2>1, <2>2
<1>8. QED  BY <1>6, <1>7 DEF Ends, t

\* The same messages behind both.
LEMMA EndsJoin ==
  \A msgs, new, more \in Seq(Message) : Ends(msgs, new) => Ends(msgs \o more, new \o more)
<1> SUFFICES ASSUME NEW msgs \in Seq(Message), NEW new \in Seq(Message), NEW more \in Seq(Message), Ends(msgs, new)
             PROVE  Ends(msgs \o more, new \o more)
  OBVIOUS
<1> DEFINE n == Len(msgs)
           t == Len(new)
           u == Len(more)
           x == msgs \o more
           y == new \o more
<1>1. n \in Nat /\ t \in Nat /\ u \in Nat /\ t <= n /\ \A i \in 1..t : msgs[n - t + i] = new[i]
  BY DEF Ends
<1>2. /\ Len(x) = n + u /\ \A i \in 1..n : x[i] = msgs[i]
      /\ \A i \in 1..u : x[n + i] = more[i]
  BY Joined
<1>3. /\ Len(y) = t + u /\ \A i \in 1..t : y[i] = new[i]
      /\ \A i \in 1..u : y[t + i] = more[i]
  BY Joined
<1> HIDE DEF n, t, u, x, y
<1>4. ASSUME NEW i \in 1..t + u PROVE x[n + u - (t + u) + i] = y[i]
  <2>1. CASE i \in 1..t
    <3>1. n + u - (t + u) + i = n - t + i /\ n - t + i \in 1..n
      BY <1>1, <2>1
    <3>2. QED  BY <1>1, <1>2, <1>3, <2>1, <3>1
  <2>2. CASE i > t
    <3>1. i - t \in 1..u /\ n + u - (t + u) + i = n + (i - t) /\ t + (i - t) = i
      BY <1>1, <2>2
    <3>2. x[n + (i - t)] = more[i - t] /\ y[t + (i - t)] = more[i - t]
      BY <1>2, <1>3, <3>1
    <3>3. QED  BY <3>1, <3>2
  <2>3. QED  BY <1>1, <2>1, <2>2
<1>5. t + u <= n + u
  BY <1>1
<1>6. Ends(x, y)
  BY <1>1, <1>2, <1>3, <1>4, <1>5 DEF Ends
<1>7. QED  BY <1>6 DEF x, y

\* Every text ends itself, and none ends everything.
LEMMA EndsSelf ==
  \A msgs, new \in Seq(Message) : Ends(msgs \o new, new) /\ Ends(msgs, <<>>)
<1> SUFFICES ASSUME NEW msgs \in Seq(Message), NEW new \in Seq(Message) PROVE Ends(msgs \o new, new) /\ Ends(msgs, <<>>)
  OBVIOUS
<1> DEFINE none == <<>>
<1>1. none \in Seq(Message) /\ Len(none) = 0 /\ Len(msgs) \in Nat
  OBVIOUS
<1>2. none \o new = new
  OBVIOUS
<1> HIDE DEF none
<1>3. Ends(msgs, none)
  BY <1>1 DEF Ends
<1>4. Ends(msgs \o new, none \o new)
  BY <1>1, <1>3, EndsJoin
<1>5. QED  BY <1>2, <1>3, <1>4 DEF none

\* Texts as messages of the user's.
LEMMA HumanAllFacts ==
  \A texts, more \in Seq(Texts) :
    /\ HumanAll(texts) \in Seq(Message) /\ Len(HumanAll(texts)) = Len(texts) /\ AllUser(HumanAll(texts))
    /\ HumanAll(texts \o more) = HumanAll(texts) \o HumanAll(more)
<1>1. ASSUME NEW texts \in Seq(Texts)
      PROVE  /\ HumanAll(texts) \in Seq(Message) /\ Len(HumanAll(texts)) = Len(texts)
             /\ \A i \in 1..Len(texts) : HumanAll(texts)[i] = Human(texts[i])
  <2>1. \A text \in Texts : Human(text) \in Message
    BY DEF Human, Message
  <2>2. Len(texts) \in Nat /\ DOMAIN texts = 1..Len(texts) /\ \A i \in 1..Len(texts) : texts[i] \in Texts
    OBVIOUS
  <2>3. HumanAll(texts) = [i \in 1..Len(texts) |-> Human(texts[i])]
    BY <2>2 DEF HumanAll
  <2>4. QED  BY <2>1, <2>2, <2>3
<1>2. ASSUME NEW texts \in Seq(Texts) PROVE AllUser(HumanAll(texts))
  <2>1. \A text : Human(text).role = "user"
    BY DEF Human
  <2>2. QED  BY <1>1, <2>1 DEF AllUser
<1>3. ASSUME NEW texts \in Seq(Texts), NEW more \in Seq(Texts)
      PROVE  HumanAll(texts \o more) = HumanAll(texts) \o HumanAll(more)
  <2> DEFINE n == Len(texts)
             u == Len(more)
             both == texts \o more
             x == HumanAll(both)
             p == HumanAll(texts)
             q == HumanAll(more)
             y == p \o q
  <2>1. /\ n \in Nat /\ u \in Nat /\ both \in Seq(Texts) /\ Len(both) = n + u
        /\ \A i \in 1..n : both[i] = texts[i]
        /\ \A i \in 1..u : both[n + i] = more[i]
    BY Joined
  <2> HIDE DEF both
  <2>2. /\ x \in Seq(Message) /\ Len(x) = Len(both) /\ \A i \in 1..Len(both) : x[i] = Human(both[i])
    BY <1>1, <2>1
  <2>3. /\ p \in Seq(Message) /\ Len(p) = n /\ \A i \in 1..n : p[i] = Human(texts[i])
        /\ q \in Seq(Message) /\ Len(q) = u /\ \A i \in 1..u : q[i] = Human(more[i])
    BY <1>1
  <2> HIDE DEF p, q, x
  <2>4. /\ y \in Seq(Message) /\ Len(y) = n + u /\ \A i \in 1..n : y[i] = p[i]
        /\ \A i \in 1..u : y[n + i] = q[i]
    <3>1. p \in Seq(Message) /\ q \in Seq(Message)
      BY <2>3
    <3>2. /\ y \in Seq(Message) /\ Len(y) = Len(p) + Len(q) /\ \A i \in 1..Len(p) : y[i] = p[i]
          /\ \A i \in 1..Len(q) : y[Len(p) + i] = q[i]
      BY ONLY <3>1, Joined
    <3> HIDE DEF y, n, u
    <3>3. QED  BY <2>3, <3>2
  <2> HIDE DEF n, u, y
  <2>5. ASSUME NEW i \in 1..n + u PROVE x[i] = y[i]
    <3>1. CASE i \in 1..n
      BY <2>1, <2>2, <2>3, <2>4, <3>1
    <3>2. CASE i > n
      <4>1. i - n \in 1..u /\ n + (i - n) = i
        BY <2>1, <3>2
      <4>2. both[n + (i - n)] = more[i - n] /\ y[n + (i - n)] = q[i - n] /\ q[i - n] = Human(more[i - n])
        BY <2>1, <2>3, <2>4, <4>1
      <4>3. QED  BY <2>1, <2>2, <4>1, <4>2
    <3>3. QED  BY <2>1, <3>1, <3>2
  <2>6. x = y
    BY <2>1, <2>2, <2>4, <2>5, SameMessages
  <2>7. QED  BY <2>6 DEF x, y, p, q, both
<1>4. QED  BY <1>1, <1>2, <1>3

\* The messages that will still stand behind the assistant's last one: what is
\* queued, the batch's results, the task, or what the next run repairs.
CallsAhead  == IF pc \in {"batch", "tool"} THEN Len(todo) ELSE 0
TaskAhead   == IF pc = "compact" THEN 1 ELSE 0
RepairAhead == IF pc = "idle" /\ edition = "rust-ref" THEN Len(Unanswered(memory)) ELSE 0
Ahead       == Len(steering) + Len(followUps) + CallsAhead + TaskAhead + RepairAhead

\* A limited memory holds the last turn, with what will be added to it.
TurnFits ==
  limit # NoLimit => /\ 1 + Len(owed) + Len(steering) + Len(followUps) <= 2 * limit
                     /\ Room(memory, Ahead, limit)

\* What the user has said since the model was last asked is at the end of memory.
HeardInv ==
  /\ owed \in Seq(Texts)
  /\ (pc = "turn" \/ (pc = "request" /\ ~retried)) => Ends(memory, HumanAll(owed))
  /\ pc \in {"batch", "tool"} => owed = <<>>

\* The room there is for what is to come.
LEMMA TurnFitsFacts ==
  ASSUME AgentType, owed \in Seq(Texts), TurnFits
  PROVE  /\ Room(memory, Len(steering), limit) /\ Room(memory, 0, limit)
         /\ pc = "compact" => Room(memory, 1, limit)
         /\ pc \in {"batch", "tool"} => Room(memory, Len(todo), limit)
         /\ pc = "idle" /\ edition = "rust-ref" => Room(memory, Len(Unanswered(memory)), limit)
         /\ limit # NoLimit => /\ limit \in Nat /\ limit > 0
                               /\ Len(owed) + Len(steering) <= 2 * limit
                               /\ 1 + Len(followUps) <= 2 * limit
<1> DEFINE n == Ahead
           missing == Unanswered(memory)
           calls == CallsAhead
           task == TaskAhead
           repair == RepairAhead
<1>1. limit \in LimitType /\ memory \in Seq(Message) /\ Len(steering) \in Nat /\ Len(followUps) \in Nat /\ Len(todo) \in Nat /\ Len(owed) \in Nat
  BY DEF AgentType
<1>2. missing \in Seq(CallIds)
  BY <1>1, UnansweredIsOpen
<1>3. n = Len(steering) + Len(followUps) + calls + task + repair
  BY DEF Ahead
<1> HIDE DEF missing
<1>4. /\ calls \in Nat /\ task \in Nat /\ repair \in Nat
      /\ pc = "compact" => task = 1
      /\ pc \in {"batch", "tool"} => calls = Len(todo)
      /\ pc = "idle" /\ edition = "rust-ref" => repair = Len(missing)
  BY <1>1, <1>2 DEF missing, CallsAhead, TaskAhead, RepairAhead
<1> HIDE DEF calls, task, repair, n
<1>5. /\ n \in Nat /\ Len(steering) <= n /\ Len(followUps) <= n /\ 0 <= n
      /\ task <= n /\ calls <= n /\ repair <= n
  BY <1>1, <1>3, <1>4
<1>6. limit # NoLimit => 1 + Len(owed) + Len(steering) + Len(followUps) <= 2 * limit /\ Room(memory, n, limit)
  BY DEF TurnFits, n
<1>7. Room(memory, n, limit)
  BY <1>6 DEF Room
<1>8. \A few \in Nat : few <= n => Room(memory, few, limit)
  BY <1>1, <1>5, <1>7, RoomLess
<1>9. /\ Room(memory, Len(steering), limit) /\ Room(memory, 0, limit)
      /\ Room(memory, task, limit) /\ Room(memory, calls, limit) /\ Room(memory, repair, limit)
  BY <1>1, <1>4, <1>5, <1>8
<1>10. limit # NoLimit => limit \in Nat /\ limit > 0
  BY <1>1, <1>7 DEF LimitType, Room
<1>11. limit # NoLimit => Len(owed) + Len(steering) <= 2 * limit /\ 1 + Len(followUps) <= 2 * limit
  BY <1>1, <1>6, <1>10
<1>12. QED  BY <1>4, <1>9, <1>10, <1>11 DEF missing

\* The task is at the end.
LEMMA PrepareHeard ==
  ASSUME AgentType, HeardInv, TurnFits, Prepare
  PROVE  HeardInv'
<1> DEFINE task == Human("task")
           one == HumanAll(<<"task">>)
<1>1. limit \in LimitType /\ memory \in Seq(Message) /\ Fits(memory, limit) /\ pc = "compact" /\ owed \in Seq(Texts)
  BY DEF AgentType, Prepare, HeardInv
<1>2. PICK start \in {memory} \cup Compactions(memory, limit) : memory' = Add(start, task, limit)
  BY DEF Prepare
<1>3. Room(memory, 1, limit) /\ (limit # NoLimit => limit \in Nat /\ limit > 0)
  BY <1>1, TurnFitsFacts
<1>4. start \in Seq(Message) /\ Room(start, 1, limit)
  <2>1. CASE start = memory
    BY <1>1, <1>3, <2>1
  <2>2. CASE start \in Compactions(memory, limit)
    <3>1. start \in Seq(Message)
      BY <1>1, <2>2, CompactionFacts
    <3>2. PICK k \in 1..Len(memory) : Part(start, memory, k, 1)
      BY <1>1, <1>3, <2>2, <3>1, CompactPart
    <3>3. k \in Nat /\ 1 \in Nat
      BY <1>1
    <3>4. QED  BY <1>1, <1>3, <3>1, <3>2, <3>3, PartRoom
  <2>3. QED  BY <1>2, <2>1, <2>2
<1>5. task \in Message /\ task.role = "user"
  BY DEF Human, Message, Texts
<1>6. <<"task">> \in Seq(Texts) /\ Len(<<"task">>) = 1
  BY DEF Texts
<1>7. one \in Seq(Message) /\ Len(one) = 1 /\ AllUser(one) /\ one = <<task>>
  <2>1. one = <<task>>
    BY DEF HumanAll
  <2> HIDE DEF one
  <2>2. QED  BY <1>5, <1>6, <2>1, HumanAllFacts DEF one
<1> HIDE DEF task, one
<1> DEFINE x == Append(start, task)
<1>8. x \in Seq(Message) /\ x = start \o one
  BY <1>4, <1>5, <1>7
<1>9. Room(x, 0, limit)
  <2>1. 0 \in Nat /\ 0 + 1 = 1
    OBVIOUS
  <2>2. QED  BY <1>1, <1>4, <1>5, <2>1, RoomAppend
<1> HIDE DEF x
<1>10. memory' = Trim(x, limit) /\ memory' \in Seq(Message)
  <2>1. memory' = Trim(x, limit)
    BY <1>2 DEF Add, x
  <2>2. QED  BY <1>1, <1>8, <2>1, TrimFacts
<1>11. Keeps(memory', x, limit)
  BY <1>1, <1>8, <1>9, <1>10, TrimKeeps
<1>12. Ends(x, one)
  BY <1>4, <1>7, <1>8, EndsSelf
<1>13. limit # NoLimit => Len(one) <= 2 * limit
  BY <1>3, <1>7
<1>14. Ends(memory', one)
  BY <1>1, <1>7, <1>8, <1>10, <1>11, <1>12, <1>13, KeepsEnds
<1>15. owed' = <<"task">> /\ pc' = "turn"
  BY DEF Prepare
<1>16. QED  BY <1>6, <1>14, <1>15 DEF HeardInv, one

\* The steering messages come behind what was there.
LEMMA BeginTurnHeard ==
  ASSUME AgentType, HeardInv, TurnFits, BeginTurn
  PROVE  HeardInv'
<1>1. limit \in LimitType /\ memory \in Seq(Message) /\ pc = "turn" /\ owed \in Seq(Texts) /\ steering \in Seq(Texts)
  BY DEF AgentType, BeginTurn, HeardInv
<1>2. CASE pc' = "idle" /\ owed' = owed
  BY <1>1, <1>2 DEF HeardInv
<1>3. CASE /\ memory' = AddAll(memory, HumanAll(steering), limit)
           /\ owed' = owed \o steering
           /\ pc' = "request"
  <2> DEFINE said == HumanAll(owed)
             new == HumanAll(steering)
             all == memory \o new
             both == said \o new
  <2>1. Ends(memory, said)
    BY <1>1 DEF HeardInv
  <2>2. /\ said \in Seq(Message) /\ Len(said) = Len(owed) /\ AllUser(said)
        /\ new \in Seq(Message) /\ Len(new) = Len(steering) /\ AllUser(new)
        /\ HumanAll(owed \o steering) = both
        /\ AllUser(HumanAll(owed \o steering))
    <3>1. owed \o steering \in Seq(Texts)
      BY <1>1
    <3>2. QED  BY <1>1, <3>1, HumanAllFacts
  <2>3. Room(memory, Len(steering), limit) /\ (limit # NoLimit => Len(owed) + Len(steering) <= 2 * limit)
    BY <1>1, TurnFitsFacts
  <2>4. memory' = AddAll(memory, new, limit)
    BY <1>3
  <2>5. owed' \in Seq(Texts)
    BY <1>1, <1>3
  <2> HIDE DEF said, new
  <2>6. \A i \in 1..Len(new) : new[i].role = "user"
    BY <2>2 DEF AllUser
  <2>7. Keeps(memory', all, limit)
    BY <1>1, <2>2, <2>3, <2>4, <2>6, AddAllKeeps
  <2>8. Ends(all, both)
    BY <1>1, <2>1, <2>2, EndsJoin
  <2>9. all \in Seq(Message) /\ both \in Seq(Message) /\ Len(both) = Len(owed) + Len(steering)
    <3>1. memory \in Seq(Message) /\ new \in Seq(Message) /\ said \in Seq(Message)
      BY <1>1, <2>2
    <3>2. all \in Seq(Message) /\ both \in Seq(Message) /\ Len(both) = Len(said) + Len(new)
      BY ONLY <3>1, Joined
    <3>3. QED  BY <2>2, <3>2
  <2>10. memory' \in Seq(Message)
    BY <1>1, <2>2, <2>4, AddAllFacts
  <2>11. AllUser(both)
    BY <2>2
  <2> HIDE DEF all, both
  <2>12. Ends(memory', both)
    BY <1>1, <2>3, <2>7, <2>8, <2>9, <2>10, <2>11, KeepsEnds
  <2>13. both = HumanAll(owed')
    BY <1>3, <2>2
  <2>14. QED  BY <1>3, <2>5, <2>12, <2>13 DEF HeardInv
<1>4. QED  BY <1>2, <1>3 DEF BeginTurn, Leave, Cancelled

\* The follow-ups come behind the answer.
LEMMA AnswersHeard ==
  ASSUME AgentType, HeardInv, TurnFits, Answers
  PROVE  HeardInv'
<1>1. limit \in LimitType /\ memory \in Seq(Message) /\ owed \in Seq(Texts) /\ followUps \in Seq(Texts)
  BY DEF AgentType, HeardInv
<1>2. CASE pc' = "idle" /\ owed' \in {<<>>, followUps}
  <2> DEFINE none == <<>>
  <2>3. none \in Seq(Texts) /\ owed' \in {none, followUps}
    BY <1>2
  <2> HIDE DEF none
  <2>1. owed' \in Seq(Texts)
    BY <1>1, <2>3
  <2>2. QED  BY <1>2, <2>1 DEF HeardInv
<1>3. CASE /\ memory' = AddAll(Add(memory, Answer, limit), HumanAll(followUps), limit)
           /\ owed' = followUps
           /\ pc' = "turn"
  <2> DEFINE x == Append(memory, Answer)
             answered == Add(memory, Answer, limit)
             new == HumanAll(followUps)
             all == answered \o new
             n == Len(followUps)
  <2>1. Answer \in Message /\ Answer.role = "assistant"
    BY DEF Answer, Message, Texts
  <2>2. x \in Seq(Message) /\ n \in Nat
    BY <1>1, <2>1
  <2>3. new \in Seq(Message) /\ Len(new) = n /\ AllUser(new)
    BY <1>1, HumanAllFacts
  <2>4. limit # NoLimit => 1 + n <= 2 * limit
    BY <1>1, TurnFitsFacts
  <2>5. answered = Trim(x, limit)
    BY DEF Add
  <2>6. memory' = AddAll(answered, new, limit)
    BY <1>3
  <2> HIDE DEF n, new
  <2>7. Room(x, n, limit)
    BY <1>1, <2>1, <2>2, <2>4, RoomOfAnswer
  <2> HIDE DEF x, answered
  <2>8. Room(x, 0, limit)
    <3>1. 0 \in Nat /\ 0 <= n
      BY <2>2
    <3>2. QED  BY <1>1, <2>2, <2>7, <3>1, RoomLess
  <2>9. Keeps(answered, x, limit) /\ answered \in Seq(Message)
    BY <1>1, <2>2, <2>5, <2>8, TrimKeeps, TrimFacts
  <2>10. Room(answered, n, limit)
    BY <1>1, <2>2, <2>7, <2>9, KeepsRoom
  <2>11. \A i \in 1..Len(new) : new[i].role = "user"
    BY <2>3 DEF AllUser
  <2>12. Keeps(memory', all, limit)
    BY <1>1, <2>3, <2>6, <2>9, <2>10, <2>11, AddAllKeeps
  <2>13. Ends(all, new)
    BY <2>3, <2>9, EndsSelf
  <2>14. all \in Seq(Message)
    BY <2>3, <2>9
  <2>15. memory' \in Seq(Message)
    BY <1>1, <2>3, <2>6, <2>9, AddAllFacts
  <2> HIDE DEF all
  <2>16. limit # NoLimit => Len(new) <= 2 * limit
    BY <1>1, <2>2, <2>3, <2>4 DEF LimitType
  <2>17. Ends(memory', new)
    BY <1>1, <2>3, <2>12, <2>13, <2>14, <2>15, <2>16, KeepsEnds
  <2>18. QED  BY <1>1, <1>3, <2>17 DEF HeardInv, new
<1>4. QED  BY <1>2, <1>3 DEF Answers, Leave, Cancelled

\* The other steps of the loop end a run, begin a batch, or change neither what
\* is owed nor, outside a batch, the memory.
LEMMA LoopStepHeard ==
  ASSUME AgentType, HeardInv, TurnFits, LoopStep
  PROVE  HeardInv'
<1> DEFINE none == <<>>
<1>1. memory \in Seq(Message) /\ owed \in Seq(Texts) /\ none \in Seq(Texts)
  BY DEF AgentType, HeardInv
<1>2. CASE Prepare       BY <1>2, PrepareHeard
<1>3. CASE BeginTurn     BY <1>3, BeginTurnHeard
<1>4. CASE Answers       BY <1>4, AnswersHeard
<1>5. CASE \E overflow \in BOOLEAN : RequestFails(overflow)
  <2>1. owed' = owed /\ pc' \in {"recover", "idle"}
    BY <1>5 DEF RequestFails, Leave
  <2>2. QED  BY <1>1, <2>1 DEF HeardInv
<1>6. CASE Recover
  <2>1. owed' = owed /\ (pc' = "idle" \/ (pc' = "request" /\ retried'))
    BY <1>6 DEF Recover, Leave
  <2>2. QED  BY <1>1, <2>1 DEF HeardInv
<1>7. CASE \E keys \in Batches : WantsTools(keys)
  <2>1. owed' = none /\ pc' \in {"batch", "idle"}
    BY <1>7 DEF WantsTools, Cancelled, Leave
  <2>2. QED  BY <1>1, <2>1 DEF HeardInv
<1>8. CASE BatchDone
  <2>1. owed' = owed /\ owed = none /\ pc' = "turn" /\ memory' = memory
    BY <1>8 DEF BatchDone, HeardInv
  <2>2. HumanAll(none) = none /\ none \in Seq(Message)
    BY DEF HumanAll
  <2>3. Ends(memory, none)
    BY <1>1, EndsSelf
  <2> HIDE DEF none
  <2>4. QED  BY <1>1, <2>1, <2>2, <2>3 DEF HeardInv
<1>9. CASE BatchCancelled \/ NextCall \/ ToolReturns
  <2>1. owed' = owed /\ owed = none /\ pc' \in {"idle", "batch", "tool"}
    <3>1. pc \in {"batch", "tool"}
      BY <1>9 DEF BatchCancelled, NextCall, ToolReturns
    <3>2. pc' \in {"idle", "batch", "tool"} /\ owed' = owed
      BY <1>9 DEF BatchCancelled, NextCall, ToolReturns, Leave, Cancelled
    <3>3. QED  BY <3>1, <3>2 DEF HeardInv
  <2>2. QED  BY <1>1, <2>1 DEF HeardInv
<1>10. CASE Steer \/ FollowUp \/ Cancel
  <2>1. owed' = owed /\ pc' = pc /\ memory' = memory /\ retried' = retried
    BY <1>10 DEF Steer, FollowUp, Cancel, loopVars
  <2>2. QED  BY <2>1 DEF HeardInv
<1>11. CASE DropRun
  <2>1. owed' = owed /\ pc' = "idle"
    BY <1>11 DEF DropRun, Leave
  <2>2. QED  BY <1>1, <2>1 DEF HeardInv
<1>12. QED
  BY <1>2, <1>3, <1>4, <1>5, <1>6, <1>7, <1>8, <1>9, <1>10, <1>11 DEF LoopStep, Run

\* A step of either edition.
LEMMA TAgentHeard ==
  ASSUME TAgentInv, HeardInv, TurnFits, [TNext]_tvars
  PROVE  HeardInv'
<1>1. AgentType
  BY DEF TAgentInv
<1>2. CASE LoopStep
  BY <1>1, <1>2, LoopStepHeard
<1>3. CASE StartOn(Repair(memory, limit)) \/ StartOn(memory)
  <2>1. pc' = "compact" /\ owed' = <<>>
    BY <1>3 DEF StartOn
  <2>2. <<>> \in Seq(Texts)
    OBVIOUS
  <2>3. QED  BY <2>1, <2>2 DEF HeardInv
<1>4. CASE UNCHANGED tvars
  BY <1>4 DEF tvars, vars, loopVars, HeardInv
<1>5. QED  BY <1>2, <1>3, <1>4, EditionStep

\* Nothing is owed at first.
LEMMA HeardInit ==
  ASSUME TInit PROVE HeardInv
<1>1. pc = "idle" /\ owed = <<>>
  BY DEF TInit, Init
<1>2. <<>> \in Seq(Texts)
  OBVIOUS
<1>3. QED  BY <1>1, <1>2 DEF HeardInv

\* What the user has said stays at the end of a memory with room for it.
LEMMA HeardInvariant == TSpec /\ []TurnFits => []HeardInv
<1>1. TInit => HeardInv
  BY HeardInit
<1>2. TAgentInv /\ HeardInv /\ TurnFits /\ [TNext]_tvars => HeardInv'
  BY TAgentHeard
<1>3. QED  BY <1>1, <1>2, AgentInvariant, PTL DEF TSpec

\* As long as a limited memory holds the last turn and what is to come behind it,
\* the model is asked with everything the user has said since it was last asked,
\* in that order, whatever is trimmed away or compacted.
THEOREM UserIsHeard == TSpec /\ []TurnFits => []HumanHeard
<1>1. TAgentInv /\ HeardInv => HumanHeard
  <2> SUFFICES ASSUME TAgentInv, HeardInv, pc = "request", ~retried
               PROVE  /\ Len(owed) <= Len(memory)
                      /\ HumanAll(owed) = SubSeq(memory, Len(memory) - Len(owed) + 1, Len(memory))
    BY DEF HumanHeard
  <2> DEFINE said == HumanAll(owed)
             n == Len(memory)
             t == Len(owed)
             last == SubSeq(memory, n - t + 1, n)
  <2>1. memory \in Seq(Message) /\ owed \in Seq(Texts) /\ Ends(memory, said)
    BY DEF TAgentInv, AgentType, HeardInv
  <2>2. said \in Seq(Message) /\ Len(said) = t /\ n \in Nat /\ t \in Nat
    BY <2>1, HumanAllFacts
  <2> HIDE DEF said
  <2>3. t <= n /\ \A i \in 1..t : memory[n - t + i] = said[i]
    BY <2>1, <2>2 DEF Ends
  <2>4. last \in Seq(Message) /\ Len(last) = t /\ \A i \in 1..t : last[i] = memory[n - t + i]
    BY <2>1, <2>2, <2>3
  <2> HIDE DEF n, t, last
  <2>5. said = last
    BY <2>2, <2>3, <2>4, SameMessages
  <2>6. QED  BY <2>3, <2>5 DEF said, n, t, last
<1>2. QED  BY <1>1, HeardInvariant, AgentInvariant, PTL

-----------------------------------------------------------------------------
(* What providers accept: every batch with its results behind it, in order *)

\* Call i of the batch at a has its result at its place, the i-th behind the batch.
AnsweredAt(msgs, a, i) == a + i <= Len(msgs) /\ msgs[a + i].answers = msgs[a].uses[i]

\* The message at j and those before it back to a are results of the batch at a.
ResultOf(msgs, a, j) ==
  a < j /\ j - a <= Len(msgs[a].uses) /\ \A i \in 1..j - a : AnsweredAt(msgs, a, i)

NoTwice(calls) == \A i, j \in 1..Len(calls) : calls[i] = calls[j] => i = j

\* Only the assistant makes calls, none twice in a batch; only the user has
\* results, each where the batch wants it.
Kinds(msgs) ==
  \A i \in 1..Len(msgs) : /\ msgs[i].role = "user" => msgs[i].uses = <<>>
                          /\ msgs[i].role = "assistant" => msgs[i].answers = NoCall
Distinct(msgs) == \A a \in 1..Len(msgs) : NoTwice(msgs[a].uses)
Placed(msgs) ==
  \A j \in 1..Len(msgs) : msgs[j].answers # NoCall => \E a \in 1..Len(msgs) : ResultOf(msgs, a, j)
Sound(msgs) == Kinds(msgs) /\ Distinct(msgs) /\ Placed(msgs)

\* A batch with all of its results, and one that has them or has a call in calls.
Complete(msgs, a) == \A i \in 1..Len(msgs[a].uses) : AnsweredAt(msgs, a, i)
Excused(msgs, calls, a) == Complete(msgs, a) \/ \E c \in ToSet(msgs[a].uses) : c \in calls
Settled(msgs, calls) == \A a \in 1..Len(msgs) : Excused(msgs, calls, a)

\* The batch at a is the last message but for its first n results.
Pending(msgs, calls, a, n) ==
  /\ LastAt(msgs, a) /\ Len(msgs) = a + n /\ n <= Len(msgs[a].uses)
  /\ \A i \in 1..n : AnsweredAt(msgs, a, i)
  /\ \A b \in 1..Len(msgs) : b # a => Excused(msgs, calls, b)

\* What a message is made of.
LEMMA MessageParts ==
  \A msgs \in Seq(Message) : \A i \in 1..Len(msgs) :
    /\ msgs[i] \in Message /\ msgs[i].role \in {"user", "assistant"}
    /\ msgs[i].uses \in Seq(CallIds) /\ Len(msgs[i].uses) \in Nat
    /\ \A j \in 1..Len(msgs[i].uses) : msgs[i].uses[j] \in CallIds /\ msgs[i].uses[j] # NoCall
<1> TAKE msgs \in Seq(Message)
<1> TAKE i \in 1..Len(msgs)
<1>1. msgs[i] \in Message
  OBVIOUS
<1>2. msgs[i].role \in {"user", "assistant"} /\ msgs[i].uses \in Seq(CallIds)
  BY <1>1 DEF Message
<1>3. \A j \in 1..Len(msgs[i].uses) : msgs[i].uses[j] \in CallIds
  BY <1>2
<1>4. QED  BY <1>1, <1>2, <1>3, ConversationAssumption

\* Where the messages of a part are.
LEMMA PartFacts ==
  \A have, msgs \in Seq(Message), k, a \in Nat : Part(have, msgs, k, a) =>
    /\ Len(have) = Len(msgs) + a + 1 - k /\ k <= Len(msgs) + 1 /\ k > 0
    /\ \A i \in 1..Len(have) : i > a =>
         /\ i + k - a - 1 \in 1..Len(msgs) /\ i + k - a - 1 >= k /\ i + k - a - 1 - k + a + 1 = i
         /\ have[i] = msgs[i + k - a - 1]
    /\ \A j \in 1..Len(msgs) : j >= k =>
         /\ j + a + 1 - k \in 1..Len(have) /\ j + a + 1 - k > a
         /\ have[j + a + 1 - k] = msgs[j]
    /\ \A i \in 1..Len(have) : i <= a => have[i].role = "user" /\ have[i].uses = <<>> /\ have[i].answers = NoCall
<1> SUFFICES ASSUME NEW have \in Seq(Message), NEW msgs \in Seq(Message), NEW k \in Nat, NEW a \in Nat, Part(have, msgs, k, a)
             PROVE  /\ Len(have) = Len(msgs) + a + 1 - k /\ k <= Len(msgs) + 1 /\ k > 0
                    /\ \A i \in 1..Len(have) : i > a =>
                         /\ i + k - a - 1 \in 1..Len(msgs) /\ i + k - a - 1 >= k /\ i + k - a - 1 - k + a + 1 = i
                         /\ have[i] = msgs[i + k - a - 1]
                    /\ \A j \in 1..Len(msgs) : j >= k =>
                         /\ j + a + 1 - k \in 1..Len(have) /\ j + a + 1 - k > a
                         /\ have[j + a + 1 - k] = msgs[j]
                    /\ \A i \in 1..Len(have) : i <= a => have[i].role = "user" /\ have[i].uses = <<>> /\ have[i].answers = NoCall
  OBVIOUS
<1> DEFINE n == Len(msgs)
           h == Len(have)
<1>1. /\ n \in Nat /\ h \in Nat /\ a \in {0, 1} /\ k \in 1..n + 1 /\ h = a + (n + 1 - k)
      /\ a = 1 => have[1].role = "user" /\ have[1].uses = <<>> /\ have[1].answers = NoCall
      /\ \A j \in 1..n + 1 - k : have[a + j] = msgs[k + j - 1]
  BY DEF Part
<1> HIDE DEF n, h
<1>2. h = n + a + 1 - k /\ k <= n + 1 /\ k > 0
  BY <1>1
<1>3. ASSUME NEW i \in 1..h, i > a
      PROVE  i + k - a - 1 \in 1..n /\ i + k - a - 1 >= k /\ i + k - a - 1 - k + a + 1 = i /\ have[i] = msgs[i + k - a - 1]
  <2>1. i - a \in 1..n + 1 - k /\ a + (i - a) = i /\ k + (i - a) - 1 = i + k - a - 1
    BY <1>1, <1>3
  <2>2. have[i] = msgs[i + k - a - 1]
    BY <1>1, <2>1
  <2>3. QED  BY <1>1, <1>3, <2>2
<1>4. ASSUME NEW j \in 1..n, j >= k
      PROVE  j + a + 1 - k \in 1..h /\ j + a + 1 - k > a /\ have[j + a + 1 - k] = msgs[j]
  <2>1. j - k + 1 \in 1..n + 1 - k /\ a + (j - k + 1) = j + a + 1 - k /\ k + (j - k + 1) - 1 = j
    BY <1>1, <1>4
  <2>2. have[j + a + 1 - k] = msgs[j]
    BY <1>1, <2>1
  <2>3. QED  BY <1>1, <1>4, <2>2
<1>5. \A i \in 1..h : i <= a => have[i].role = "user" /\ have[i].uses = <<>> /\ have[i].answers = NoCall
  BY <1>1
<1>6. QED  BY <1>2, <1>3, <1>4, <1>5 DEF n, h

\* A cut before k leaves no result without its batch.
Clean(msgs, k) ==
  \A b, j \in 1..Len(msgs) : b < k /\ k <= j => ~ResultOf(msgs, b, j)

\* Units begin at such places, and so do the turns of the user.
LEMMA CleanCut ==
  \A msgs \in Seq(Message), k \in Nat :
    Sound(msgs) /\ k > 0 /\ (k <= Len(msgs) => UnitStart(msgs, k) \/ IsTurnBoundary(msgs[k])) => Clean(msgs, k)
<1> SUFFICES ASSUME NEW msgs \in Seq(Message), NEW k \in Nat, Sound(msgs), k > 0,
                    k <= Len(msgs) => UnitStart(msgs, k) \/ IsTurnBoundary(msgs[k]),
                    NEW b \in 1..Len(msgs), NEW j \in 1..Len(msgs), b < k, k <= j, ResultOf(msgs, b, j)
             PROVE  FALSE
  BY DEF Clean
<1>1. k \in 1..Len(msgs) /\ k \in DOMAIN msgs /\ b \in 1..k - 1 /\ k - b \in 1..j - b /\ b + (k - b) = k
  OBVIOUS
<1>2. j - b <= Len(msgs[b].uses) /\ j - b > 0 /\ Len(msgs[b].uses) \in Nat
  BY MessageParts DEF ResultOf
<1>3. msgs[k].answers = msgs[b].uses[k - b] /\ k - b \in 1..Len(msgs[b].uses)
  BY <1>1, <1>2 DEF ResultOf, AnsweredAt
<1>4. msgs[k].answers # NoCall
  BY <1>3, MessageParts
<1>5. CASE IsTurnBoundary(msgs[k])
  BY <1>4, <1>5 DEF IsTurnBoundary
<1>6. CASE UnitStart(msgs, k)
  <2>1. msgs[k].role # "assistant"
    BY <1>1, <1>4 DEF Sound, Kinds
  <2>2. msgs[b].role = "user"
    BY <1>1, <1>6, <2>1 DEF UnitStart
  <2>3. msgs[b].uses = <<>>
    BY <2>2 DEF Sound, Kinds
  <2>4. QED  BY <1>2, <2>3
<1>7. QED  BY <1>1, <1>5, <1>6

\* A cleanly cut part.
LEMMA SoundPart ==
  \A have, msgs \in Seq(Message), k, a \in Nat : Sound(msgs) /\ Part(have, msgs, k, a) /\ Clean(msgs, k) => Sound(have)
<1> SUFFICES ASSUME NEW have \in Seq(Message), NEW msgs \in Seq(Message), NEW k \in Nat, NEW a \in Nat,
                    Sound(msgs), Part(have, msgs, k, a), Clean(msgs, k)
             PROVE  Sound(have)
  OBVIOUS
<1> DEFINE n == Len(msgs)
           h == Len(have)
           old(i) == i + k - a - 1
<1>1. /\ n \in Nat /\ h = n + a + 1 - k /\ k <= n + 1 /\ k > 0
      /\ \A i \in 1..h : i > a => old(i) \in 1..n /\ old(i) >= k /\ have[i] = msgs[old(i)]
      /\ \A j \in 1..n : j >= k => j + a + 1 - k \in 1..h /\ j + a + 1 - k > a /\ have[j + a + 1 - k] = msgs[j]
      /\ \A i \in 1..h : i <= a => have[i].role = "user" /\ have[i].uses = <<>> /\ have[i].answers = NoCall
  BY PartFacts
<1>2. Kinds(have)
  <2>1. \A j \in 1..n : /\ msgs[j].role = "user" => msgs[j].uses = <<>>
                        /\ msgs[j].role = "assistant" => msgs[j].answers = NoCall
    BY DEF Sound, Kinds
  <2> HIDE DEF n, h, old
  <2>2. ASSUME NEW i \in 1..h PROVE (have[i].role = "user" => have[i].uses = <<>>) /\ (have[i].role = "assistant" => have[i].answers = NoCall)
    <3>1. CASE i <= a
      BY <1>1, <3>1
    <3>2. CASE i > a
      <4>1. old(i) \in 1..n /\ have[i] = msgs[old(i)]
        BY <1>1, <3>2
      <4>2. QED  BY <2>1, <4>1
    <3>3. QED  BY <1>1, <3>1, <3>2
  <2>3. QED  BY <2>2 DEF Kinds, h
<1>3. Distinct(have)
  <2>1. \A j \in 1..n : NoTwice(msgs[j].uses)
    BY DEF Sound, Distinct
  <2>2. NoTwice(<<>>)
    BY DEF NoTwice
  <2> HIDE DEF n, h, old
  <2>3. ASSUME NEW i \in 1..h PROVE NoTwice(have[i].uses)
    <3>1. CASE i <= a
      <4>1. have[i].uses = <<>>
        BY <1>1, <3>1
      <4>2. QED  BY <2>2, <4>1
    <3>2. CASE i > a
      <4>1. old(i) \in 1..n /\ have[i] = msgs[old(i)]
        BY <1>1, <3>2
      <4>2. QED  BY <2>1, <4>1
    <3>3. QED  BY <1>1, <3>1, <3>2
  <2>4. QED  BY <2>3 DEF Distinct, h
<1>4. Placed(have)
  <2> SUFFICES ASSUME NEW j \in 1..h, have[j].answers # NoCall PROVE \E b \in 1..h : ResultOf(have, b, j)
    BY DEF Placed
  <2>1. j > a
    BY <1>1
  <2> DEFINE oj == old(j)
  <2>2. oj \in 1..n /\ oj >= k /\ have[j] = msgs[oj]
    BY <1>1, <2>1
  <2>3. PICK ob \in 1..n : ResultOf(msgs, ob, oj)
    BY <2>2 DEF Sound, Placed
  <2>4. ob >= k /\ ob < oj
    <3>1. ob < oj
      BY <2>3 DEF ResultOf
    <3> HIDE DEF oj
    <3>2. ~(ob < k)
      BY <2>2, <2>3 DEF Clean
    <3>3. QED  BY <1>1, <3>1, <3>2
  <2> DEFINE b == ob + a + 1 - k
  <2>5. b \in 1..h /\ have[b] = msgs[ob] /\ b < j /\ j - b = oj - ob
    <3>1. b \in 1..h /\ have[b] = msgs[ob]
      <4> HIDE DEF oj, old, h, n
      <4>1. QED  BY <1>1, <2>2, <2>4
    <3>2. b < j /\ j - b = oj - ob
      BY <1>1, <2>2, <2>4
    <3>3. QED  BY <3>1, <3>2
  <2>6. oj - ob <= Len(msgs[ob].uses) /\ \A i \in 1..oj - ob : AnsweredAt(msgs, ob, i)
    BY <2>3 DEF ResultOf
  <2>7. ASSUME NEW i \in 1..oj - ob PROVE AnsweredAt(have, b, i)
    <3>1. ob + i \in 1..n /\ ob + i >= k /\ (ob + i) + a + 1 - k = b + i
      BY <1>1, <2>2, <2>4
    <3>2. have[b + i] = msgs[ob + i] /\ b + i <= h
      <4> DEFINE p == ob + i
                 q == b + i
      <4>1. p \in 1..n /\ p >= k /\ p + a + 1 - k = q
        BY <3>1
      <4> HIDE DEF p, q, b, h, n, old
      <4>2. q \in 1..h /\ have[q] = msgs[p]
        BY <1>1, <4>1
      <4>3. q <= h
        BY <1>1, <4>2
      <4>4. QED  BY <4>2, <4>3 DEF p, q
    <3>3. msgs[ob + i].answers = msgs[ob].uses[i]
      BY <2>6 DEF AnsweredAt
    <3>4. QED  BY <2>5, <3>2, <3>3 DEF AnsweredAt
  <2> HIDE DEF b, oj, old
  <2>8. ResultOf(have, b, j)
    BY <2>5, <2>6, <2>7 DEF ResultOf
  <2>9. QED  BY <2>5, <2>8
<1>5. QED  BY <1>2, <1>3, <1>4 DEF Sound

\* A batch of a part has the results it had.
LEMMA PartAnswers ==
  \A have, msgs \in Seq(Message), k, a \in Nat : Part(have, msgs, k, a) =>
    \A i \in 1..Len(have), t \in Nat :
      i > a /\ t > 0 /\ AnsweredAt(msgs, i + k - a - 1, t) => AnsweredAt(have, i, t)
<1> SUFFICES ASSUME NEW have \in Seq(Message), NEW msgs \in Seq(Message), NEW k \in Nat, NEW a \in Nat, Part(have, msgs, k, a),
                    NEW i \in 1..Len(have), NEW t \in Nat, i > a, t > 0, AnsweredAt(msgs, i + k - a - 1, t)
             PROVE  AnsweredAt(have, i, t)
  OBVIOUS
<1> DEFINE n == Len(msgs)
           h == Len(have)
           o == i + k - a - 1
           p == o + t
           q == i + t
<1>1. n \in Nat /\ h \in Nat /\ h = n + a + 1 - k /\ o \in 1..n /\ o >= k /\ have[i] = msgs[o]
  BY PartFacts
<1>2. p <= n /\ msgs[p].answers = msgs[o].uses[t]
  BY DEF AnsweredAt
<1>3. p \in 1..n /\ p >= k /\ p + a + 1 - k = q
  BY <1>1, <1>2
<1> HIDE DEF o, p, q, n
<1>4. q \in 1..h /\ have[q] = msgs[p]
  <2>1. p + a + 1 - k \in 1..Len(have) /\ have[p + a + 1 - k] = msgs[p]
    BY <1>3, PartFacts DEF n
  <2>2. QED  BY <1>3, <2>1
<1>5. q <= h /\ have[q].answers = have[i].uses[t]
  BY <1>1, <1>2, <1>4
<1>6. QED  BY <1>5 DEF AnsweredAt, q

\* A batch of a part lacks no result that it had.
LEMMA PartExcused ==
  \A have, msgs \in Seq(Message), k, a \in Nat : Part(have, msgs, k, a) =>
    \A i \in 1..Len(have) : \A calls :
      (i > a => Excused(msgs, calls, i + k - a - 1)) => Excused(have, calls, i)
<1> SUFFICES ASSUME NEW have \in Seq(Message), NEW msgs \in Seq(Message), NEW k \in Nat, NEW a \in Nat, Part(have, msgs, k, a),
                    NEW i \in 1..Len(have), NEW calls, i > a => Excused(msgs, calls, i + k - a - 1)
             PROVE  Excused(have, calls, i)
  OBVIOUS
<1>1. CASE i <= a
  <2>1. have[i].uses = <<>>
    BY <1>1, PartFacts
  <2>2. QED  BY <2>1 DEF Excused, Complete
<1>2. CASE i > a
  <2> DEFINE o == i + k - a - 1
  <2>1. have[i] = msgs[o]
    BY <1>2, PartFacts
  <2>2. \A t \in Nat : t > 0 /\ AnsweredAt(msgs, o, t) => AnsweredAt(have, i, t)
    BY <1>2, PartAnswers
  <2>3. Excused(msgs, calls, o)
    BY <1>2
  <2>4. Len(have[i].uses) \in Nat
    BY MessageParts
  <2> HIDE DEF o
  <2>5. \A t \in 1..Len(have[i].uses) : t \in Nat /\ t > 0
    BY <2>4
  <2>6. Complete(msgs, o) => Complete(have, i)
    BY <2>1, <2>2, <2>5 DEF Complete
  <2>7. QED  BY <2>1, <2>3, <2>6 DEF Excused
<1>3. QED  BY <1>1, <1>2

\* Nothing more is missing in a part.
LEMMA SettledPart ==
  \A have, msgs \in Seq(Message), k, a \in Nat : \A calls :
    Part(have, msgs, k, a) /\ Settled(msgs, calls) => Settled(have, calls)
<1> SUFFICES ASSUME NEW have \in Seq(Message), NEW msgs \in Seq(Message), NEW k \in Nat, NEW a \in Nat, NEW calls,
                    Part(have, msgs, k, a), Settled(msgs, calls), NEW i \in 1..Len(have)
             PROVE  Excused(have, calls, i)
  BY DEF Settled
<1>1. ASSUME i > a PROVE Excused(msgs, calls, i + k - a - 1)
  <2> DEFINE o == i + k - a - 1
  <2>1. o \in 1..Len(msgs)
    BY <1>1, PartFacts
  <2> HIDE DEF o
  <2>2. Excused(msgs, calls, o)
    BY <2>1 DEF Settled
  <2>3. QED  BY <2>2 DEF o
<1>2. QED  BY <1>1, PartExcused

\* A batch that is being answered is so in a part that holds it.
LEMMA PendingPart ==
  \A have, msgs \in Seq(Message), k, a, b, t \in Nat : \A calls :
    Part(have, msgs, k, a) /\ Pending(msgs, calls, b, t) /\ k <= b =>
      \E c \in 1..Len(have) : Pending(have, calls, c, t) /\ have[c] = msgs[b]
<1> SUFFICES ASSUME NEW have \in Seq(Message), NEW msgs \in Seq(Message), NEW k \in Nat, NEW a \in Nat,
                    NEW b \in Nat, NEW t \in Nat, NEW calls,
                    Part(have, msgs, k, a), Pending(msgs, calls, b, t), k <= b
             PROVE  \E c \in 1..Len(have) : Pending(have, calls, c, t) /\ have[c] = msgs[b]
  OBVIOUS
<1> DEFINE n == Len(msgs)
           h == Len(have)
           c == b + a + 1 - k
<1>1. /\ LastAt(msgs, b) /\ n = b + t /\ t <= Len(msgs[b].uses)
      /\ \A i \in 1..t : AnsweredAt(msgs, b, i)
      /\ \A i \in 1..n : i # b => Excused(msgs, calls, i)
  BY DEF Pending
<1>2. /\ b \in 1..n /\ msgs[b].role = "assistant"
      /\ \A j \in 1..n : j > b => msgs[j].role = "user"
  BY <1>1 DEF LastAt
<1>3. n \in Nat /\ h \in Nat /\ h = n + a + 1 - k /\ c \in 1..h /\ c > a /\ have[c] = msgs[b]
  BY <1>2, PartFacts
<1>4. c + k - a - 1 = b /\ h = c + t
  BY <1>1, <1>3
<1> HIDE DEF c, n, h
<1>5. LastAt(have, c)
  <2>1. ASSUME NEW i \in 1..h, i > c PROVE have[i].role = "user"
    <3> DEFINE o == i + k - a - 1
    <3>1. i > a /\ i \in 1..Len(have)
      BY <1>3, <2>1 DEF h
    <3>2. o \in 1..n /\ have[i] = msgs[o]
      <4>1. i + k - a - 1 \in 1..Len(msgs) /\ have[i] = msgs[i + k - a - 1]
        BY <3>1, PartFacts
      <4>2. QED  BY <4>1 DEF n
    <3>3. o > b
      BY <1>3, <1>4, <2>1
    <3> HIDE DEF o
    <3>4. QED  BY <1>2, <3>2, <3>3
  <2>2. QED  BY <1>2, <1>3, <2>1 DEF LastAt, h
<1>6. ASSUME NEW i \in 1..t PROVE AnsweredAt(have, c, i)
  <2>1. i \in Nat /\ i > 0 /\ AnsweredAt(msgs, b, i) /\ c \in 1..Len(have)
    BY <1>1, <1>3 DEF h
  <2>2. AnsweredAt(msgs, c + k - a - 1, i)
    BY <1>4, <2>1
  <2>3. QED  BY <1>3, <2>1, <2>2, PartAnswers
<1>7. ASSUME NEW i \in 1..h, i # c PROVE Excused(have, calls, i)
  <2>1. i \in 1..Len(have)
    BY DEF h
  <2>2. ASSUME i > a PROVE Excused(msgs, calls, i + k - a - 1)
    <3> DEFINE o == i + k - a - 1
    <3>1. o \in 1..n
      BY <2>1, <2>2, PartFacts DEF n
    <3>2. o # b
      BY <1>3, <1>4, <1>7
    <3> HIDE DEF o
    <3>3. Excused(msgs, calls, o)
      BY <1>1, <3>1, <3>2
    <3>4. QED  BY <3>3 DEF o
  <2>3. QED  BY <2>1, <2>2, PartExcused
<1>8. Pending(have, calls, c, t)
  BY <1>1, <1>3, <1>4, <1>5, <1>6, <1>7 DEF Pending, h
<1>9. QED  BY <1>3, <1>8 DEF h

\* A batch with all of its results is no longer in the making.
LEMMA PendingDone ==
  \A msgs, calls : \A b, t \in Nat : Pending(msgs, calls, b, t) /\ t = Len(msgs[b].uses) => Settled(msgs, calls)
<1> SUFFICES ASSUME NEW msgs, NEW calls, NEW b \in Nat, NEW t \in Nat,
                    Pending(msgs, calls, b, t), t = Len(msgs[b].uses), NEW a \in 1..Len(msgs)
             PROVE  Excused(msgs, calls, a)
  BY DEF Settled
<1>1. CASE a = b
  BY <1>1 DEF Pending, Excused, Complete
<1>2. CASE a # b
  BY <1>2 DEF Pending
<1>3. QED  BY <1>1, <1>2

\* What a trim of a memory with room for its last turn leaves of this.
LEMMA SoundKeeps ==
  \A have, msgs \in Seq(Message), max \in LimitType :
    Keeps(have, msgs, max) /\ Sound(msgs) =>
      /\ Sound(have)
      /\ \A calls : Settled(msgs, calls) => Settled(have, calls)
      /\ \A calls : \A b, t \in Nat : Pending(msgs, calls, b, t) =>
           \E c \in 1..Len(have) : Pending(have, calls, c, t) /\ have[c] = msgs[b]
<1> SUFFICES ASSUME NEW have \in Seq(Message), NEW msgs \in Seq(Message), NEW max \in LimitType,
                    Keeps(have, msgs, max), Sound(msgs)
             PROVE  /\ Sound(have)
                    /\ \A calls : Settled(msgs, calls) => Settled(have, calls)
                    /\ \A calls : \A b, t \in Nat : Pending(msgs, calls, b, t) =>
                         \E c \in 1..Len(have) : Pending(have, calls, c, t) /\ have[c] = msgs[b]
  OBVIOUS
<1>1. PICK k \in 1..Len(msgs) + 1, a \in {0, 1} : Part(have, msgs, k, a) /\ Whole(msgs, k, max)
  BY DEF Keeps
<1>2. k \in Nat /\ k > 0 /\ a \in Nat
  OBVIOUS
<1>3. Sound(have)
  <2>1. CASE k = 1
    <3>1. Clean(msgs, k)
      BY <2>1 DEF Clean
    <3>2. QED  BY <1>1, <1>2, <3>1, SoundPart
  <2>2. CASE k # 1
    <3>1. UnitStart(msgs, k)
      BY <1>1, <2>2 DEF Whole
    <3>2. Clean(msgs, k)
      BY <1>2, <3>1, CleanCut
    <3>3. QED  BY <1>1, <1>2, <3>2, SoundPart
  <2>3. QED  BY <2>1, <2>2
<1>4. ASSUME NEW calls, Settled(msgs, calls) PROVE Settled(have, calls)
  BY <1>1, <1>2, <1>4, SettledPart
<1>5. ASSUME NEW calls, NEW b \in Nat, NEW t \in Nat, Pending(msgs, calls, b, t)
      PROVE  \E c \in 1..Len(have) : Pending(have, calls, c, t) /\ have[c] = msgs[b]
  <2>1. LastAt(msgs, b) /\ b \in 1..Len(msgs)
    BY <1>5 DEF Pending, LastAt
  <2>2. k <= b
    BY <1>1, <2>1 DEF Whole
  <2>3. QED  BY <1>1, <1>2, <1>5, <2>2, PendingPart
<1>6. QED  BY <1>3, <1>4, <1>5

\* One message more: those before have what they had.
LEMMA AppendAnswers ==
  \A msgs \in Seq(Message), m \in Message :
    /\ Append(msgs, m) \in Seq(Message) /\ Len(Append(msgs, m)) = Len(msgs) + 1 /\ Append(msgs, m)[Len(msgs) + 1] = m
    /\ \A i \in 1..Len(msgs) : Append(msgs, m)[i] = msgs[i]
    /\ \A i \in 1..Len(msgs), t \in Nat : t > 0 /\ AnsweredAt(msgs, i, t) => AnsweredAt(Append(msgs, m), i, t)
    /\ \A i, j \in 1..Len(msgs) : ResultOf(msgs, i, j) => ResultOf(Append(msgs, m), i, j)
    /\ \A i \in 1..Len(msgs) : \A calls : Excused(msgs, calls, i) => Excused(Append(msgs, m), calls, i)
<1> TAKE msgs \in Seq(Message), m \in Message
<1> DEFINE y == Append(msgs, m)
           n == Len(msgs)
<1>1. n \in Nat /\ y \in Seq(Message) /\ Len(y) = n + 1 /\ y[n + 1] = m /\ \A i \in 1..n : y[i] = msgs[i]
  OBVIOUS
<1> HIDE DEF y
<1>2. ASSUME NEW i \in 1..n, NEW t \in Nat, t > 0, AnsweredAt(msgs, i, t) PROVE AnsweredAt(y, i, t)
  <2>1. i + t <= n /\ msgs[i + t].answers = msgs[i].uses[t] /\ i + t \in 1..n
    BY <1>1, <1>2 DEF AnsweredAt
  <2>2. QED  BY <1>1, <2>1 DEF AnsweredAt
<1> HIDE DEF n
<1>3. ASSUME NEW i \in 1..n, NEW j \in 1..n, ResultOf(msgs, i, j) PROVE ResultOf(y, i, j)
  <2>1. i < j /\ j - i <= Len(msgs[i].uses) /\ \A t \in 1..j - i : AnsweredAt(msgs, i, t)
    BY <1>3 DEF ResultOf
  <2>2. \A t \in 1..j - i : t \in Nat /\ t > 0
    BY <1>1, <2>1
  <2>3. \A t \in 1..j - i : AnsweredAt(y, i, t)
    BY <1>2, <2>1, <2>2
  <2>4. QED  BY <1>1, <2>1, <2>3 DEF ResultOf
<1>4. ASSUME NEW i \in 1..n, NEW calls, Excused(msgs, calls, i) PROVE Excused(y, calls, i)
  <2>1. Len(msgs[i].uses) \in Nat
    BY MessageParts DEF n
  <2>2. \A t \in 1..Len(msgs[i].uses) : t \in Nat /\ t > 0
    BY <2>1
  <2>3. Complete(msgs, i) => Complete(y, i)
    BY <1>1, <1>2, <2>2 DEF Complete
  <2>4. QED  BY <1>1, <1>4, <2>3 DEF Excused
<1>5. QED  BY <1>1, <1>2, <1>3, <1>4 DEF y, n

\* A message of the user's that is no result, an answer, or a batch.
LEMMA SoundAppend ==
  \A msgs \in Seq(Message), m \in Message :
    Sound(msgs) /\ m.answers = NoCall /\ NoTwice(m.uses) /\ (m.role = "user" => m.uses = <<>>) =>
      /\ Sound(Append(msgs, m))
      /\ m.uses = <<>> => \A calls : Settled(msgs, calls) => Settled(Append(msgs, m), calls)
      /\ m.role = "assistant" => \A calls : Settled(msgs, calls) => Pending(Append(msgs, m), calls, Len(msgs) + 1, 0)
<1> SUFFICES ASSUME NEW msgs \in Seq(Message), NEW m \in Message, Sound(msgs), m.answers = NoCall, NoTwice(m.uses),
                    m.role = "user" => m.uses = <<>>
             PROVE  /\ Sound(Append(msgs, m))
                    /\ m.uses = <<>> => \A calls : Settled(msgs, calls) => Settled(Append(msgs, m), calls)
                    /\ m.role = "assistant" => \A calls : Settled(msgs, calls) => Pending(Append(msgs, m), calls, Len(msgs) + 1, 0)
  OBVIOUS
<1> DEFINE y == Append(msgs, m)
           n == Len(msgs)
<1>1. /\ y \in Seq(Message) /\ Len(y) = n + 1 /\ y[n + 1] = m /\ n \in Nat
      /\ \A i \in 1..n : y[i] = msgs[i]
      /\ \A i, j \in 1..n : ResultOf(msgs, i, j) => ResultOf(y, i, j)
      /\ \A i \in 1..n : \A calls : Excused(msgs, calls, i) => Excused(y, calls, i)
  BY AppendAnswers
<1>2. \A i \in 1..n + 1 : i \in 1..n \/ i = n + 1
  BY <1>1
<1>3. Kinds(msgs) /\ Distinct(msgs) /\ Placed(msgs)
  BY DEF Sound
<1> HIDE DEF y, n
<1>4. Kinds(y)
  <2>1. \A i \in 1..n : /\ msgs[i].role = "user" => msgs[i].uses = <<>>
                        /\ msgs[i].role = "assistant" => msgs[i].answers = NoCall
    BY <1>3 DEF Kinds, n
  <2>2. QED  BY <1>1, <1>2, <2>1 DEF Kinds
<1>5. Distinct(y)
  <2>1. \A i \in 1..n : NoTwice(msgs[i].uses)
    BY <1>3 DEF Distinct, n
  <2>2. \A i \in 1..n + 1 : NoTwice(y[i].uses)
    BY <1>1, <1>2, <2>1
  <2>3. QED  BY <1>1, <2>2 DEF Distinct
<1>6. Placed(y)
  <2>1. ASSUME NEW j \in 1..n + 1, y[j].answers # NoCall PROVE \E a \in 1..n + 1 : ResultOf(y, a, j)
    <3>1. j \in 1..n /\ msgs[j].answers # NoCall
      BY <1>1, <1>2, <2>1
    <3>2. PICK a \in 1..n : ResultOf(msgs, a, j)
      BY <1>3, <3>1 DEF Placed, n
    <3>3. a \in 1..n + 1
      BY <1>1
    <3>4. QED  BY <1>1, <3>1, <3>2, <3>3
  <2>2. QED  BY <1>1, <2>1 DEF Placed
<1>7. Sound(y)
  BY <1>4, <1>5, <1>6 DEF Sound
<1>8. ASSUME NEW calls, Settled(msgs, calls) PROVE \A i \in 1..n : Excused(y, calls, i)
  <2>1. \A i \in 1..n : Excused(msgs, calls, i)
    BY <1>8 DEF Settled, n
  <2>2. QED  BY <1>1, <2>1
<1>9. ASSUME m.uses = <<>>, NEW calls, Settled(msgs, calls) PROVE Settled(y, calls)
  <2>1. y[n + 1].uses = <<>>
    BY <1>1, <1>9
  <2>2. Excused(y, calls, n + 1)
    BY <2>1 DEF Excused, Complete
  <2>3. \A i \in 1..n + 1 : Excused(y, calls, i)
    BY <1>2, <1>8, <1>9, <2>2
  <2>4. QED  BY <1>1, <2>3 DEF Settled
<1>10. ASSUME m.role = "assistant", NEW calls, Settled(msgs, calls) PROVE Pending(y, calls, n + 1, 0)
  <2>1. LastAt(y, n + 1)
    BY <1>1, <1>10 DEF LastAt
  <2>2. \A i \in 1..n + 1 : i # n + 1 => Excused(y, calls, i)
    BY <1>2, <1>8, <1>10
  <2>3. Len(y[n + 1].uses) \in Nat
    <3>1. n + 1 \in 1..Len(y)
      BY <1>1
    <3>2. QED  BY <1>1, <3>1, MessageParts
  <2>4. Len(y) = n + 1 + 0 /\ 0 <= Len(y[n + 1].uses)
    BY <1>1, <2>3
  <2>5. QED  BY <1>1, <2>1, <2>2, <2>4 DEF Pending
<1>11. QED  BY <1>7, <1>9, <1>10 DEF y, n

\* The next result of the batch that is being answered.
LEMMA ResultAppend ==
  \A msgs \in Seq(Message), m \in Message, a, k \in Nat : \A calls :
    /\ Sound(msgs) /\ Pending(msgs, calls, a, k) /\ k < Len(msgs[a].uses)
    /\ m.role = "user" /\ m.uses = <<>> /\ m.answers = msgs[a].uses[k + 1]
    => Sound(Append(msgs, m)) /\ Pending(Append(msgs, m), calls, a, k + 1) /\ Append(msgs, m)[a] = msgs[a]
<1> SUFFICES ASSUME NEW msgs \in Seq(Message), NEW m \in Message, NEW a \in Nat, NEW k \in Nat, NEW calls,
                    Sound(msgs), Pending(msgs, calls, a, k), k < Len(msgs[a].uses),
                    m.role = "user", m.uses = <<>>, m.answers = msgs[a].uses[k + 1]
             PROVE  Sound(Append(msgs, m)) /\ Pending(Append(msgs, m), calls, a, k + 1) /\ Append(msgs, m)[a] = msgs[a]
  OBVIOUS
<1> DEFINE y == Append(msgs, m)
           n == Len(msgs)
<1>1. /\ y \in Seq(Message) /\ Len(y) = n + 1 /\ y[n + 1] = m /\ n \in Nat
      /\ \A i \in 1..n : y[i] = msgs[i]
      /\ \A i \in 1..n, t \in Nat : t > 0 /\ AnsweredAt(msgs, i, t) => AnsweredAt(y, i, t)
      /\ \A i, j \in 1..n : ResultOf(msgs, i, j) => ResultOf(y, i, j)
      /\ \A i \in 1..n : \A some : Excused(msgs, some, i) => Excused(y, some, i)
  BY AppendAnswers
<1>2. \A i \in 1..n + 1 : i \in 1..n \/ i = n + 1
  BY <1>1
<1>3. Kinds(msgs) /\ Distinct(msgs) /\ Placed(msgs)
  BY DEF Sound
<1>4. /\ n = a + k /\ a \in 1..n /\ msgs[a].role = "assistant"
      /\ \A j \in 1..n : j > a => msgs[j].role = "user"
      /\ \A i \in 1..k : AnsweredAt(msgs, a, i)
      /\ \A b \in 1..n : b # a => Excused(msgs, calls, b)
  BY DEF Pending, LastAt
<1>5. Len(msgs[a].uses) \in Nat /\ k + 1 <= Len(msgs[a].uses)
  BY <1>4, MessageParts
<1> HIDE DEF y, n
<1>6. \A i \in 1..k + 1 : AnsweredAt(y, a, i)
  <2> TAKE i \in 1..k + 1
  <2>1. CASE i \in 1..k
    <3>1. i \in Nat /\ i > 0 /\ AnsweredAt(msgs, a, i)
      BY <1>4, <2>1
    <3>2. QED  BY <1>1, <1>4, <3>1
  <2>2. CASE i = k + 1
    <3>1. a + i = n + 1 /\ y[a] = msgs[a]
      BY <1>1, <1>4, <2>2
    <3>2. QED  BY <1>1, <2>2, <3>1 DEF AnsweredAt
  <2>3. QED  BY <2>1, <2>2
<1>7. Kinds(y)
  <2>1. \A i \in 1..n : /\ msgs[i].role = "user" => msgs[i].uses = <<>>
                        /\ msgs[i].role = "assistant" => msgs[i].answers = NoCall
    BY <1>3 DEF Kinds, n
  <2>2. QED  BY <1>1, <1>2, <2>1 DEF Kinds
<1>8. Distinct(y)
  <2>1. \A i \in 1..n : NoTwice(msgs[i].uses)
    BY <1>3 DEF Distinct, n
  <2>2. NoTwice(<<>>)
    BY DEF NoTwice
  <2>3. \A i \in 1..n + 1 : NoTwice(y[i].uses)
    BY <1>1, <1>2, <2>1, <2>2
  <2>4. QED  BY <1>1, <2>3 DEF Distinct
<1>9. Placed(y)
  <2>1. ASSUME NEW j \in 1..n + 1, y[j].answers # NoCall PROVE \E b \in 1..n + 1 : ResultOf(y, b, j)
    <3>1. CASE j \in 1..n
      <4>1. msgs[j].answers # NoCall
        BY <1>1, <2>1, <3>1
      <4>2. PICK b \in 1..n : ResultOf(msgs, b, j)
        BY <1>3, <3>1, <4>1 DEF Placed, n
      <4>3. b \in 1..n + 1
        BY <1>1
      <4>4. QED  BY <1>1, <3>1, <4>2, <4>3
    <3>2. CASE j = n + 1
      <4>1. a < j /\ j - a = k + 1 /\ a \in 1..n + 1
        BY <1>1, <1>4, <3>2
      <4>2. j - a <= Len(y[a].uses)
        BY <1>1, <1>4, <1>5, <4>1
      <4>3. ResultOf(y, a, j)
        BY <1>6, <4>1, <4>2 DEF ResultOf
      <4>4. QED  BY <4>1, <4>3
    <3>3. QED  BY <1>2, <3>1, <3>2
  <2>2. QED  BY <1>1, <2>1 DEF Placed
<1>10. Pending(y, calls, a, k + 1)
  <2>1. LastAt(y, a)
    <3>1. \A j \in 1..n + 1 : j > a => y[j].role = "user"
      BY <1>1, <1>2, <1>4
    <3>2. a \in 1..n + 1 /\ y[a].role = "assistant"
      BY <1>1, <1>4
    <3>3. QED  BY <1>1, <3>1, <3>2 DEF LastAt
  <2>2. ASSUME NEW b \in 1..n + 1, b # a PROVE Excused(y, calls, b)
    <3>1. CASE b \in 1..n
      BY <1>1, <1>4, <2>2, <3>1
    <3>2. CASE b = n + 1
      <4>1. y[b].uses = <<>>
        BY <1>1, <3>2
      <4>2. QED  BY <4>1 DEF Excused, Complete
    <3>3. QED  BY <1>2, <3>1, <3>2
  <2>3. Len(y) = a + (k + 1) /\ k + 1 <= Len(y[a].uses)
    BY <1>1, <1>4, <1>5
  <2>4. QED  BY <1>1, <1>6, <2>1, <2>2, <2>3 DEF Pending
<1>11. Sound(y) /\ y[a] = msgs[a]
  BY <1>1, <1>4, <1>7, <1>8, <1>9 DEF Sound
<1>12. QED  BY <1>10, <1>11 DEF y

\* new are the results of calls behind the first k.
NextResults(new, calls, k) ==
  /\ k + Len(new) <= Len(calls)
  /\ \A i \in 1..Len(new) : new[i].role = "user" /\ new[i].uses = <<>> /\ new[i].answers = calls[k + i]

\* The next results of a batch, in their order.
LEMMA ResultsAppend ==
  \A msgs, new \in Seq(Message), a, k \in Nat : \A calls :
    Sound(msgs) /\ Pending(msgs, calls, a, k) /\ NextResults(new, msgs[a].uses, k) =>
      Sound(msgs \o new) /\ Pending(msgs \o new, calls, a, k + Len(new)) /\ (msgs \o new)[a] = msgs[a]
<1> SUFFICES ASSUME NEW msgs \in Seq(Message), NEW new \in Seq(Message), NEW a \in Nat, NEW k \in Nat, NEW calls,
                    Sound(msgs), Pending(msgs, calls, a, k), NextResults(new, msgs[a].uses, k)
             PROVE  Sound(msgs \o new) /\ Pending(msgs \o new, calls, a, k + Len(new)) /\ (msgs \o new)[a] = msgs[a]
  OBVIOUS
<1> DEFINE n == Len(new)
           all == Len(msgs[a].uses)
           Good(i) == /\ Sound(Upto(msgs, new, i)) /\ Pending(Upto(msgs, new, i), calls, a, k + i)
                      /\ Upto(msgs, new, i)[a] = msgs[a]
           S == {i \in Nat : i <= n => Good(i)}
<1>1. n \in Nat /\ all \in Nat /\ k + n <= all
  <2>1. a \in 1..Len(msgs)
    BY DEF Pending, LastAt
  <2>2. all \in Nat
    BY <2>1, MessageParts
  <2>3. QED  BY <2>2 DEF NextResults
<1>2. /\ Upto(msgs, new, 0) = msgs /\ Upto(msgs, new, n) = msgs \o new
      /\ \A i \in Nat : i + 1 <= n => Upto(msgs, new, i + 1) = Append(Upto(msgs, new, i), new[i + 1])
      /\ \A i \in Nat : i <= n => Upto(msgs, new, i) \in Seq(Message)
  BY UptoFacts
<1>3. \A i \in 1..n : new[i] \in Message /\ new[i].role = "user" /\ new[i].uses = <<>> /\ new[i].answers = msgs[a].uses[k + i]
  BY DEF NextResults
<1> HIDE DEF n, all
<1>4. 0 \in S
  <2>1. k + 0 = k
    OBVIOUS
  <2>2. QED  BY <1>2, <2>1
<1>5. ASSUME NEW i \in S PROVE i + 1 \in S
  <2> SUFFICES ASSUME i + 1 <= n PROVE Good(i + 1)
    BY <1>5
  <2> DEFINE have == Upto(msgs, new, i)
             m == new[i + 1]
             j == k + i
  <2>0. i \in Nat /\ Good(i)
    BY <1>1, <1>5
  <2>1. i \in Nat /\ i <= n /\ i + 1 \in 1..n /\ j \in Nat /\ j < all /\ j + 1 = k + (i + 1)
    <3> HIDE DEF Good, S
    <3>1. QED  BY <1>1, <2>0
  <2>2. have \in Seq(Message) /\ Upto(msgs, new, i + 1) = Append(have, m) /\ Good(i)
    BY <1>2, <2>0, <2>1
  <2>3. m \in Message /\ m.role = "user" /\ m.uses = <<>> /\ m.answers = msgs[a].uses[j + 1]
    BY <1>3, <2>1
  <2>4. Sound(have) /\ Pending(have, calls, a, j) /\ have[a] = msgs[a]
    BY <2>2
  <2> HIDE DEF m, have
  <2>5. j < Len(have[a].uses) /\ m.answers = have[a].uses[j + 1]
    BY <2>1, <2>3, <2>4 DEF all
  <2> HIDE DEF j
  <2>6. Sound(Append(have, m)) /\ Pending(Append(have, m), calls, a, j + 1) /\ Append(have, m)[a] = have[a]
    BY <2>1, <2>2, <2>3, <2>4, <2>5, ResultAppend
  <2>7. QED  BY <2>1, <2>2, <2>4, <2>6
<1>6. S = Nat
  <2> HIDE DEF S
  <2>1. \A i \in S : i + 1 \in S
    BY <1>5
  <2>2. S \in SUBSET Nat
    BY DEF S
  <2>3. QED  BY <1>4, <2>1, <2>2, SetInduction
<1>7. Good(n)
  <2>1. n \in S /\ n <= n
    BY <1>1, <1>6
  <2>2. QED  BY <2>1
<1>8. QED  BY <1>2, <1>7 DEF n

\* What the user says behind the rest.
LEMMA HumansAppend ==
  \A msgs, new \in Seq(Message) :
    Sound(msgs) /\ (\A i \in 1..Len(new) : new[i].role = "user" /\ new[i].uses = <<>> /\ new[i].answers = NoCall) =>
      Sound(msgs \o new) /\ \A calls : Settled(msgs, calls) => Settled(msgs \o new, calls)
<1> SUFFICES ASSUME NEW msgs \in Seq(Message), NEW new \in Seq(Message), Sound(msgs),
                    \A i \in 1..Len(new) : new[i].role = "user" /\ new[i].uses = <<>> /\ new[i].answers = NoCall
             PROVE  Sound(msgs \o new) /\ \A calls : Settled(msgs, calls) => Settled(msgs \o new, calls)
  OBVIOUS
<1> DEFINE n == Len(new)
           Good(i) == Sound(Upto(msgs, new, i)) /\ \A calls : Settled(msgs, calls) => Settled(Upto(msgs, new, i), calls)
           S == {i \in Nat : i <= n => Good(i)}
<1>1. n \in Nat
  OBVIOUS
<1>2. /\ Upto(msgs, new, 0) = msgs /\ Upto(msgs, new, n) = msgs \o new
      /\ \A i \in Nat : i + 1 <= n => Upto(msgs, new, i + 1) = Append(Upto(msgs, new, i), new[i + 1])
      /\ \A i \in Nat : i <= n => Upto(msgs, new, i) \in Seq(Message)
  BY UptoFacts
<1>3. \A i \in 1..n : new[i] \in Message /\ new[i].role = "user" /\ new[i].uses = <<>> /\ new[i].answers = NoCall
  OBVIOUS
<1> HIDE DEF n
<1>4. 0 \in S
  BY <1>2
<1>5. ASSUME NEW i \in S PROVE i + 1 \in S
  <2> SUFFICES ASSUME i + 1 <= n PROVE Good(i + 1)
    BY <1>5
  <2> DEFINE have == Upto(msgs, new, i)
             m == new[i + 1]
  <2>1. i \in Nat /\ i <= n /\ i + 1 \in 1..n
    BY <1>1
  <2>2. have \in Seq(Message) /\ Upto(msgs, new, i + 1) = Append(have, m) /\ Good(i)
    BY <1>2, <1>5, <2>1
  <2>3. m \in Message /\ m.role = "user" /\ m.uses = <<>> /\ m.answers = NoCall
    BY <1>3, <2>1
  <2>4. Sound(have) /\ \A calls : Settled(msgs, calls) => Settled(have, calls)
    BY <2>2
  <2> HIDE DEF m, have
  <2>5. NoTwice(m.uses)
    BY <2>3 DEF NoTwice
  <2>6. Sound(Append(have, m)) /\ \A calls : Settled(have, calls) => Settled(Append(have, m), calls)
    BY <2>2, <2>3, <2>4, <2>5, SoundAppend
  <2>7. QED  BY <2>2, <2>4, <2>6
<1>6. S = Nat
  <2> HIDE DEF S
  <2>1. \A i \in S : i + 1 \in S
    BY <1>5
  <2>2. S \in SUBSET Nat
    BY DEF S
  <2>3. QED  BY <1>4, <2>1, <2>2, SetInduction
<1>7. Good(n)
  <2>1. n \in S /\ n <= n
    BY <1>1, <1>6
  <2>2. QED  BY <2>1
<1>8. QED  BY <1>2, <1>7

\* What results are made of.
LEMMA ResultsParts ==
  \A ids \in Seq(CallIds) :
    /\ Results(ids) \in Seq(Message) /\ Len(Results(ids)) = Len(ids)
    /\ \A i \in 1..Len(ids) : /\ Results(ids)[i].role = "user" /\ Results(ids)[i].uses = <<>>
                              /\ Results(ids)[i].answers = ids[i]
<1> TAKE ids \in Seq(CallIds)
<1> DEFINE n == Len(ids)
           new == Results(ids)
<1>1. DOMAIN ids = 1..n /\ n \in Nat /\ \A i \in 1..n : ids[i] \in CallIds
  OBVIOUS
<1>2. \A call \in CallIds : /\ ToolResult(call) \in Message /\ ToolResult(call).role = "user"
                            /\ ToolResult(call).uses = <<>> /\ ToolResult(call).answers = call
  BY DEF ToolResult, Message, Texts
<1>3. new = [i \in 1..n |-> ToolResult(ids[i])]
  BY <1>1 DEF Results
<1>4. \A i \in 1..n : ToolResult(ids[i]) \in Message
  BY <1>1, <1>2
<1>5. new \in Seq(Message) /\ Len(new) = n /\ \A i \in 1..n : new[i] = ToolResult(ids[i])
  BY <1>1, <1>3, <1>4
<1>6. QED  BY <1>1, <1>2, <1>5

\* The results that come next, added.
LEMMA AddResultsSound ==
  \A msgs \in Seq(Message), ids \in Seq(CallIds), a, k \in Nat, max \in LimitType : \A calls :
    /\ Sound(msgs) /\ Pending(msgs, calls, a, k) /\ Room(msgs, Len(ids), max)
    /\ NextResults(Results(ids), msgs[a].uses, k)
    => /\ Sound(AddResults(msgs, ids, max))
       /\ \E c \in Nat : /\ Pending(AddResults(msgs, ids, max), calls, c, k + Len(ids))
                         /\ AddResults(msgs, ids, max)[c] = msgs[a]
<1> SUFFICES ASSUME NEW msgs \in Seq(Message), NEW ids \in Seq(CallIds), NEW a \in Nat, NEW k \in Nat, NEW max \in LimitType, NEW calls,
                    Sound(msgs), Pending(msgs, calls, a, k), Room(msgs, Len(ids), max),
                    NextResults(Results(ids), msgs[a].uses, k)
             PROVE  /\ Sound(AddResults(msgs, ids, max))
                    /\ \E c \in Nat : /\ Pending(AddResults(msgs, ids, max), calls, c, k + Len(ids))
                                      /\ AddResults(msgs, ids, max)[c] = msgs[a]
  OBVIOUS
<1> DEFINE new == Results(ids)
           all == msgs \o new
           have == AddResults(msgs, ids, max)
           n == k + Len(ids)
<1>1. new \in Seq(Message) /\ Len(new) = Len(ids) /\ n \in Nat
  BY ResultsParts
<1>2. \A i \in 1..Len(new) : new[i].role = "user"
  BY DEF NextResults
<1>3. have = AddAll(msgs, new, max) /\ have \in Seq(Message)
  BY ResultsAnswer DEF AddResults
<1>4. all \in Seq(Message)
  BY <1>1
<1>5. Sound(all) /\ Pending(all, calls, a, n) /\ all[a] = msgs[a]
  BY <1>1, ResultsAppend
<1> HIDE DEF new, have, n
<1>6. Keeps(have, all, max)
  BY <1>1, <1>2, <1>3, AddAllKeeps
<1> HIDE DEF all
<1>7. Sound(have) /\ \E c \in 1..Len(have) : Pending(have, calls, c, n) /\ have[c] = all[a]
  <2>1. /\ Sound(have)
        /\ \A some : \A b, t \in Nat : Pending(all, some, b, t) =>
             \E c \in 1..Len(have) : Pending(have, some, c, t) /\ have[c] = all[b]
    BY <1>3, <1>4, <1>5, <1>6, SoundKeeps
  <2>2. QED  BY <1>1, <1>5, <2>1
<1>8. PICK c \in 1..Len(have) : Pending(have, calls, c, n) /\ have[c] = msgs[a]
  BY <1>5, <1>7
<1>9. c \in Nat
  BY <1>3
<1>10. QED  BY <1>7, <1>8, <1>9 DEF have, n

\* What the user says, added.
LEMMA AddHumansSound ==
  \A msgs \in Seq(Message), texts \in Seq(Texts), max \in LimitType : \A calls :
    Sound(msgs) /\ Settled(msgs, calls) /\ Room(msgs, Len(texts), max) =>
      Sound(AddHumans(msgs, texts, max)) /\ Settled(AddHumans(msgs, texts, max), calls)
<1> SUFFICES ASSUME NEW msgs \in Seq(Message), NEW texts \in Seq(Texts), NEW max \in LimitType, NEW calls,
                    Sound(msgs), Settled(msgs, calls), Room(msgs, Len(texts), max)
             PROVE  Sound(AddHumans(msgs, texts, max)) /\ Settled(AddHumans(msgs, texts, max), calls)
  OBVIOUS
<1> DEFINE new == HumanAll(texts)
           all == msgs \o new
           have == AddHumans(msgs, texts, max)
<1>1. new \in Seq(Message) /\ Len(new) = Len(texts)
  BY HumanAllFacts
<1>2. \A i \in 1..Len(new) : new[i].role = "user" /\ new[i].uses = <<>> /\ new[i].answers = NoCall
  BY <1>1 DEF HumanAll, Human
<1>3. have = AddAll(msgs, new, max) /\ have \in Seq(Message)
  BY HumansOpenNothing DEF AddHumans
<1>4. all \in Seq(Message)
  BY <1>1
<1> HIDE DEF new, have
<1>5. Sound(all) /\ Settled(all, calls)
  BY <1>1, <1>2, HumansAppend
<1>6. Keeps(have, all, max)
  BY <1>1, <1>2, <1>3, AddAllKeeps
<1> HIDE DEF all
<1>7. Sound(have) /\ Settled(have, calls)
  BY <1>3, <1>4, <1>5, <1>6, SoundKeeps
<1>8. QED  BY <1>7 DEF have

-----------------------------------------------------------------------------
(* The user first *)

Begins(msgs) == msgs # <<>> => msgs[1].role = "user"

\* A trim keeps it so, or makes it so.
LEMMA TrimBegins ==
  \A msgs \in Seq(Message), max \in LimitType : Begins(msgs) => Begins(Trim(msgs, max))
<1> SUFFICES ASSUME NEW msgs \in Seq(Message), NEW max \in LimitType, Begins(msgs)
             PROVE  Begins(Trim(msgs, max))
  OBVIOUS
<1>1. CASE max = NoLimit
  BY <1>1 DEF Trim
<1>2. CASE max # NoLimit /\ max = 0
  BY <1>2 DEF Trim, Begins
<1>3. CASE max # NoLimit /\ max # 0
  <2> DEFINE twice == 2 * max
             from == KeptFrom(msgs, twice)
             n == Len(msgs)
             rest == SubSeq(msgs, from, n)
             first == <<Human("anchor")>>
  <2>1. twice \in Nat
    BY <1>3 DEF LimitType
  <2> HIDE DEF twice
  <2>2. from \in 1..n + 1 /\ n \in Nat
    <3>1. KeptFrom(msgs, twice) \in 1..Len(msgs) + 1
      BY ONLY <2>1, msgs \in Seq(Message), KeptFromFacts
    <3>2. QED  BY <3>1
  <2>3. rest \in Seq(Message) /\ Len(rest) = n + 1 - from
    BY <2>2, Suffix
  <2>4. from <= n => rest[1] = msgs[from] /\ msgs[from].role \in {"user", "assistant"}
    <3>1. from <= n => 1 \in 1..n + 1 - from /\ from + 1 - 1 = from /\ from \in 1..n
      BY <2>2
    <3>2. QED  BY <2>2, <3>1, Suffix, MessageParts
  <2>5. first \in Seq(Message) /\ Len(first) = 1 /\ first[1].role = "user"
    BY DEF Human, Message, Texts
  <2>6. CASE from \in DOMAIN msgs /\ msgs[from].role = "assistant"
    <3>1. Trim(msgs, max) = first \o rest
      BY <1>3, <2>6 DEF Trim, twice
    <3> HIDE DEF first, rest
    <3>2. (first \o rest)[1] = first[1]
      <4>1. first \in Seq(Message) /\ rest \in Seq(Message) /\ 1 \in 1..Len(first)
        BY <2>3, <2>5
      <4>2. QED  BY ONLY <4>1, Joined
    <3>3. QED  BY <2>5, <3>1, <3>2 DEF Begins
  <2>7. CASE ~(from \in DOMAIN msgs /\ msgs[from].role = "assistant")
    <3>1. Trim(msgs, max) = <<>> \o rest
      BY <1>3, <2>7 DEF Trim, twice
    <3>2. <<>> \o rest = rest
      <4> HIDE DEF rest
      <4>1. QED  BY <2>3
    <3>3. rest # <<>> => from <= n
      BY <2>2, <2>3
    <3>4. from <= n => from \in DOMAIN msgs
      BY <2>2
    <3> HIDE DEF from, n, rest
    <3>5. QED  BY <2>4, <2>7, <3>1, <3>2, <3>3, <3>4 DEF Begins
  <2>8. QED  BY <2>6, <2>7
<1>4. QED  BY <1>1, <1>2, <1>3

\* So does a message behind another, or the user's.
LEMMA AddBegins ==
  \A msgs \in Seq(Message), m \in Message, max \in LimitType :
    Begins(msgs) /\ (msgs # <<>> \/ m.role = "user") => Begins(Add(msgs, m, max))
<1> SUFFICES ASSUME NEW msgs \in Seq(Message), NEW m \in Message, NEW max \in LimitType,
                    Begins(msgs), msgs # <<>> \/ m.role = "user"
             PROVE  Begins(Add(msgs, m, max))
  OBVIOUS
<1> DEFINE x == Append(msgs, m)
<1>1. x \in Seq(Message) /\ (msgs # <<>> => x[1] = msgs[1]) /\ (msgs = <<>> => x[1] = m)
  OBVIOUS
<1> HIDE DEF x
<1>2. Begins(x)
  BY <1>1 DEF Begins
<1>3. QED  BY <1>1, <1>2, TrimBegins DEF Add, x

\* And any number of the user's.
LEMMA AddAllBegins ==
  \A msgs, new \in Seq(Message), max \in LimitType :
    Begins(msgs) /\ (\A i \in 1..Len(new) : new[i].role = "user") => Begins(AddAll(msgs, new, max))
<1> SUFFICES ASSUME NEW msgs \in Seq(Message), NEW new \in Seq(Message), NEW max \in LimitType,
                    Begins(msgs), \A i \in 1..Len(new) : new[i].role = "user"
             PROVE  Begins(AddAll(msgs, new, max))
  OBVIOUS
<1> DEFINE n == Len(new)
<1>1. n \in Nat
  OBVIOUS
<1>2. PICK add \in [0..n -> Seq(Message)] :
        /\ add[0] = msgs
        /\ \A i \in 1..n : add[i] = Add(add[i - 1], new[i], max)
        /\ AddAll(msgs, new, max) = add[n]
  BY AddAllSteps
<1>3. \A i \in 1..n : new[i] \in Message /\ new[i].role = "user"
  OBVIOUS
<1> HIDE DEF n
<1> DEFINE S == {i \in Nat : i <= n => Begins(add[i])}
<1>4. 0 \in S
  BY <1>2
<1>5. ASSUME NEW i \in S PROVE i + 1 \in S
  <2> SUFFICES ASSUME i + 1 <= n PROVE Begins(add[i + 1])
    BY <1>5
  <2>1. i \in 0..n /\ i + 1 \in 1..n /\ (i + 1) - 1 = i /\ Begins(add[i])
    BY <1>1, <1>5
  <2>2. add[i] \in Seq(Message) /\ add[i + 1] = Add(add[i], new[i + 1], max)
    BY <1>2, <2>1
  <2>3. QED  BY <1>3, <2>1, <2>2, AddBegins
<1>6. S = Nat
  <2> HIDE DEF S
  <2>1. \A i \in S : i + 1 \in S
    BY <1>5
  <2>2. S \in SUBSET Nat
    BY DEF S
  <2>3. QED  BY <1>4, <2>1, <2>2, SetInduction
<1>7. n \in S /\ n <= n
  <2> HIDE DEF S
  <2>1. QED  BY <1>1, <1>6
<1>8. QED  BY <1>2, <1>7

\* A trim leaves something of a memory with room for its last turn.
LEMMA KeepsSome ==
  \A have, msgs \in Seq(Message), max \in LimitType :
    Keeps(have, msgs, max) /\ msgs # <<>> /\ (max # NoLimit => max > 0) => have # <<>>
<1> SUFFICES ASSUME NEW have \in Seq(Message), NEW msgs \in Seq(Message), NEW max \in LimitType,
                    Keeps(have, msgs, max), msgs # <<>>, max # NoLimit => max > 0
             PROVE  Len(have) > 0
  OBVIOUS
<1>1. PICK k \in 1..Len(msgs) + 1, a \in {0, 1} : Part(have, msgs, k, a) /\ Whole(msgs, k, max)
  BY DEF Keeps
<1>2. Len(have) = a + (Len(msgs) + 1 - k) /\ Len(msgs) \in Nat /\ Len(msgs) > 0
  BY <1>1 DEF Part
<1>3. CASE k = 1
  BY <1>2, <1>3
<1>4. CASE k # 1
  <2>1. /\ max # NoLimit
        /\ \A b \in 1..Len(msgs) : LastAt(msgs, b) => k <= b
        /\ AllUser(msgs) => Len(msgs) + 1 - k >= 2 * max
    BY <1>1, <1>4 DEF Whole
  <2>2. CASE AllUser(msgs)
    <3>1. max \in Nat /\ max > 0 /\ Len(msgs) + 1 - k >= 2 * max
      BY <2>1, <2>2 DEF LimitType
    <3>2. QED  BY <1>2, <3>1
  <2>3. CASE \E b \in 1..Len(msgs) : LastAt(msgs, b)
    <3>1. k <= Len(msgs)
      BY <1>2, <2>1, <2>3
    <3>2. QED  BY <1>2, <3>1
  <2>4. QED  BY <2>2, <2>3, LastExists
<1>5. QED  BY <1>3, <1>4

-----------------------------------------------------------------------------
(* What the repair adds *)

\* The calls looked at one by one, as a table of what is collected.
LEMMA WithoutSteps ==
  \A calls \in Seq(CallIds) : \A answered :
    \E rest \in [0..Len(calls) -> Seq(CallIds)] :
      /\ rest[0] = <<>>
      /\ \A i \in 1..Len(calls) : rest[i] = IF calls[i] \in answered THEN rest[i - 1] ELSE Append(rest[i - 1], calls[i])
      /\ Without(calls, answered) = rest[Len(calls)]
<1> SUFFICES ASSUME NEW calls \in Seq(CallIds), NEW answered
             PROVE  \E rest \in [0..Len(calls) -> Seq(CallIds)] :
                      /\ rest[0] = <<>>
                      /\ \A i \in 1..Len(calls) : rest[i] = IF calls[i] \in answered THEN rest[i - 1] ELSE Append(rest[i - 1], calls[i])
                      /\ Without(calls, answered) = rest[Len(calls)]
  OBVIOUS
<1> DEFINE n == Len(calls)
           T == Seq(CallIds)
           none == <<>>
           F == [i \in 1..n |-> [r \in T |-> IF calls[i] \in answered THEN r ELSE Append(r, calls[i])]]
           Is(g) == g = [i \in 0..n |->
                     IF i = 0 THEN <<>>
                     ELSE IF calls[i] \in answered THEN g[i - 1] ELSE Append(g[i - 1], calls[i])]
           rest == CHOOSE g : Is(g)
<1>1. n \in Nat /\ none \in T /\ \A i \in 1..n : calls[i] \in CallIds
  OBVIOUS
<1>2. F \in [1..n -> [T -> T]]
  BY <1>1
<1>3. PICK g \in [0..n -> T] : g[0] = none /\ \A i \in 1..n : g[i] = F[i][g[i - 1]]
  <2> HIDE DEF F, n, T, rest, none
  <2>1. HasIteration(T, n, none, F)
    BY <1>1, <1>2, IterationExists
  <2>2. QED  BY <2>1 DEF HasIteration, Iterates
<1>4. \A i \in 1..n : g[i] = IF calls[i] \in answered THEN g[i - 1] ELSE Append(g[i - 1], calls[i])
  <2> TAKE i \in 1..n
  <2>1. i - 1 \in 0..n
    BY <1>1
  <2>2. g[i - 1] \in T
    BY <2>1
  <2> HIDE DEF T
  <2>3. QED  BY <1>3, <2>2
<1>5. Is(g)
  <2> DEFINE h == [i \in 0..n |-> IF i = 0 THEN <<>>
                          ELSE IF calls[i] \in answered THEN g[i - 1] ELSE Append(g[i - 1], calls[i])]
  <2>1. \A i \in 0..n : g[i] = h[i]
    <3> TAKE i \in 0..n
    <3> HIDE DEF n, rest
    <3>1. CASE i = 0
      BY <1>3, <3>1
    <3>2. CASE i \in 1..n
      <4>1. i # 0
        BY <1>1, <3>2
      <4>2. h[i] = IF calls[i] \in answered THEN g[i - 1] ELSE Append(g[i - 1], calls[i])
        BY <4>1
      <4>3. QED  BY <1>4, <3>2, <4>2
    <3>3. QED  BY <1>1, <3>1, <3>2
  <2>2. g = h
    BY <2>1
  <2>3. QED  BY <2>2
<1>6. Is(rest)
  <2> HIDE DEF Is
  <2>1. QED  BY <1>5
<1>7. Without(calls, answered) = rest[n]
  BY DEF Without
<1> HIDE DEF rest
<1>8. /\ rest[0] = none
      /\ \A i \in 1..n : rest[i] = IF calls[i] \in answered THEN rest[i - 1] ELSE Append(rest[i - 1], calls[i])
  <2>1. rest[0] = none
    BY <1>1, <1>6
  <2>2. ASSUME NEW i \in 1..n
        PROVE  rest[i] = IF calls[i] \in answered THEN rest[i - 1] ELSE Append(rest[i - 1], calls[i])
    <3>1. i \in 0..n /\ i # 0
      OBVIOUS
    <3>2. QED  BY <1>6, <3>1
  <2>3. QED  BY <2>1, <2>2
<1>9. rest \in [0..n -> T]
  <2> DEFINE S == {i \in Nat : i <= n => rest[i] \in T}
  <2>1. 0 \in S
    BY <1>1, <1>8
  <2>2. ASSUME NEW i \in S PROVE i + 1 \in S
    <3> SUFFICES ASSUME i + 1 <= n PROVE rest[i + 1] \in T
      BY <2>2
    <3>1. i + 1 \in 1..n /\ i + 1 - 1 = i /\ rest[i] \in T
      BY <1>1, <2>2
    <3>2. rest[i + 1] = IF calls[i + 1] \in answered THEN rest[i] ELSE Append(rest[i], calls[i + 1])
      BY <1>8, <3>1
    <3>3. calls[i + 1] \in CallIds
      BY <1>1, <3>1
    <3>4. Append(rest[i], calls[i + 1]) \in T
      BY <3>1, <3>3
    <3> HIDE DEF T
    <3>5. QED  BY <3>1, <3>2, <3>4
  <2>3. S = Nat
    <3> HIDE DEF S
    <3>1. \A i \in S : i + 1 \in S
      BY <2>2
    <3>2. S \in SUBSET Nat
      BY DEF S
    <3>3. QED  BY <2>1, <3>1, <3>2, SetInduction
  <2>4. \A i \in 0..n : rest[i] \in T
    <3> TAKE i \in 0..n
    <3>1. i \in S /\ i <= n
      <4> HIDE DEF S
      <4>1. QED  BY <1>1, <2>3
    <3>2. QED  BY <3>1
  <2>5. DOMAIN rest = 0..n /\ rest = [i \in DOMAIN rest |-> rest[i]]
    BY <1>6
  <2> HIDE DEF T, n
  <2>6. QED  BY <2>4, <2>5
<1>10. QED  BY <1>7, <1>8, <1>9

\* If the first k calls have been answered, the others are collected.
LEMMA WithoutFirst ==
  \A calls \in Seq(CallIds), k \in Nat : \A answered :
    k <= Len(calls) /\ (\A i \in 1..Len(calls) : calls[i] \in answered <=> i <= k) =>
      /\ Without(calls, answered) \in Seq(CallIds)
      /\ Len(Without(calls, answered)) = Len(calls) - k
      /\ \A i \in 1..Len(calls) - k : Without(calls, answered)[i] = calls[k + i]
<1> SUFFICES ASSUME NEW calls \in Seq(CallIds), NEW k \in Nat, NEW answered,
                    k <= Len(calls), \A i \in 1..Len(calls) : calls[i] \in answered <=> i <= k
             PROVE  /\ Without(calls, answered) \in Seq(CallIds)
                    /\ Len(Without(calls, answered)) = Len(calls) - k
                    /\ \A i \in 1..Len(calls) - k : Without(calls, answered)[i] = calls[k + i]
  OBVIOUS
<1> DEFINE n == Len(calls)
<1>1. n \in Nat /\ k <= n /\ \A i \in 1..n : calls[i] \in CallIds /\ (calls[i] \in answered <=> i <= k)
  OBVIOUS
<1>2. PICK rest \in [0..n -> Seq(CallIds)] :
        /\ rest[0] = <<>>
        /\ \A i \in 1..n : rest[i] = IF calls[i] \in answered THEN rest[i - 1] ELSE Append(rest[i - 1], calls[i])
        /\ Without(calls, answered) = rest[n]
  BY WithoutSteps
<1> HIDE DEF n
<1> DEFINE Good(i) == /\ Len(rest[i]) = IF i <= k THEN 0 ELSE i - k
                      /\ \A j \in 1..Len(rest[i]) : rest[i][j] = calls[k + j]
           S == {i \in Nat : i <= n => Good(i)}
<1>3. 0 \in S
  BY <1>2
<1>4. ASSUME NEW i \in S PROVE i + 1 \in S
  <2> SUFFICES ASSUME i + 1 <= n PROVE Good(i + 1)
    BY <1>4
  <2> DEFINE r == rest[i]
  <2>1. i \in 0..n /\ i + 1 \in 1..n /\ i + 1 - 1 = i /\ Good(i) /\ r \in Seq(CallIds)
    BY <1>1, <1>2, <1>4
  <2>2. rest[i + 1] = IF i + 1 <= k THEN r ELSE Append(r, calls[i + 1])
    BY <1>1, <1>2, <2>1
  <2>3. calls[i + 1] \in CallIds
    BY <1>1, <2>1
  <2>4. Len(r) = (IF i <= k THEN 0 ELSE i - k) /\ \A j \in 1..Len(r) : r[j] = calls[k + j]
    BY <2>1
  <2> HIDE DEF r
  <2>5. CASE i + 1 <= k
    BY <2>1, <2>2, <2>4, <2>5
  <2>6. CASE i + 1 > k
    <3> DEFINE new == Append(r, calls[i + 1])
    <3>1. Len(new) = Len(r) + 1 /\ new[Len(r) + 1] = calls[i + 1] /\ \A j \in 1..Len(r) : new[j] = r[j]
      BY <2>1, <2>3
    <3>2. rest[i + 1] = new
      BY <1>1, <2>1, <2>2, <2>6
    <3> HIDE DEF new
    <3>3. Len(r) + 1 = i + 1 - k /\ ~(i + 1 <= k) /\ k + (Len(r) + 1) = i + 1 /\ Len(r) \in Nat
      BY <1>1, <2>1, <2>4, <2>6
    <3>4. ASSUME NEW j \in 1..Len(new) PROVE new[j] = calls[k + j]
      <4>1. CASE j = Len(r) + 1
        BY <3>1, <3>3, <4>1
      <4>2. CASE j \in 1..Len(r)
        BY <2>4, <3>1, <4>2
      <4>3. QED  BY <3>1, <3>3, <4>1, <4>2
    <3>5. QED  BY <3>1, <3>2, <3>3, <3>4
  <2>7. QED  BY <1>1, <2>1, <2>5, <2>6
<1>5. S = Nat
  <2> HIDE DEF S
  <2>1. \A i \in S : i + 1 \in S
    BY <1>4
  <2>2. S \in SUBSET Nat
    BY DEF S
  <2>3. QED  BY <1>3, <2>1, <2>2, SetInduction
<1>6. Good(n)
  <2>1. n \in S /\ n <= n
    <3> HIDE DEF S
    <3>1. QED  BY <1>1, <1>5
  <2>2. QED  BY <2>1
<1>7. Len(rest[n]) = n - k /\ rest[n] \in Seq(CallIds)
  BY <1>1, <1>2, <1>6
<1>8. QED  BY <1>2, <1>6, <1>7 DEF n

\* What the last batch lacks.
LEMMA UnansweredOfLast ==
  \A msgs \in Seq(Message) : \A b \in 1..Len(msgs) :
    msgs[b].uses # <<>> /\ (\A j \in 1..Len(msgs) : j > b => msgs[j].uses = <<>>) =>
      Unanswered(msgs) = Without(msgs[b].uses, {msgs[i].answers : i \in {j \in DOMAIN msgs : j > b}})
<1> SUFFICES ASSUME NEW msgs \in Seq(Message), NEW b \in 1..Len(msgs), msgs[b].uses # <<>>,
                    \A j \in 1..Len(msgs) : j > b => msgs[j].uses = <<>>
             PROVE  Unanswered(msgs) = Without(msgs[b].uses, {msgs[i].answers : i \in {j \in DOMAIN msgs : j > b}})
  OBVIOUS
<1> DEFINE batches == {i \in DOMAIN msgs : msgs[i].uses # <<>>}
           last    == CHOOSE i \in batches : \A j \in batches : j <= i
<1>1. DOMAIN msgs = 1..Len(msgs) /\ Len(msgs) \in Nat
  OBVIOUS
<1>2. b \in batches /\ \A j \in batches : j <= b
  BY <1>1
<1>3. last \in batches /\ \A j \in batches : j <= last
  BY <1>2
<1>4. batches \in SUBSET Nat /\ batches # {}
  BY <1>1, <1>2
<1>5. Unanswered(msgs) = Without(msgs[last].uses, {msgs[i].answers : i \in {j \in DOMAIN msgs : j > last}})
  BY <1>4 DEF Unanswered
<1> HIDE DEF last, batches
<1>6. last <= b /\ b <= last /\ last \in Nat /\ b \in Nat
  BY <1>2, <1>3, <1>4
<1>7. last = b
  BY <1>6
<1>8. QED  BY <1>5, <1>7

\* The calls of a batch that have no result yet are what its repair adds.
LEMMA PendingUnanswered ==
  \A msgs \in Seq(Message), a, k \in Nat : \A calls :
    Sound(msgs) /\ Pending(msgs, calls, a, k) /\ k < Len(msgs[a].uses) =>
      /\ Len(Unanswered(msgs)) = Len(msgs[a].uses) - k
      /\ \A i \in 1..Len(Unanswered(msgs)) : Unanswered(msgs)[i] = msgs[a].uses[k + i]
<1> SUFFICES ASSUME NEW msgs \in Seq(Message), NEW a \in Nat, NEW k \in Nat, NEW calls,
                    Sound(msgs), Pending(msgs, calls, a, k), k < Len(msgs[a].uses)
             PROVE  /\ Len(Unanswered(msgs)) = Len(msgs[a].uses) - k
                    /\ \A i \in 1..Len(Unanswered(msgs)) : Unanswered(msgs)[i] = msgs[a].uses[k + i]
  OBVIOUS
<1> DEFINE uses == msgs[a].uses
           n == Len(uses)
           later == {msgs[i].answers : i \in {j \in DOMAIN msgs : j > a}}
<1>1. /\ a \in 1..Len(msgs) /\ Len(msgs) = a + k
      /\ \A j \in 1..Len(msgs) : j > a => msgs[j].role = "user"
      /\ \A i \in 1..k : a + i \in 1..Len(msgs) /\ msgs[a + i].answers = uses[i]
  BY DEF Pending, LastAt, AnsweredAt
<1>2. uses \in Seq(CallIds) /\ n \in Nat /\ uses # <<>>
  BY <1>1, MessageParts
<1>3. \A j \in 1..Len(msgs) : j > a => msgs[j].uses = <<>>
  BY <1>1 DEF Sound, Kinds
<1>4. Unanswered(msgs) = Without(uses, later)
  BY <1>1, <1>2, <1>3, UnansweredOfLast
<1>5. NoTwice(uses)
  BY <1>1 DEF Sound, Distinct
<1>6. \A i \in 1..n : uses[i] \in later <=> i <= k
  <2> TAKE i \in 1..n
  <2>1. ASSUME i <= k PROVE uses[i] \in later
    <3> DEFINE p == a + i
    <3>1. p \in DOMAIN msgs /\ p > a /\ msgs[p].answers = uses[i]
      BY <1>1, <2>1
    <3> HIDE DEF p
    <3>2. QED  BY <3>1
  <2>2. ASSUME uses[i] \in later PROVE i <= k
    <3>1. PICK p \in DOMAIN msgs : p > a /\ msgs[p].answers = uses[i]
      BY <2>2
    <3> DEFINE t == p - a
    <3>2. t \in 1..k /\ p = a + t
      BY <1>1, <3>1
    <3>3. msgs[p].answers = uses[t] /\ t \in 1..n
      BY <1>1, <1>2, <3>2
    <3> HIDE DEF t, uses
    <3>4. t = i
      BY <1>5, <3>1, <3>3 DEF NoTwice, n
    <3>5. QED  BY <3>2, <3>4
  <2>3. QED  BY <2>1, <2>2
<1> HIDE DEF uses, n, later
<1>7. k <= n /\ n = Len(uses)
  BY <1>2 DEF n, uses
<1>8. Len(Without(uses, later)) = n - k /\ \A i \in 1..n - k : Without(uses, later)[i] = uses[k + i]
  BY <1>2, <1>6, <1>7, WithoutFirst
<1>9. QED  BY <1>4, <1>8 DEF uses, n

\* A conversation that lacks no result needs no repair.
LEMMA SettledUnanswered ==
  \A msgs \in Seq(Message) : Sound(msgs) /\ Settled(msgs, {}) => Unanswered(msgs) = <<>>
<1> SUFFICES ASSUME NEW msgs \in Seq(Message), Sound(msgs), Settled(msgs, {})
             PROVE  Unanswered(msgs) = <<>>
  OBVIOUS
<1>1. ASSUME NEW c, Open(msgs, c) PROVE FALSE
  <2>1. PICK b \in 1..Len(msgs) :
          /\ c \in ToSet(msgs[b].uses)
          /\ \A j \in 1..Len(msgs) : j > b => msgs[j].uses = <<>> /\ msgs[j].answers # c
    BY <1>1 DEF Open
  <2>2. msgs[b].uses \in Seq(CallIds)
    BY MessageParts
  <2>3. PICK i \in 1..Len(msgs[b].uses) : msgs[b].uses[i] = c
    BY <2>1, <2>2 DEF ToSet
  <2>4. Complete(msgs, b)
    BY DEF Settled, Excused
  <2>5. b + i <= Len(msgs) /\ msgs[b + i].answers = c
    BY <2>3, <2>4 DEF Complete, AnsweredAt
  <2>6. b + i \in 1..Len(msgs) /\ b + i > b
    BY <2>2, <2>3, <2>5
  <2>7. QED  BY <2>1, <2>5, <2>6
<1>2. Unanswered(msgs) \in Seq(CallIds) /\ \A c : c \notin ToSet(Unanswered(msgs))
  BY <1>1, UnansweredIsOpen
<1> DEFINE missing == Unanswered(msgs)
<1>3. missing \in Seq(CallIds) /\ \A c : c \notin ToSet(missing)
  BY <1>2
<1> HIDE DEF missing
<1>4. missing # <<>> => missing[1] \in ToSet(missing)
  BY <1>3 DEF ToSet
<1>5. QED  BY <1>3, <1>4 DEF missing

\* A batch left half answered is one of those that are open.
LEMMA PendingOpen ==
  \A msgs \in Seq(Message), a, k \in Nat : \A calls, more :
    Sound(msgs) /\ Pending(msgs, calls, a, k) /\ calls \subseteq more /\ ToSet(Unanswered(msgs)) \subseteq more =>
      Settled(msgs, more)
<1> SUFFICES ASSUME NEW msgs \in Seq(Message), NEW a \in Nat, NEW k \in Nat, NEW calls, NEW more,
                    Sound(msgs), Pending(msgs, calls, a, k), calls \subseteq more, ToSet(Unanswered(msgs)) \subseteq more,
                    NEW b \in 1..Len(msgs)
             PROVE  Excused(msgs, more, b)
  BY DEF Settled
<1>1. CASE b # a
  <2>1. Excused(msgs, calls, b)
    BY <1>1 DEF Pending
  <2>2. QED  BY <2>1 DEF Excused
<1>2. CASE b = a /\ k = Len(msgs[a].uses)
  <2>1. Complete(msgs, a)
    BY <1>2 DEF Pending, Complete
  <2>2. QED  BY <1>2, <2>1 DEF Excused
<1>3. CASE b = a /\ k # Len(msgs[a].uses)
  <2> DEFINE missing == Unanswered(msgs)
             uses == msgs[a].uses
  <2>1. k < Len(uses) /\ uses \in Seq(CallIds) /\ Len(uses) \in Nat
    <3>1. k <= Len(uses)
      BY DEF Pending
    <3>2. uses \in Seq(CallIds) /\ Len(uses) \in Nat
      BY <1>3, MessageParts
    <3>3. QED  BY <1>3, <3>1, <3>2
  <2>2. Len(missing) = Len(uses) - k /\ \A i \in 1..Len(missing) : missing[i] = uses[k + i]
    BY <2>1, PendingUnanswered
  <2>3. missing \in Seq(CallIds)
    BY UnansweredIsOpen
  <2> HIDE DEF missing, uses
  <2>4. 1 \in 1..Len(missing) /\ k + 1 \in 1..Len(uses)
    BY <2>1, <2>2
  <2>5. missing[1] = uses[k + 1] /\ missing[1] \in ToSet(missing) /\ uses[k + 1] \in ToSet(uses)
    <3>1. missing[1] = uses[k + 1]
      BY <2>2, <2>4
    <3>2. DOMAIN missing = 1..Len(missing) /\ DOMAIN uses = 1..Len(uses)
      BY <2>1, <2>3
    <3>3. QED  BY <2>4, <3>1, <3>2 DEF ToSet
  <2>6. QED  BY <1>3, <2>5 DEF Excused, missing, uses
<1>4. QED  BY <1>1, <1>2, <1>3

-----------------------------------------------------------------------------
(* The memory stays as providers want it *)

\* The calls that wait are those of the last batch without a result.
Answering(old) ==
  \E a, k \in Nat : /\ Pending(memory, old, a, k)
                    /\ k + Len(todo) = Len(memory[a].uses)
                    /\ \A i \in 1..Len(todo) : todo[i].id = memory[a].uses[k + i]

HalfAnswered(old) == \E a, k \in Nat : Pending(memory, old, a, k)

MemoryInv(old) ==
  /\ Sound(memory) /\ Begins(memory)
  /\ pc \in {"turn", "request", "recover", "batch", "tool"} => memory # <<>>
  /\ pc \notin {"batch", "tool", "idle"} => todo = <<>>
  /\ pc \in {"batch", "tool"} => Answering(old)
  /\ pc \notin {"batch", "tool"} => Settled(memory, old) \/ (~Orderly /\ HalfAnswered(old))

\* Nothing is added.
LEMMA AddNone ==
  \A msgs \in Seq(Message), max \in LimitType : AddAll(msgs, <<>>, max) = msgs
<1> SUFFICES ASSUME NEW msgs \in Seq(Message), NEW max \in LimitType
             PROVE  AddAll(msgs, <<>>, max) = msgs
  OBVIOUS
<1> DEFINE none == <<>>
<1>1. none \in Seq(Message) /\ Len(none) = 0
  OBVIOUS
<1> HIDE DEF none
<1>2. \E add : add[0] = msgs /\ AddAll(msgs, none, max) = add[Len(none)]
  <2>1. \E add \in [0..Len(none) -> Seq(Message)] :
          /\ add[0] = msgs
          /\ \A i \in 1..Len(none) : add[i] = Add(add[i - 1], none[i], max)
          /\ AddAll(msgs, none, max) = add[Len(none)]
    BY <1>1, AddAllSteps
  <2>2. QED  BY <2>1
<1>3. QED  BY <1>1, <1>2 DEF none

\* A step to a state where no batch is in the making.
LEMMA MemorySettles ==
  ASSUME NEW old, Sound(memory'), Begins(memory'), Settled(memory', old),
         pc' \in {"turn", "request", "recover"} => memory' # <<>>,
         pc' \notin {"batch", "tool"}, todo' = <<>> \/ pc' = "idle"
  PROVE  MemoryInv(old)'
BY DEF MemoryInv

\* Outside a batch a run's memory lacks nothing.
LEMMA InvSettled ==
  ASSUME NEW old, MemoryInv(old), pc \notin {"batch", "tool", "idle"}
  PROVE  Sound(memory) /\ Begins(memory) /\ Settled(memory, old) /\ todo = <<>>
BY DEF MemoryInv, Orderly

\* A cancelled run leaves no batch without its results.
LEMMA CancelledSound ==
  ASSUME AgentType, HeardInv, TurnFits, NEW old, MemoryInv(old), Cancelled, pc \in {"turn", "request", "batch"}
  PROVE  MemoryInv(old)'
<1> DEFINE ids == IdsOf(todo)
<1>1. limit \in LimitType /\ memory \in Seq(Message) /\ todo \in Seq(Call) /\ Sound(memory) /\ Begins(memory)
  BY DEF AgentType, MemoryInv
<1>2. /\ ids \in Seq(CallIds) /\ Len(ids) = Len(todo) /\ \A i \in 1..Len(ids) : ids[i] = todo[i].id
      /\ Len(todo) \in Nat
  BY <1>1, IdsOfFacts DEF IdsOf
<1>3. [i \in DOMAIN todo |-> ToolResult(todo[i].id)] = Results(ids)
  BY DEF Results, IdsOf
<1>4. memory' = AddResults(memory, ids, limit)
  BY <1>3 DEF Cancelled, AddResults
<1>5. pc' = "idle" /\ todo' = <<>>
  BY DEF Cancelled, Leave
<1> HIDE DEF ids
<1>6. Begins(memory')
  <2>1. Results(ids) \in Seq(Message) /\ \A i \in 1..Len(Results(ids)) : Results(ids)[i].role = "user"
    BY <1>2, ResultsParts
  <2>2. QED  BY <1>1, <1>4, <2>1, AddAllBegins DEF AddResults
<1>7. CASE pc = "batch"
  <2>1. PICK a, k \in Nat : /\ Pending(memory, old, a, k)
                            /\ k + Len(todo) = Len(memory[a].uses)
                            /\ \A i \in 1..Len(todo) : todo[i].id = memory[a].uses[k + i]
    BY <1>7 DEF MemoryInv, Answering
  <2>2. Room(memory, Len(ids), limit)
    BY <1>2, <1>7, TurnFitsFacts DEF HeardInv
  <2> DEFINE uses == memory[a].uses
             n == k + Len(ids)
  <2>3. NextResults(Results(ids), uses, k)
    <3>1. k + Len(todo) = Len(uses) /\ \A i \in 1..Len(todo) : todo[i].id = uses[k + i]
      BY <2>1
    <3> HIDE DEF uses
    <3>2. Len(Results(ids)) = Len(todo) /\ \A i \in 1..Len(todo) : /\ Results(ids)[i].role = "user"
                                                                  /\ Results(ids)[i].uses = <<>>
                                                                  /\ Results(ids)[i].answers = ids[i]
      BY <1>2, ResultsParts
    <3>3. k + Len(todo) <= Len(uses)
      BY <1>2, <3>1
    <3>4. QED  BY <1>2, <3>1, <3>2, <3>3 DEF NextResults
  <2>4. Sound(memory') /\ \E c \in Nat : Pending(memory', old, c, n) /\ memory'[c] = memory[a]
    BY <1>1, <1>2, <1>4, <2>1, <2>2, <2>3, AddResultsSound
  <2>5. PICK c \in Nat : Pending(memory', old, c, n) /\ memory'[c] = memory[a]
    BY <2>4
  <2>6. n \in Nat /\ n = Len(memory'[c].uses)
    BY <1>2, <2>1, <2>5
  <2> HIDE DEF n
  <2>7. Settled(memory', old)
    BY <2>5, <2>6, PendingDone
  <2>8. QED  BY <1>5, <1>6, <2>4, <2>7, MemorySettles
<1>8. CASE pc \in {"turn", "request"}
  <2>1. todo = <<>> /\ Settled(memory, old)
    BY <1>8, InvSettled
  <2>2. memory' = memory
    <3>1. [i \in DOMAIN todo |-> ToolResult(todo[i].id)] = <<>>
      BY <2>1
    <3>2. memory' = AddAll(memory, <<>>, limit)
      BY <3>1 DEF Cancelled
    <3>3. QED  BY <1>1, <3>2, AddNone
  <2>3. QED  BY <1>1, <1>5, <1>6, <2>1, <2>2, MemorySettles
<1>9. QED  BY <1>7, <1>8

\* A compaction drops whole turns.
LEMMA CompactionSound ==
  ASSUME AgentType, HeardInv, TurnFits, NEW old, Sound(memory), Settled(memory, old), NEW start \in Compactions(memory, limit)
  PROVE  start \in Seq(Message) /\ Sound(start) /\ Settled(start, old) /\ Begins(start) /\ start # <<>>
<1>1. limit \in LimitType /\ memory \in Seq(Message) /\ Fits(memory, limit)
  BY DEF AgentType
<1>2. limit # NoLimit => limit > 0
  BY TurnFitsFacts DEF HeardInv
<1>3. start \in Seq(Message)
  BY <1>1, CompactionFacts
<1>4. PICK k \in 1..Len(memory) : k > 2 /\ Part(start, memory, k, 1) /\ IsTurnBoundary(memory[k])
  BY <1>1, <1>2, <1>3, CompactPart
<1>5. k \in Nat /\ k > 0 /\ 1 \in Nat
  BY <1>1
<1>6. Clean(memory, k)
  BY <1>1, <1>4, <1>5, CleanCut
<1>7. Sound(start) /\ Settled(start, old)
  BY <1>1, <1>3, <1>4, <1>5, <1>6, SoundPart, SettledPart
<1>8. Begins(start) /\ start # <<>>
  <2>1. Len(start) > 0 /\ start[1].role = "user"
    BY <1>1, <1>4 DEF Part
  <2>2. QED  BY <2>1 DEF Begins
<1>9. QED  BY <1>3, <1>7, <1>8

\* The repair answers what a run left open.
LEMMA RepairSound ==
  ASSUME AgentType, HeardInv, TurnFits, MemoryInv({}), pc = "idle", edition = "rust-ref"
  PROVE  Sound(Repair(memory, limit)) /\ Settled(Repair(memory, limit), {}) /\ Begins(Repair(memory, limit))
<1> DEFINE missing == Unanswered(memory)
           none == {}
<1>1. limit \in LimitType /\ memory \in Seq(Message) /\ Sound(memory) /\ Begins(memory)
  BY DEF AgentType, MemoryInv
<1>2. Repair(memory, limit) = AddResults(memory, missing, limit)
  BY DEF Repair, AddResults, Results
<1>3. missing \in Seq(CallIds)
  BY <1>1, UnansweredIsOpen
<1> HIDE DEF missing
<1>4. Begins(AddResults(memory, missing, limit))
  <2>1. Results(missing) \in Seq(Message) /\ \A i \in 1..Len(Results(missing)) : Results(missing)[i].role = "user"
    BY <1>3, ResultsParts
  <2>2. QED  BY <1>1, <2>1, AddAllBegins DEF AddResults
<1>5. CASE Settled(memory, none)
  <2>1. missing = <<>>
    BY <1>1, <1>5, SettledUnanswered DEF missing
  <2>2. Results(missing) = <<>>
    BY <2>1 DEF Results
  <2>3. AddResults(memory, missing, limit) = memory
    BY <1>1, <2>2, AddNone DEF AddResults
  <2>4. QED  BY <1>1, <1>2, <1>5, <2>3
<1>6. CASE ~Settled(memory, none)
  <2>1. PICK a, k \in Nat : Pending(memory, none, a, k)
    BY <1>6 DEF MemoryInv, HalfAnswered
  <2> DEFINE uses == memory[a].uses
             n == k + Len(missing)
  <2>2. k < Len(uses) /\ Len(uses) \in Nat
    <3>1. k # Len(uses)
      BY <1>6, <2>1, PendingDone
    <3>2. k <= Len(uses) /\ a \in 1..Len(memory)
      BY <2>1 DEF Pending, LastAt
    <3>3. Len(uses) \in Nat
      BY <1>1, <3>2, MessageParts
    <3>4. QED  BY <3>1, <3>2, <3>3
  <2>3. Len(missing) = Len(uses) - k /\ \A i \in 1..Len(missing) : missing[i] = uses[k + i]
    BY <1>1, <2>1, <2>2, PendingUnanswered DEF missing
  <2>4. NextResults(Results(missing), uses, k)
    <3> HIDE DEF uses
    <3>1. Len(Results(missing)) = Len(missing) /\ \A i \in 1..Len(missing) : /\ Results(missing)[i].role = "user"
                                                                           /\ Results(missing)[i].uses = <<>>
                                                                           /\ Results(missing)[i].answers = missing[i]
      BY <1>3, ResultsParts
    <3>2. k + Len(missing) <= Len(uses)
      BY <2>2, <2>3
    <3>3. QED  BY <2>3, <3>1, <3>2 DEF NextResults
  <2>5. Room(memory, Len(missing), limit)
    BY TurnFitsFacts DEF HeardInv, missing
  <2>6. /\ Sound(AddResults(memory, missing, limit))
        /\ \E c \in Nat : /\ Pending(AddResults(memory, missing, limit), none, c, n)
                          /\ AddResults(memory, missing, limit)[c] = memory[a]
    BY <1>1, <1>3, <2>1, <2>4, <2>5, AddResultsSound
  <2> DEFINE have == AddResults(memory, missing, limit)
  <2>7. PICK c \in Nat : Pending(have, none, c, n) /\ have[c] = memory[a]
    BY <2>6
  <2>8. n \in Nat /\ n = Len(have[c].uses)
    BY <2>2, <2>3, <2>7
  <2> HIDE DEF n, have
  <2>9. Settled(have, none)
    BY <2>7, <2>8, PendingDone
  <2>10. QED  BY <1>2, <1>4, <2>6, <2>9 DEF have
<1>7. QED  BY <1>5, <1>6

\* run_inner begins on such a memory.
LEMMA StartOnSound ==
  ASSUME NEW old, NEW start, Sound(start), Begins(start), Settled(start, old), StartOn(start)
  PROVE  MemoryInv(old)'
<1>1. memory' = start /\ pc' = "compact" /\ todo' = <<>>
  BY DEF StartOn
<1>2. QED  BY <1>1, MemorySettles

\* The task comes behind a memory, compacted or not.
LEMMA PrepareSound ==
  ASSUME AgentType, HeardInv, TurnFits, NEW old, MemoryInv(old), Prepare
  PROVE  MemoryInv(old)'
<1> DEFINE task == Human("task")
<1>1. limit \in LimitType /\ memory \in Seq(Message) /\ Fits(memory, limit) /\ pc = "compact"
  BY DEF AgentType, Prepare
<1>2. Sound(memory) /\ Begins(memory) /\ Settled(memory, old) /\ todo = <<>>
  BY <1>1, InvSettled
<1>3. PICK start \in {memory} \cup Compactions(memory, limit) : memory' = Add(start, task, limit)
  BY DEF Prepare
<1>4. Room(memory, 1, limit) /\ (limit # NoLimit => limit > 0)
  BY <1>1, TurnFitsFacts DEF HeardInv
<1>5. start \in Seq(Message) /\ Sound(start) /\ Settled(start, old) /\ Begins(start)
  <2>1. CASE start = memory
    BY <1>1, <1>2, <2>1
  <2>2. CASE start \in Compactions(memory, limit)
    BY <1>2, <2>2, CompactionSound
  <2>3. QED  BY <1>3, <2>1, <2>2
<1>6. Room(start, 1, limit)
  <2>1. CASE start = memory
    BY <1>4, <2>1
  <2>2. CASE start \in Compactions(memory, limit)
    <3>1. PICK k \in 1..Len(memory) : Part(start, memory, k, 1)
      BY <1>1, <1>4, <1>5, <2>2, CompactPart
    <3>2. k \in Nat /\ 1 \in Nat
      BY <1>1
    <3>3. QED  BY <1>1, <1>4, <1>5, <3>1, <3>2, PartRoom
  <2>3. QED  BY <1>3, <2>1, <2>2
<1>7. task \in Message /\ task.role = "user" /\ task.uses = <<>> /\ task.answers = NoCall
  BY DEF Human, Message, Texts
<1> HIDE DEF task
<1> DEFINE x == Append(start, task)
<1>8. x \in Seq(Message) /\ x # <<>>
  BY <1>5, <1>7
<1>9. Room(x, 0, limit)
  <2>1. 0 \in Nat /\ 0 + 1 = 1
    OBVIOUS
  <2>2. QED  BY <1>1, <1>5, <1>6, <1>7, <2>1, RoomAppend
<1>10. Sound(x) /\ Settled(x, old)
  <2>1. NoTwice(task.uses)
    BY <1>7 DEF NoTwice
  <2>2. QED  BY <1>5, <1>7, <2>1, SoundAppend
<1>11. Begins(memory')
  BY <1>1, <1>3, <1>5, <1>7, AddBegins
<1> HIDE DEF x
<1>12. memory' = Trim(x, limit) /\ memory' \in Seq(Message)
  <2>1. memory' = Trim(x, limit)
    BY <1>3 DEF Add, x
  <2>2. QED  BY <1>1, <1>8, <2>1, TrimFacts
<1>13. Keeps(memory', x, limit)
  BY <1>1, <1>8, <1>9, <1>12, TrimKeeps
<1>14. Sound(memory') /\ Settled(memory', old)
  BY <1>1, <1>8, <1>10, <1>12, <1>13, SoundKeeps
<1>15. memory' # <<>>
  BY <1>1, <1>4, <1>8, <1>12, <1>13, KeepsSome
<1>16. pc' = "turn" /\ todo' = <<>>
  BY <1>2 DEF Prepare
<1>17. QED  BY <1>11, <1>14, <1>15, <1>16, MemorySettles

\* What the user says comes behind the rest.
LEMMA HumansSound ==
  ASSUME AgentType, NEW old, NEW msgs \in Seq(Message), NEW texts \in Seq(Texts),
         Sound(msgs), Settled(msgs, old), Begins(msgs), msgs # <<>>, Room(msgs, Len(texts), limit)
  PROVE  /\ Sound(AddHumans(msgs, texts, limit)) /\ Settled(AddHumans(msgs, texts, limit), old)
         /\ Begins(AddHumans(msgs, texts, limit)) /\ AddHumans(msgs, texts, limit) # <<>>
<1> DEFINE new == HumanAll(texts)
           have == AddHumans(msgs, texts, limit)
           all == msgs \o new
<1>1. limit \in LimitType
  BY DEF AgentType
<1>2. Sound(have) /\ Settled(have, old)
  BY <1>1, AddHumansSound
<1>3. new \in Seq(Message) /\ Len(new) = Len(texts) /\ \A i \in 1..Len(new) : new[i].role = "user"
  BY HumanAllFacts DEF AllUser
<1>4. have = AddAll(msgs, new, limit) /\ have \in Seq(Message)
  BY <1>1, HumansOpenNothing DEF AddHumans
<1> HIDE DEF have, new
<1>5. Begins(have)
  BY <1>1, <1>3, <1>4, AddAllBegins
<1>6. Keeps(have, all, limit)
  BY <1>1, <1>3, <1>4, AddAllKeeps
<1>7. all \in Seq(Message) /\ all # <<>>
  BY <1>3
<1>8. limit # NoLimit => limit > 0
  BY DEF Room
<1> HIDE DEF all
<1>9. have # <<>>
  BY <1>1, <1>4, <1>6, <1>7, <1>8, KeepsSome
<1>10. QED  BY <1>2, <1>5, <1>9 DEF have

\* The top of the loop.
LEMMA BeginTurnSound ==
  ASSUME AgentType, HeardInv, TurnFits, NEW old, MemoryInv(old), BeginTurn
  PROVE  MemoryInv(old)'
<1>1. limit \in LimitType /\ memory \in Seq(Message) /\ pc = "turn" /\ steering \in Seq(Texts)
  BY DEF AgentType, BeginTurn
<1>2. Sound(memory) /\ Begins(memory) /\ Settled(memory, old) /\ todo = <<>> /\ memory # <<>>
  BY <1>1, InvSettled DEF MemoryInv
<1>3. CASE Cancelled
  BY <1>1, <1>3, CancelledSound
<1>4. CASE pc' = "idle" /\ memory' = memory
  BY <1>2, <1>4, MemorySettles
<1>5. CASE memory' = AddAll(memory, HumanAll(steering), limit) /\ pc' = "request" /\ todo' = todo
  <2>1. Room(memory, Len(steering), limit)
    BY TurnFitsFacts DEF HeardInv
  <2>2. memory' = AddHumans(memory, steering, limit)
    BY <1>5 DEF AddHumans
  <2>3. Sound(memory') /\ Settled(memory', old) /\ Begins(memory') /\ memory' # <<>>
    BY <1>1, <1>2, <2>1, <2>2, HumansSound
  <2>4. QED  BY <1>2, <1>5, <2>3, MemorySettles
<1>6. QED  BY <1>3, <1>4, <1>5 DEF BeginTurn, Leave

\* The answer, and the follow-ups behind it.
LEMMA AnswersSound ==
  ASSUME AgentType, HeardInv, TurnFits, NEW old, MemoryInv(old), Answers
  PROVE  MemoryInv(old)'
<1>1. limit \in LimitType /\ memory \in Seq(Message) /\ pc = "request" /\ followUps \in Seq(Texts)
  BY DEF AgentType, Answers
<1>2. Sound(memory) /\ Begins(memory) /\ Settled(memory, old) /\ todo = <<>> /\ memory # <<>>
  BY <1>1, InvSettled DEF MemoryInv
<1>3. CASE Cancelled
  BY <1>1, <1>3, CancelledSound
<1>4. CASE /\ memory' = AddAll(Add(memory, Answer, limit), HumanAll(followUps), limit)
           /\ pc' \in {"turn", "idle"} /\ todo' = todo
  <2> DEFINE x == Append(memory, Answer)
             answered == Add(memory, Answer, limit)
             n == Len(followUps)
  <2>1. Answer \in Message /\ Answer.role = "assistant" /\ Answer.uses = <<>> /\ Answer.answers = NoCall
    BY DEF Answer, Message, Texts
  <2>2. x \in Seq(Message) /\ n \in Nat /\ x # <<>>
    BY <1>1, <2>1
  <2>3. limit # NoLimit => 1 + n <= 2 * limit /\ limit > 0
    BY <1>1, TurnFitsFacts DEF HeardInv
  <2>4. answered = Trim(x, limit)
    BY DEF Add
  <2>5. Sound(x) /\ Settled(x, old)
    <3>1. NoTwice(Answer.uses)
      BY <2>1 DEF NoTwice
    <3>2. QED  BY <1>1, <1>2, <2>1, <3>1, SoundAppend
  <2>6. Begins(answered)
    BY <1>1, <1>2, <2>1, AddBegins
  <2> HIDE DEF n
  <2>7. Room(x, n, limit)
    BY <1>1, <2>1, <2>2, <2>3, RoomOfAnswer
  <2> HIDE DEF x, answered
  <2>8. Room(x, 0, limit)
    <3>1. 0 \in Nat /\ 0 <= n
      BY <2>2
    <3>2. QED  BY <1>1, <2>2, <2>7, <3>1, RoomLess
  <2>9. Keeps(answered, x, limit) /\ answered \in Seq(Message)
    BY <1>1, <2>2, <2>4, <2>8, TrimKeeps, TrimFacts
  <2>10. Room(answered, n, limit)
    BY <1>1, <2>2, <2>7, <2>9, KeepsRoom
  <2>11. Sound(answered) /\ Settled(answered, old)
    BY <1>1, <2>2, <2>5, <2>9, SoundKeeps
  <2>12. answered # <<>>
    BY <1>1, <2>2, <2>3, <2>9, KeepsSome
  <2>13. memory' = AddHumans(answered, followUps, limit)
    BY <1>4 DEF AddHumans, answered
  <2>14. Sound(memory') /\ Settled(memory', old) /\ Begins(memory') /\ memory' # <<>>
    BY <1>1, <2>6, <2>9, <2>10, <2>11, <2>12, <2>13, HumansSound DEF n
  <2>15. QED  BY <1>2, <1>4, <2>14, MemorySettles
<1>5. QED  BY <1>3, <1>4 DEF Answers, Leave

\* The ids of a batch differ.
LEMMA FreshDistinct ==
  ASSUME NEW n \in Nat, Unused(n) # {}
  PROVE  NoTwice(Fresh(n))
<1> DEFINE base == CHOOSE b \in Unused(n) : TRUE
<1>1. base \in Unused(n)
  OBVIOUS
<1>2. base \in Nat
  BY <1>1, ConversationAssumption DEF Unused
<1>3. Fresh(n) = [i \in 1..n |-> base + i - 1]
  BY DEF Fresh
<1> HIDE DEF base
<1>4. Len(Fresh(n)) = n /\ \A i \in 1..n : Fresh(n)[i] = base + i - 1
  BY <1>3, FreshFacts
<1>5. QED  BY <1>2, <1>4 DEF NoTwice

\* A batch comes behind a memory that lacks no result.
LEMMA WantsToolsSound ==
  ASSUME AgentType, HeardInv, TurnFits, NEW old, MemoryInv(old), NEW keys \in Batches, WantsTools(keys)
  PROVE  MemoryInv(old)'
<1> DEFINE n == Len(keys)
           ids == Fresh(n)
           use == ToolUses(ids)
<1>1. limit \in LimitType /\ memory \in Seq(Message) /\ pc = "request"
  BY DEF AgentType, WantsTools
<1>2. Sound(memory) /\ Begins(memory) /\ Settled(memory, old) /\ todo = <<>> /\ memory # <<>>
  BY <1>1, InvSettled DEF MemoryInv
<1>3. CASE Cancelled
  BY <1>1, <1>3, CancelledSound
<1>4. CASE /\ memory' = Add(memory, use, limit)
           /\ todo' = [i \in DOMAIN keys |-> [id |-> ids[i], key |-> keys[i]]]
           /\ pc' = "batch"
  <2>1. n \in Nat /\ DOMAIN keys = 1..n
    BY AgentAssumption
  <2>2. ids \in Seq(CallIds) /\ Len(ids) = n /\ NoTwice(ids)
    <3>1. Unused(n) # {}
      BY DEF WantsTools
    <3> HIDE DEF n
    <3>2. QED  BY <2>1, <3>1, FreshFacts, FreshDistinct
  <2> HIDE DEF n, ids
  <2>3. use \in Message /\ use.uses = ids /\ use.role = "assistant" /\ use.answers = NoCall
    BY <2>2 DEF ToolUses, Message, Texts
  <2>4. Len(todo') = n /\ \A i \in 1..n : todo'[i].id = ids[i]
    <3>1. todo' = [i \in 1..n |-> [id |-> ids[i], key |-> keys[i]]]
      BY <1>4, <2>1
    <3>2. QED  BY <2>1, <3>1
  <2> HIDE DEF use
  <2> DEFINE x == Append(memory, use)
             a == Len(memory) + 1
  <2>5. x \in Seq(Message) /\ x[a] = use /\ x # <<>> /\ a \in Nat
    BY <1>1, <2>3
  <2>6. Sound(x) /\ Pending(x, old, a, 0)
    BY <1>1, <1>2, <2>2, <2>3, SoundAppend
  <2>7. Begins(memory')
    BY <1>1, <1>2, <1>4, <2>3, AddBegins
  <2>8. limit # NoLimit => limit \in Nat /\ limit > 0
    BY TurnFitsFacts DEF HeardInv
  <2>9. Room(x, 0, limit)
    <3>1. limit # NoLimit => 1 + 0 <= 2 * limit
      BY <2>8
    <3>2. 0 \in Nat
      OBVIOUS
    <3>3. QED  BY <1>1, <2>3, <3>1, <3>2, RoomOfAnswer
  <2> HIDE DEF x, a
  <2>10. memory' = Trim(x, limit) /\ memory' \in Seq(Message)
    <3>1. memory' = Trim(x, limit)
      BY <1>4 DEF Add, x
    <3>2. QED  BY <1>1, <2>5, <3>1, TrimFacts
  <2>11. Keeps(memory', x, limit)
    BY <1>1, <2>5, <2>9, <2>10, TrimKeeps
  <2>12. Sound(memory') /\ \E c \in 1..Len(memory') : Pending(memory', old, c, 0) /\ memory'[c] = use
    <3>1. /\ Sound(memory')
          /\ \A some : \A b, t \in Nat : Pending(x, some, b, t) =>
               \E c \in 1..Len(memory') : Pending(memory', some, c, t) /\ memory'[c] = x[b]
      BY <1>1, <2>5, <2>6, <2>10, <2>11, SoundKeeps
    <3>2. QED  BY <2>5, <2>6, <3>1
  <2>13. memory' # <<>>
    BY <1>1, <2>5, <2>8, <2>10, <2>11, KeepsSome
  <2>14. Answering(old)'
    <3>1. PICK c \in 1..Len(memory') : Pending(memory', old, c, 0) /\ memory'[c] = use
      BY <2>12
    <3>2. c \in Nat /\ 0 \in Nat
      BY <2>10
    <3>3. 0 + Len(todo') = Len(memory'[c].uses) /\ \A i \in 1..Len(todo') : todo'[i].id = memory'[c].uses[0 + i]
      BY <2>1, <2>2, <2>3, <2>4, <3>1
    <3>4. QED  BY <3>1, <3>2, <3>3 DEF Answering
  <2>15. QED  BY <1>4, <2>7, <2>12, <2>13, <2>14 DEF MemoryInv
<1>5. QED  BY <1>3, <1>4 DEF WantsTools

\* The head of the batch gets its result.
LEMMA AnsweredSound ==
  ASSUME AgentType, HeardInv, TurnFits, NEW old, MemoryInv(old), todo # <<>>, Answered, pc \in {"batch", "tool"}
  PROVE  Sound(memory') /\ Begins(memory') /\ memory' # <<>> /\ Answering(old)'
<1> DEFINE id == Head(todo).id
           result == ToolResult(id)
           n == Len(todo)
<1>1. limit \in LimitType /\ memory \in Seq(Message) /\ todo \in Seq(Call)
  BY DEF AgentType
<1>2. Sound(memory) /\ Begins(memory) /\ memory # <<>> /\ Answering(old)
  BY DEF MemoryInv
<1>3. /\ Head(todo) \in Call /\ Head(todo) = todo[1] /\ todo' = Tail(todo) /\ n \in Nat /\ n > 0
      /\ Len(todo') = n - 1 /\ \A i \in 1..Len(todo') : todo'[i] = todo[i + 1]
  BY <1>1 DEF Answered
<1>4. id \in CallIds /\ id = todo[1].id
  BY <1>3 DEF Call
<1>5. memory' = Add(memory, result, limit)
  BY DEF Answered
<1> HIDE DEF id
<1>6. result \in Message /\ result.role = "user" /\ result.uses = <<>> /\ result.answers = id
  BY <1>4 DEF ToolResult, Message, Texts
<1> HIDE DEF result
<1>7. PICK a, k \in Nat : /\ Pending(memory, old, a, k)
                          /\ k + n = Len(memory[a].uses)
                          /\ \A i \in 1..n : todo[i].id = memory[a].uses[k + i]
  BY <1>2 DEF Answering
<1> DEFINE uses == memory[a].uses
<1>8. Room(memory, n, limit)
  BY TurnFitsFacts DEF HeardInv
<1>9. k < Len(uses) /\ result.answers = uses[k + 1]
  <2>1. 1 \in 1..n
    BY <1>3
  <2>2. QED  BY <1>3, <1>4, <1>6, <1>7, <2>1
<1> DEFINE x == Append(memory, result)
<1>10. x \in Seq(Message) /\ x # <<>>
  BY <1>1, <1>6
<1>11. Sound(x) /\ Pending(x, old, a, k + 1) /\ x[a] = memory[a]
  BY <1>1, <1>2, <1>6, <1>7, <1>9, ResultAppend
<1>12. Begins(memory')
  BY <1>1, <1>2, <1>5, <1>6, AddBegins
<1>13. Room(x, 0, limit)
  <2>1. Room(memory, 1, limit)
    <3>1. 1 \in Nat /\ 1 <= n
      BY <1>3
    <3> HIDE DEF n
    <3>2. QED  BY <1>1, <1>3, <1>8, <3>1, RoomLess
  <2>2. 0 \in Nat /\ 0 + 1 = 1
    OBVIOUS
  <2>3. QED  BY <1>1, <1>6, <2>1, <2>2, RoomAppend
<1> HIDE DEF x
<1>14. memory' = Trim(x, limit) /\ memory' \in Seq(Message)
  <2>1. memory' = Trim(x, limit)
    BY <1>5 DEF Add, x
  <2>2. QED  BY <1>1, <1>10, <2>1, TrimFacts
<1>15. Keeps(memory', x, limit)
  BY <1>1, <1>10, <1>13, <1>14, TrimKeeps
<1>16. memory' # <<>>
  <2>1. limit # NoLimit => limit > 0
    BY <1>13 DEF Room
  <2>2. QED  BY <1>1, <1>10, <1>14, <1>15, <2>1, KeepsSome
<1>17. Sound(memory') /\ \E c \in 1..Len(memory') : Pending(memory', old, c, k + 1) /\ memory'[c] = memory[a]
  <2>1. /\ Sound(memory')
        /\ \A some : \A b, t \in Nat : Pending(x, some, b, t) =>
             \E c \in 1..Len(memory') : Pending(memory', some, c, t) /\ memory'[c] = x[b]
    BY <1>1, <1>10, <1>11, <1>14, <1>15, SoundKeeps
  <2>2. k + 1 \in Nat
    OBVIOUS
  <2>3. QED  BY <1>11, <2>1, <2>2
<1>18. Answering(old)'
  <2>1. PICK c \in 1..Len(memory') : Pending(memory', old, c, k + 1) /\ memory'[c] = memory[a]
    BY <1>17
  <2>2. c \in Nat /\ k + 1 \in Nat
    BY <1>14
  <2>3. (k + 1) + Len(todo') = Len(memory'[c].uses)
    <3>1. Len(todo') = n - 1 /\ n \in Nat /\ k + n = Len(memory[a].uses)
      BY <1>3, <1>7
    <3>2. Len(memory'[c].uses) = Len(memory[a].uses)
      BY <2>1
    <3> HIDE DEF n
    <3>3. QED  BY <3>1, <3>2
  <2>4. ASSUME NEW i \in 1..Len(todo') PROVE todo'[i].id = memory'[c].uses[(k + 1) + i]
    <3>1. i + 1 \in 1..n /\ k + (i + 1) = (k + 1) + i
      BY <1>3
    <3>2. todo[i + 1].id = memory[a].uses[(k + 1) + i]
      BY <1>7, <3>1
    <3>3. QED  BY <1>3, <2>1, <3>2
  <2>5. QED  BY <2>1, <2>2, <2>3, <2>4 DEF Answering
<1>19. QED  BY <1>12, <1>16, <1>17, <1>18

\* The steps within a batch.
LEMMA BatchSound ==
  ASSUME AgentType, HeardInv, TurnFits, NEW old, MemoryInv(old), BatchDone \/ BatchCancelled \/ NextCall \/ ToolReturns
  PROVE  MemoryInv(old)'
<1>1. Sound(memory) /\ Begins(memory) /\ memory # <<>> /\ Answering(old) /\ pc \in {"batch", "tool"}
  BY DEF MemoryInv, BatchDone, BatchCancelled, NextCall, ToolReturns
<1>2. PICK a, k \in Nat : Pending(memory, old, a, k) /\ k + Len(todo) = Len(memory[a].uses)
  BY <1>1 DEF Answering
<1>3. CASE BatchDone
  <2>1. todo = <<>> /\ memory' = memory /\ pc' = "turn" /\ todo' = <<>>
    BY <1>3 DEF BatchDone
  <2>2. k = Len(memory[a].uses)
    <3>1. Len(todo) = 0
      BY <2>1
    <3>2. QED  BY <1>2, <3>1
  <2>3. Settled(memory, old)
    BY <1>2, <2>2, PendingDone
  <2>4. QED  BY <1>1, <2>1, <2>3, MemorySettles
<1>4. CASE BatchCancelled
  BY <1>4, CancelledSound DEF BatchCancelled
<1>5. CASE NextCall
  <2>1. CASE Answered /\ UNCHANGED <<pc, outcome, executed>>
    <3>1. todo # <<>> /\ pc = "batch"
      BY <1>5 DEF NextCall
    <3>2. Sound(memory') /\ Begins(memory') /\ memory' # <<>> /\ Answering(old)'
      BY <2>1, <3>1, AnsweredSound
    <3>3. QED  BY <2>1, <3>1, <3>2 DEF MemoryInv
  <2>2. CASE Leave("loop") /\ UNCHANGED <<memory, todo>>
    <3>1. pc' = "idle" /\ outcome' = "loop" /\ memory' = memory
      BY <2>2 DEF Leave
    <3>2. HalfAnswered(old)'
      BY <1>2, <3>1 DEF HalfAnswered
    <3>3. (~Orderly)'
      BY <3>1 DEF Orderly
    <3>4. QED  BY <1>1, <3>1, <3>2, <3>3 DEF MemoryInv
  <2>3. CASE pc' = "tool" /\ UNCHANGED <<memory, todo>>
    <3>1. Answering(old)'
      BY <1>1, <2>3 DEF Answering
    <3>2. QED  BY <1>1, <2>3, <3>1 DEF MemoryInv
  <2>4. QED  BY <1>5, <2>1, <2>2, <2>3 DEF NextCall
<1>6. CASE ToolReturns
  <2>1. pc = "tool" /\ Answered /\ pc' = "batch"
    BY <1>6 DEF ToolReturns
  <2>2. todo # <<>>
    BY <2>1 DEF AgentType
  <2>3. Sound(memory') /\ Begins(memory') /\ memory' # <<>> /\ Answering(old)'
    BY <2>1, <2>2, AnsweredSound
  <2>4. QED  BY <2>1, <2>3 DEF MemoryInv
<1>7. QED  BY <1>3, <1>4, <1>5, <1>6

\* The host's steps leave the memory alone; a dropped run may leave a batch half answered.
LEMMA HostSound ==
  ASSUME AgentType, NEW old, MemoryInv(old), Steer \/ FollowUp \/ Cancel \/ DropRun
  PROVE  MemoryInv(old)'
<1>1. CASE Steer \/ FollowUp \/ Cancel
  <2>1. UNCHANGED <<memory, pc, todo, outcome>>
    BY <1>1 DEF Steer, FollowUp, Cancel, loopVars
  <2>2. Answering(old)' <=> Answering(old)
    BY <2>1 DEF Answering
  <2>3. (HalfAnswered(old)' <=> HalfAnswered(old)) /\ (Orderly' <=> Orderly)
    BY <2>1 DEF HalfAnswered, Orderly
  <2>4. QED  BY <2>1, <2>2, <2>3 DEF MemoryInv
<1>2. CASE DropRun
  <2>1. memory' = memory /\ pc' = "idle" /\ outcome' = "dropped" /\ todo' = <<>> /\ pc # "idle"
    BY <1>2 DEF DropRun, Leave
  <2>2. Sound(memory) /\ Begins(memory)
    BY DEF MemoryInv
  <2>3. CASE pc \in {"batch", "tool"}
    <3>1. HalfAnswered(old)
      BY <2>3 DEF MemoryInv, Answering, HalfAnswered
    <3>2. HalfAnswered(old)' /\ (~Orderly)'
      BY <2>1, <3>1 DEF HalfAnswered, Orderly
    <3>3. QED  BY <2>1, <2>2, <3>2 DEF MemoryInv
  <2>4. CASE pc \notin {"batch", "tool"}
    <3>1. Settled(memory, old)
      BY <2>1, <2>4, InvSettled
    <3>2. QED  BY <2>1, <2>2, <3>1, MemorySettles
  <2>5. QED  BY <2>3, <2>4
<1>3. QED  BY <1>1, <1>2

\* Every step but the start of a run.
LEMMA LoopStepSound ==
  ASSUME AgentType, HeardInv, TurnFits, NEW old, MemoryInv(old), LoopStep
  PROVE  MemoryInv(old)'
<1>1. CASE Prepare       BY <1>1, PrepareSound
<1>2. CASE BeginTurn     BY <1>2, BeginTurnSound
<1>3. CASE Answers       BY <1>3, AnswersSound
<1>4. CASE \E overflow \in BOOLEAN : RequestFails(overflow)
  <2>1. pc = "request" /\ memory' = memory /\ todo' = todo /\ pc' \in {"recover", "idle"}
    BY <1>4 DEF RequestFails, Leave
  <2>2. Sound(memory) /\ Begins(memory) /\ Settled(memory, old) /\ todo = <<>> /\ memory # <<>>
    BY <2>1, InvSettled DEF MemoryInv
  <2>3. QED  BY <2>1, <2>2, MemorySettles
<1>5. CASE Recover
  <2>1. pc = "recover" /\ todo' = todo
    BY <1>5 DEF Recover
  <2>2. Sound(memory) /\ Begins(memory) /\ Settled(memory, old) /\ todo = <<>> /\ memory # <<>>
    BY <2>1, InvSettled DEF MemoryInv
  <2>3. CASE memory' \in Compactions(memory, limit) /\ pc' = "request"
    <3>1. Sound(memory') /\ Settled(memory', old) /\ Begins(memory') /\ memory' # <<>>
      BY <2>2, <2>3, CompactionSound
    <3>2. QED  BY <2>1, <2>2, <2>3, <3>1, MemorySettles
  <2>4. CASE pc' = "idle" /\ memory' = memory
    BY <2>1, <2>2, <2>4, MemorySettles
  <2>5. QED  BY <1>5, <2>3, <2>4 DEF Recover, Leave
<1>6. CASE \E keys \in Batches : WantsTools(keys)
  BY <1>6, WantsToolsSound
<1>7. CASE BatchDone \/ BatchCancelled \/ NextCall \/ ToolReturns
  BY <1>7, BatchSound
<1>8. CASE Steer \/ FollowUp \/ Cancel \/ DropRun
  BY <1>8, HostSound
<1>9. QED
  BY <1>1, <1>2, <1>3, <1>4, <1>5, <1>6, <1>7, <1>8 DEF LoopStep, Run

\* A batch is excused by a call that is still in the conversation.
LEMMA ExcusedUsed ==
  \A msgs \in Seq(Message) : \A calls, used :
    used = UNION {ToSet(msgs[i].uses) \cup {msgs[i].answers} : i \in DOMAIN msgs} =>
      \A b \in 1..Len(msgs) : Excused(msgs, calls, b) => Excused(msgs, calls \cap used, b)
<1> SUFFICES ASSUME NEW msgs \in Seq(Message), NEW calls, NEW used,
                    used = UNION {ToSet(msgs[i].uses) \cup {msgs[i].answers} : i \in DOMAIN msgs},
                    NEW b \in 1..Len(msgs), NEW c \in ToSet(msgs[b].uses)
             PROVE  c \in used
  BY DEF Excused
<1>1. b \in DOMAIN msgs
  OBVIOUS
<1>2. c \in ToSet(msgs[b].uses) \cup {msgs[b].answers}
  OBVIOUS
<1>3. QED  BY ONLY <1>1, <1>2, used = UNION {ToSet(msgs[i].uses) \cup {msgs[i].answers} : i \in DOMAIN msgs}

\* So what a trim or a compaction drops excuses nothing.
LEMMA InvUsed ==
  ASSUME memory' \in Seq(Message), NEW old, MemoryInv(old)', open' = old \cap Used'
  PROVE  MemoryInv(open)'
<1> DEFINE used == Used'
           new == old \cap used
<1>1. \A b \in 1..Len(memory') : Excused(memory', old, b) => Excused(memory', new, b)
  <2>1. used = UNION {ToSet(memory'[i].uses) \cup {memory'[i].answers} : i \in DOMAIN memory'}
    BY DEF Used
  <2> HIDE DEF used
  <2>2. QED  BY <2>1, ExcusedUsed
<1> HIDE DEF used
<1>2. Settled(memory', old) => Settled(memory', new)
  BY <1>1 DEF Settled
<1>3. \A a, k \in Nat : Pending(memory', old, a, k) => Pending(memory', new, a, k)
  BY <1>1 DEF Pending
<1>4. open' = new
  BY DEF used
<1> HIDE DEF new
<1>5. Answering(old)' => Answering(open)'
  BY <1>3, <1>4 DEF Answering
<1>6. HalfAnswered(old)' => HalfAnswered(open)'
  BY <1>3, <1>4 DEF HalfAnswered
<1>7. QED  BY <1>2, <1>4, <1>5, <1>6 DEF MemoryInv

\* A step of either edition.
LEMMA TAgentSound ==
  ASSUME TAgentInv, HeardInv, TurnFits, MemoryInv(open), [TNext]_tvars, TAgentInv'
  PROVE  MemoryInv(open)'
<1>1. AgentType /\ edition \in {"rust-ref", "a2r"} /\ (edition = "rust-ref" => open = {}) /\ memory' \in Seq(Message)
      /\ memory \in Seq(Message)
  BY DEF TAgentInv, AgentType
<1>2. PICK old : old = open
  OBVIOUS
<1>3. MemoryInv(old)
  BY <1>2
<1>4. CASE edition = "rust-ref" /\ LoopStep /\ UNCHANGED <<edition, open>>
  <2>1. MemoryInv(old)'
    BY <1>1, <1>3, <1>4, LoopStepSound
  <2>2. open' = old
    BY <1>2, <1>4
  <2>3. QED  BY <2>1, <2>2 DEF MemoryInv, Answering, HalfAnswered
<1>5. CASE edition = "rust-ref" /\ StartOn(Repair(memory, limit)) /\ UNCHANGED <<edition, open>>
  <2>1. old = {} /\ open' = {} /\ pc = "idle"
    BY <1>1, <1>2, <1>5 DEF StartOn
  <2>2. Sound(Repair(memory, limit)) /\ Settled(Repair(memory, limit), {}) /\ Begins(Repair(memory, limit))
    BY <1>1, <1>3, <1>5, <2>1, RepairSound
  <2>3. MemoryInv(old)'
    BY <1>5, <2>1, <2>2, StartOnSound
  <2>4. QED  BY <2>1, <2>3 DEF MemoryInv, Answering, HalfAnswered
<1>6. CASE edition = "a2r" /\ LoopStep /\ open' = open \cap Used' /\ UNCHANGED edition
  <2>1. MemoryInv(old)'
    BY <1>1, <1>3, <1>6, LoopStepSound
  <2>2. open' = old \cap Used'
    BY <1>2, <1>6
  <2>3. QED  BY <1>1, <2>1, <2>2, InvUsed
<1>7. CASE edition = "a2r" /\ StartOn(memory) /\ open' = open \cup ToSet(Unanswered(memory)) /\ UNCHANGED edition
  <2>1. PICK new : new = open \cup ToSet(Unanswered(memory))
    OBVIOUS
  <2>2. pc = "idle" /\ Sound(memory) /\ Begins(memory) /\ (Settled(memory, old) \/ HalfAnswered(old))
    BY <1>3, <1>7 DEF MemoryInv, StartOn
  <2>3. old \subseteq new /\ ToSet(Unanswered(memory)) \subseteq new
    BY <1>2, <2>1
  <2>4. Settled(memory, new)
    <3>1. CASE Settled(memory, old)
      BY <2>3, <3>1 DEF Settled, Excused
    <3>2. CASE HalfAnswered(old)
      BY <1>1, <2>2, <2>3, <3>2, PendingOpen DEF HalfAnswered
    <3>3. QED  BY <2>2, <3>1, <3>2
  <2>5. MemoryInv(new)'
    BY <1>7, <2>2, <2>4, StartOnSound
  <2>6. open' = new
    BY <1>7, <2>1
  <2>7. QED  BY <2>5, <2>6 DEF MemoryInv, Answering, HalfAnswered
<1>8. CASE UNCHANGED tvars
  BY <1>8 DEF MemoryInv, Answering, HalfAnswered, Orderly, tvars, vars, loopVars
<1>9. QED  BY <1>4, <1>5, <1>6, <1>7, <1>8, EditionStep

\* An empty memory.
LEMMA MemoryInit ==
  ASSUME TInit PROVE MemoryInv(open)
<1>1. memory = <<>> /\ pc = "idle" /\ todo = <<>>
  BY DEF TInit, Init
<1>2. Len(memory) = 0
  BY <1>1
<1>3. Sound(memory) /\ Settled(memory, open)
  BY <1>2 DEF Sound, Kinds, Distinct, Placed, Settled
<1>4. QED  BY <1>1, <1>3 DEF MemoryInv, Begins

\* As long as a limited memory holds the last turn, whatever is trimmed away,
\* compacted, cancelled or dropped: each result stands behind its batch at its
\* place, each batch has its results but for the one that is being answered and
\* those with a call in open, and the user is first.
THEOREM MemoryStaysSound == TSpec /\ []TurnFits => []MemoryInv(open)
<1> DEFINE Inv == MemoryInv(open)
<1>1. TInit => Inv
  BY MemoryInit
<1>2. TAgentInv /\ TAgentInv' /\ HeardInv /\ TurnFits /\ Inv /\ [TNext]_tvars => Inv'
  BY TAgentSound
<1> HIDE DEF Inv
<1>3. TSpec /\ []TurnFits => []Inv
  BY <1>1, <1>2, HeardInvariant, AgentInvariant, PTL DEF TSpec
<1>4. QED  BY <1>3 DEF Inv

-----------------------------------------------------------------------------
(* The request bodies *)

Ids    == CallIds \cup {NoCall}
BlockT == [type : {"text", "use", "result"}, of : Ids]
OpenAi == [role : {"user", "assistant", "tool"}, calls : Seq(Ids), answers : Ids]

\* The blocks of one type, as a table of what is collected.
LEMMA OfSteps ==
  \A blocks \in Seq(BlockT) : \A type :
    \E of \in [0..Len(blocks) -> Seq(Ids)] :
      /\ of[0] = <<>>
      /\ \A i \in 1..Len(blocks) : of[i] = IF blocks[i].type = type THEN Append(of[i - 1], blocks[i].of) ELSE of[i - 1]
      /\ Of(blocks, type) = of[Len(blocks)]
<1> SUFFICES ASSUME NEW blocks \in Seq(BlockT), NEW type
             PROVE  \E of \in [0..Len(blocks) -> Seq(Ids)] :
                      /\ of[0] = <<>>
                      /\ \A i \in 1..Len(blocks) : of[i] = IF blocks[i].type = type THEN Append(of[i - 1], blocks[i].of) ELSE of[i - 1]
                      /\ Of(blocks, type) = of[Len(blocks)]
  OBVIOUS
<1> DEFINE n == Len(blocks)
           T == Seq(Ids)
           none == <<>>
           F == [i \in 1..n |-> [r \in T |-> IF blocks[i].type = type THEN Append(r, blocks[i].of) ELSE r]]
           Is(g) == g = [i \in 0..n |->
                     IF i = 0 THEN <<>>
                     ELSE IF blocks[i].type = type THEN Append(g[i - 1], blocks[i].of) ELSE g[i - 1]]
           of == CHOOSE g : Is(g)
<1>1. n \in Nat /\ none \in T /\ \A i \in 1..n : blocks[i].of \in Ids
  <2>1. \A i \in 1..n : blocks[i] \in BlockT
    OBVIOUS
  <2>2. QED  BY <2>1 DEF BlockT
<1>2. F \in [1..n -> [T -> T]]
  BY <1>1
<1>3. PICK g \in [0..n -> T] : g[0] = none /\ \A i \in 1..n : g[i] = F[i][g[i - 1]]
  <2> HIDE DEF F, n, T, of, none
  <2>1. HasIteration(T, n, none, F)
    BY <1>1, <1>2, IterationExists
  <2>2. QED  BY <2>1 DEF HasIteration, Iterates
<1>4. \A i \in 1..n : g[i] = IF blocks[i].type = type THEN Append(g[i - 1], blocks[i].of) ELSE g[i - 1]
  <2> TAKE i \in 1..n
  <2>1. i - 1 \in 0..n
    BY <1>1
  <2>2. g[i - 1] \in T
    BY <2>1
  <2> HIDE DEF T
  <2>3. QED  BY <1>3, <2>2
<1>5. Is(g)
  <2> DEFINE h == [i \in 0..n |-> IF i = 0 THEN <<>>
                          ELSE IF blocks[i].type = type THEN Append(g[i - 1], blocks[i].of) ELSE g[i - 1]]
  <2>1. \A i \in 0..n : g[i] = h[i]
    <3> TAKE i \in 0..n
    <3> HIDE DEF n, of
    <3>1. CASE i = 0
      BY <1>3, <3>1
    <3>2. CASE i \in 1..n
      <4>1. i # 0
        BY <1>1, <3>2
      <4>2. h[i] = IF blocks[i].type = type THEN Append(g[i - 1], blocks[i].of) ELSE g[i - 1]
        BY <4>1
      <4>3. QED  BY <1>4, <3>2, <4>2
    <3>3. QED  BY <1>1, <3>1, <3>2
  <2>2. g = h
    BY <2>1
  <2>3. QED  BY <2>2
<1>6. Is(of)
  <2> HIDE DEF Is
  <2>1. QED  BY <1>5
<1>7. Of(blocks, type) = of[n]
  BY DEF Of
<1> HIDE DEF of
<1>8. /\ of[0] = none
      /\ \A i \in 1..n : of[i] = IF blocks[i].type = type THEN Append(of[i - 1], blocks[i].of) ELSE of[i - 1]
  <2>1. of[0] = none
    BY <1>1, <1>6
  <2>2. ASSUME NEW i \in 1..n
        PROVE  of[i] = IF blocks[i].type = type THEN Append(of[i - 1], blocks[i].of) ELSE of[i - 1]
    <3>1. i \in 0..n /\ i # 0
      OBVIOUS
    <3>2. QED  BY <1>6, <3>1
  <2>3. QED  BY <2>1, <2>2
<1>9. of \in [0..n -> T]
  <2> DEFINE S == {i \in Nat : i <= n => of[i] \in T}
  <2>1. 0 \in S
    BY <1>1, <1>8
  <2>2. ASSUME NEW i \in S PROVE i + 1 \in S
    <3> SUFFICES ASSUME i + 1 <= n PROVE of[i + 1] \in T
      BY <2>2
    <3>1. i + 1 \in 1..n /\ i + 1 - 1 = i /\ of[i] \in T
      BY <1>1, <2>2
    <3>2. of[i + 1] = IF blocks[i + 1].type = type THEN Append(of[i], blocks[i + 1].of) ELSE of[i]
      BY <1>8, <3>1
    <3>3. blocks[i + 1].of \in Ids
      BY <1>1, <3>1
    <3>4. Append(of[i], blocks[i + 1].of) \in T
      BY <3>1, <3>3
    <3> HIDE DEF T
    <3>5. QED  BY <3>1, <3>2, <3>4
  <2>3. S = Nat
    <3> HIDE DEF S
    <3>1. \A i \in S : i + 1 \in S
      BY <2>2
    <3>2. S \in SUBSET Nat
      BY DEF S
    <3>3. QED  BY <2>1, <3>1, <3>2, SetInduction
  <2>4. \A i \in 0..n : of[i] \in T
    <3> TAKE i \in 0..n
    <3>1. i \in S /\ i <= n
      <4> HIDE DEF S
      <4>1. QED  BY <1>1, <2>3
    <3>2. QED  BY <3>1
  <2>5. DOMAIN of = 0..n /\ of = [i \in DOMAIN of |-> of[i]]
    BY <1>6
  <2> HIDE DEF T, n
  <2>6. QED  BY <2>4, <2>5
<1>10. QED  BY <1>7, <1>8, <1>9

\* Blocks of one type only.
LEMMA OfOneType ==
  \A blocks \in Seq(BlockT) : \A type :
    /\ (\A i \in 1..Len(blocks) : blocks[i].type # type) => Of(blocks, type) = <<>>
    /\ (\A i \in 1..Len(blocks) : blocks[i].type = type) =>
         /\ Of(blocks, type) \in Seq(Ids) /\ Len(Of(blocks, type)) = Len(blocks)
         /\ \A i \in 1..Len(blocks) : Of(blocks, type)[i] = blocks[i].of
<1> TAKE blocks \in Seq(BlockT)
<1> TAKE type
<1> DEFINE n == Len(blocks)
<1>1. n \in Nat /\ \A i \in 1..n : blocks[i].of \in Ids
  <2>1. \A i \in 1..n : blocks[i] \in BlockT
    OBVIOUS
  <2>2. QED  BY <2>1 DEF BlockT
<1>2. PICK of \in [0..n -> Seq(Ids)] :
        /\ of[0] = <<>>
        /\ \A i \in 1..n : of[i] = IF blocks[i].type = type THEN Append(of[i - 1], blocks[i].of) ELSE of[i - 1]
        /\ Of(blocks, type) = of[n]
  BY OfSteps
<1> HIDE DEF n
<1>3. ASSUME \A i \in 1..n : blocks[i].type # type PROVE of[n] = <<>>
  <2> DEFINE S == {i \in Nat : i <= n => of[i] = <<>>}
  <2>1. 0 \in S
    BY <1>2
  <2>2. ASSUME NEW i \in S PROVE i + 1 \in S
    <3> SUFFICES ASSUME i + 1 <= n PROVE of[i + 1] = <<>>
      BY <2>2
    <3>1. i + 1 \in 1..n /\ i + 1 - 1 = i /\ of[i] = <<>>
      BY <1>1, <2>2
    <3>2. QED  BY <1>2, <1>3, <3>1
  <2>3. S = Nat
    <3> HIDE DEF S
    <3>1. \A i \in S : i + 1 \in S
      BY <2>2
    <3>2. S \in SUBSET Nat
      BY DEF S
    <3>3. QED  BY <2>1, <3>1, <3>2, SetInduction
  <2>4. n \in S /\ n <= n
    <3> HIDE DEF S
    <3>1. QED  BY <1>1, <2>3
  <2>5. QED  BY <2>4
<1>4. ASSUME \A i \in 1..n : blocks[i].type = type
      PROVE  Len(of[n]) = n /\ \A i \in 1..n : of[n][i] = blocks[i].of
  <2> DEFINE Good(i) == Len(of[i]) = i /\ \A j \in 1..i : of[i][j] = blocks[j].of
             S == {i \in Nat : i <= n => Good(i)}
  <2>1. 0 \in S
    BY <1>2
  <2>2. ASSUME NEW i \in S PROVE i + 1 \in S
    <3> SUFFICES ASSUME i + 1 <= n PROVE Good(i + 1)
      BY <2>2
    <3> DEFINE r == of[i]
               b == blocks[i + 1].of
    <3>1. i \in Nat /\ i \in 0..n /\ i + 1 \in 1..n /\ i + 1 - 1 = i /\ Good(i)
      BY <1>1, <2>2
    <3>2. of[i + 1] = Append(r, b)
      <4>1. of[i + 1] = IF blocks[i + 1].type = type THEN Append(of[i + 1 - 1], blocks[i + 1].of) ELSE of[i + 1 - 1]
        BY <1>2, <3>1
      <4>2. blocks[i + 1].type = type
        BY <1>4, <3>1
      <4>3. QED  BY <3>1, <4>1, <4>2
    <3>3. r \in Seq(Ids) /\ b \in Ids /\ Len(r) = i /\ \A j \in 1..i : r[j] = blocks[j].of
      BY <1>1, <1>2, <3>1
    <3> HIDE DEF r
    <3> DEFINE new == Append(r, b)
    <3>4. Len(new) = i + 1 /\ new[i + 1] = b /\ \A j \in 1..i : new[j] = r[j]
      BY <3>3
    <3> HIDE DEF new
    <3>5. ASSUME NEW j \in 1..i + 1 PROVE new[j] = blocks[j].of
      <4>1. j = i + 1 \/ j \in 1..i
        BY <3>1
      <4>2. QED  BY <3>3, <3>4, <4>1
    <3>6. of[i + 1] = new
      BY <3>2 DEF new
    <3>7. QED  BY <3>4, <3>5, <3>6
  <2>3. S = Nat
    <3> HIDE DEF S
    <3>1. \A i \in S : i + 1 \in S
      BY <2>2
    <3>2. S \in SUBSET Nat
      BY DEF S
    <3>3. QED  BY <2>1, <3>1, <3>2, SetInduction
  <2>4. n \in S /\ n <= n
    <3> HIDE DEF S
    <3>1. QED  BY <1>1, <2>3
  <2>5. QED  BY <2>4
<1>5. of[n] \in Seq(Ids)
  BY <1>1, <1>2
<1>6. QED  BY <1>2, <1>3, <1>4, <1>5 DEF n

\* Sequences of ids with the same members are the same.
LEMMA SameIds ==
  \A p, q \in Seq(Ids) : Len(p) = Len(q) /\ (\A i \in Nat : i \in 1..Len(p) => p[i] = q[i]) => p = q
OBVIOUS

\* A message does not make calls and bring a result.
Plain(m) == m.uses = <<>> \/ m.answers = NoCall

\* The blocks of a message, and the calls and results in them.
LEMMA BlocksFacts ==
  \A m \in Message : Plain(m) =>
    /\ Blocks(m) \in Seq(BlockT) /\ Len(Blocks(m)) > 0
    /\ Of(Blocks(m), "use") = m.uses
    /\ Of(Blocks(m), "result") = IF m.answers # NoCall THEN <<m.answers>> ELSE <<>>
    /\ (\A i \in 1..Len(Blocks(m)) : Blocks(m)[i].type = "result") <=> m.answers # NoCall
    /\ m.answers # NoCall => Len(Blocks(m)) = 1 /\ Blocks(m)[1].of = m.answers
<1> SUFFICES ASSUME NEW m \in Message, Plain(m)
             PROVE  /\ Blocks(m) \in Seq(BlockT) /\ Len(Blocks(m)) > 0
                    /\ Of(Blocks(m), "use") = m.uses
                    /\ Of(Blocks(m), "result") = IF m.answers # NoCall THEN <<m.answers>> ELSE <<>>
                    /\ (\A i \in 1..Len(Blocks(m)) : Blocks(m)[i].type = "result") <=> m.answers # NoCall
                    /\ m.answers # NoCall => Len(Blocks(m)) = 1 /\ Blocks(m)[1].of = m.answers
  OBVIOUS
<1> DEFINE blocks == Blocks(m)
           uses == m.uses
           answers == m.answers
<1>1. uses \in Seq(CallIds) /\ answers \in Ids
  BY DEF Message, Ids
<1>2. uses \in Seq(Ids) /\ \A i \in 1..Len(uses) : uses[i] \in Ids
  BY <1>1 DEF Ids
<1> HIDE DEF uses, answers
<1>3. CASE answers # NoCall
  <2> DEFINE b == Block("result", answers)
  <2>1. blocks = <<b>> /\ uses = <<>>
    BY <1>3 DEF Blocks, Plain, answers, uses
  <2>2. b \in BlockT /\ b.type = "result" /\ b.of = answers
    BY <1>1 DEF Block, BlockT
  <2> HIDE DEF b
  <2>3. blocks \in Seq(BlockT) /\ Len(blocks) = 1 /\ blocks[1] = b
    BY <2>1, <2>2
  <2>4. \A i \in 1..Len(blocks) : blocks[i].type = "result" /\ blocks[i].type # "use"
    BY <2>2, <2>3
  <2> HIDE DEF blocks
  <2>5. Of(blocks, "use") = <<>>
    BY <2>3, <2>4, OfOneType
  <2>6. Of(blocks, "result") = <<answers>>
    <3> DEFINE have == Of(blocks, "result")
               want == <<answers>>
    <3>1. have \in Seq(Ids) /\ Len(have) = 1 /\ \A i \in 1..Len(blocks) : have[i] = blocks[i].of
      BY <2>3, <2>4, OfOneType
    <3>2. have[1] = answers
      BY <2>2, <2>3, <3>1
    <3>3. want \in Seq(Ids) /\ Len(want) = 1 /\ want[1] = answers
      BY <1>1
    <3> HIDE DEF have, want
    <3>4. have = want
      BY <3>1, <3>2, <3>3, SameIds
    <3>5. QED  BY <3>4 DEF have, want
  <2>7. QED  BY <1>3, <2>1, <2>2, <2>3, <2>4, <2>5, <2>6 DEF blocks, answers, uses
<1>4. CASE answers = NoCall /\ uses # <<>>
  <2> DEFINE n == Len(uses)
  <2>1. blocks = [i \in DOMAIN uses |-> Block("use", uses[i])]
    BY <1>4 DEF Blocks, answers, uses
  <2>2. DOMAIN uses = 1..n /\ n \in Nat /\ n > 0
    BY <1>1, <1>4
  <2>3. \A i \in 1..n : /\ Block("use", uses[i]) \in BlockT
                        /\ Block("use", uses[i]).type = "use" /\ Block("use", uses[i]).of = uses[i]
    BY <1>2 DEF Block, BlockT
  <2> HIDE DEF n
  <2>4. blocks \in Seq(BlockT) /\ Len(blocks) = n /\ \A i \in 1..n : blocks[i] = Block("use", uses[i])
    BY <2>1, <2>2, <2>3
  <2>5. \A i \in 1..Len(blocks) : blocks[i].type = "use" /\ blocks[i].type # "result" /\ blocks[i].of = uses[i]
    BY <2>3, <2>4
  <2> HIDE DEF blocks
  <2>6. Of(blocks, "result") = <<>>
    BY <2>4, <2>5, OfOneType
  <2>7. Of(blocks, "use") = uses
    <3> DEFINE have == Of(blocks, "use")
    <3>1. have \in Seq(Ids) /\ Len(have) = Len(blocks) /\ \A i \in 1..Len(blocks) : have[i] = blocks[i].of
      BY <2>4, <2>5, OfOneType
    <3> HIDE DEF have
    <3>2. Len(have) = Len(uses) /\ \A i \in 1..Len(have) : have[i] = uses[i]
      BY <2>4, <2>5, <3>1 DEF n
    <3>3. have = uses
      BY <1>2, <3>1, <3>2, SameIds
    <3>4. QED  BY <3>3 DEF have
  <2>8. ~(\A i \in 1..Len(blocks) : blocks[i].type = "result")
    <3>1. 1 \in 1..Len(blocks)
      BY <2>2, <2>4
    <3>2. QED  BY <2>5, <3>1
  <2>9. Len(blocks) > 0
    BY <2>2, <2>4
  <2>10. QED  BY <1>4, <2>4, <2>6, <2>7, <2>8, <2>9 DEF blocks, answers, uses
<1>5. CASE answers = NoCall /\ uses = <<>>
  <2> DEFINE b == Block("text", NoCall)
  <2>1. blocks = <<b>>
    BY <1>5 DEF Blocks, answers, uses
  <2>2. b \in BlockT /\ b.type = "text"
    BY DEF Block, BlockT, Ids
  <2> HIDE DEF b
  <2>3. blocks \in Seq(BlockT) /\ Len(blocks) = 1 /\ blocks[1] = b
    BY <2>1, <2>2
  <2>4. \A i \in 1..Len(blocks) : blocks[i].type # "result" /\ blocks[i].type # "use"
    BY <2>2, <2>3
  <2> HIDE DEF blocks
  <2>5. Of(blocks, "use") = <<>> /\ Of(blocks, "result") = <<>>
    BY <2>3, <2>4, OfOneType
  <2>6. ~(\A i \in 1..Len(blocks) : blocks[i].type = "result")
    <3>1. 1 \in 1..Len(blocks)
      BY <2>3
    <3>2. QED  BY <2>4, <3>1
  <2>7. QED  BY <1>5, <2>3, <2>5, <2>6 DEF blocks, answers, uses
<1>6. QED  BY <1>3, <1>4, <1>5

\* What OpenAI's body has of a message.
OpenAiOf(m) ==
  IF m.answers # NoCall THEN OpenAiTool(m.answers)
  ELSE IF m.uses # <<>> THEN OpenAiCalls(m.uses)
  ELSE OpenAiText(m.role)

\* That is one message.
LEMMA ContentFacts ==
  \A m \in Message : Plain(m) =>
    /\ OpenAiContent(m.role, Blocks(m)) = <<OpenAiOf(m)>> /\ OpenAiOf(m) \in OpenAi
    /\ OpenAiOf(m).calls = m.uses
    /\ m.answers # NoCall => OpenAiOf(m).answers = m.answers
    /\ OpenAiOf(m).role = "tool" => m.answers # NoCall
<1> SUFFICES ASSUME NEW m \in Message, Plain(m)
             PROVE  /\ OpenAiContent(m.role, Blocks(m)) = <<OpenAiOf(m)>> /\ OpenAiOf(m) \in OpenAi
                    /\ OpenAiOf(m).calls = m.uses
                    /\ m.answers # NoCall => OpenAiOf(m).answers = m.answers
                    /\ OpenAiOf(m).role = "tool" => m.answers # NoCall
  OBVIOUS
<1> DEFINE blocks == Blocks(m)
<1>1. /\ blocks \in Seq(BlockT) /\ Len(blocks) > 0
      /\ Of(blocks, "use") = m.uses
      /\ (\A i \in 1..Len(blocks) : blocks[i].type = "result") <=> m.answers # NoCall
      /\ m.answers # NoCall => Len(blocks) = 1 /\ blocks[1].of = m.answers
  BY BlocksFacts
<1>2. m.uses \in Seq(Ids) /\ m.answers \in Ids /\ m.role \in {"user", "assistant"}
  BY DEF Message, Ids
<1> HIDE DEF blocks
<1>3. blocks # <<>> /\ DOMAIN blocks = 1..Len(blocks)
  BY <1>1
<1>4. OpenAiContent(m.role, blocks) = <<OpenAiOf(m)>>
  <2>1. CASE m.answers # NoCall
    <3>1. OpenAiContent(m.role, blocks) = [i \in DOMAIN blocks |-> OpenAiTool(blocks[i].of)]
      BY <1>1, <1>3, <2>1 DEF OpenAiContent
    <3>2. DOMAIN blocks = 1..1 /\ blocks[1].of = m.answers
      BY <1>1, <1>3, <2>1
    <3>3. [i \in DOMAIN blocks |-> OpenAiTool(blocks[i].of)] = [i \in 1..1 |-> OpenAiTool(m.answers)]
      BY <3>2
    <3>4. OpenAiOf(m) = OpenAiTool(m.answers)
      BY <2>1 DEF OpenAiOf
    <3>5. [i \in 1..1 |-> OpenAiTool(m.answers)] = <<OpenAiTool(m.answers)>>
      OBVIOUS
    <3>6. QED  BY <3>1, <3>3, <3>4, <3>5
  <2>2. CASE m.answers = NoCall
    <3>1. ~(\A i \in DOMAIN blocks : blocks[i].type = "result")
      BY <1>1, <1>3, <2>2
    <3>2. QED  BY <1>1, <2>2, <3>1 DEF OpenAiContent, OpenAiOf
  <2>3. QED  BY <2>1, <2>2
<1>5. OpenAiOf(m) \in OpenAi /\ OpenAiOf(m).calls = m.uses
  <2>1. <<>> \in Seq(Ids) /\ NoCall \in Ids
    BY DEF Ids
  <2>2. m.answers # NoCall => m.uses = <<>>
    BY DEF Plain
  <2>3. QED  BY <1>2, <2>1, <2>2 DEF OpenAiOf, OpenAiTool, OpenAiCalls, OpenAiText, OpenAi
<1>6. /\ m.answers # NoCall => OpenAiOf(m).answers = m.answers
      /\ OpenAiOf(m).role = "tool" => m.answers # NoCall
  BY <1>2 DEF OpenAiOf, OpenAiTool, OpenAiCalls, OpenAiText
<1>7. QED  BY <1>4, <1>5, <1>6 DEF blocks

\* OpenAI's body has one message for each.
LEMMA BodyFacts ==
  \A msgs \in Seq(Message) : (\A i \in 1..Len(msgs) : Plain(msgs[i])) =>
    OpenAiBody(msgs) = [i \in 1..Len(msgs) |-> OpenAiOf(msgs[i])]
<1> SUFFICES ASSUME NEW msgs \in Seq(Message), \A i \in 1..Len(msgs) : Plain(msgs[i])
             PROVE  OpenAiBody(msgs) = [i \in 1..Len(msgs) |-> OpenAiOf(msgs[i])]
  OBVIOUS
<1> DEFINE n == Len(msgs)
           content(i) == OpenAiContent(msgs[i].role, Blocks(msgs[i]))
           upto(i) == [j \in 1..i |-> OpenAiOf(msgs[j])]
           Is(g) == g = [i \in 0..n |-> IF i = 0 THEN <<>> ELSE g[i - 1] \o content(i)]
           body == CHOOSE g : Is(g)
<1>1. n \in Nat /\ \A i \in 1..n : msgs[i] \in Message
  OBVIOUS
<1>2. \A i \in 1..n : content(i) = <<OpenAiOf(msgs[i])>> /\ OpenAiOf(msgs[i]) \in OpenAi
  BY <1>1, ContentFacts
<1>3. OpenAiBody(msgs) = body[n]
  BY DEF OpenAiBody
<1> HIDE DEF content, n, body
<1>4. ASSUME NEW i \in 0..n PROVE upto(i) \in Seq(OpenAi) /\ Len(upto(i)) = i /\ \A j \in 1..i : upto(i)[j] = OpenAiOf(msgs[j])
  <2>1. i \in Nat /\ \A j \in 1..i : OpenAiOf(msgs[j]) \in OpenAi
    BY <1>1, <1>2
  <2>2. QED  BY <2>1
<1>5. ASSUME NEW i \in 1..n PROVE upto(i) = upto(i - 1) \o content(i)
  <2> DEFINE x == upto(i)
             y == upto(i - 1)
             m == OpenAiOf(msgs[i])
             z == y \o <<m>>
  <2>1. i \in 0..n /\ i - 1 \in 0..n
    BY <1>1
  <2>2. x \in Seq(OpenAi) /\ Len(x) = i /\ \A j \in 1..i : x[j] = OpenAiOf(msgs[j])
    BY <1>4, <2>1
  <2>3. y \in Seq(OpenAi) /\ Len(y) = i - 1 /\ \A j \in 1..i - 1 : y[j] = OpenAiOf(msgs[j])
    BY <1>4, <2>1
  <2>4. m \in OpenAi
    BY <1>2
  <2> HIDE DEF x, y, upto
  <2>5. z \in Seq(OpenAi) /\ Len(z) = i /\ z[i] = m /\ \A j \in 1..i - 1 : z[j] = y[j]
    <3> HIDE DEF m
    <3>1. QED  BY <1>1, <2>1, <2>3, <2>4
  <2> HIDE DEF z
  <2>6. ASSUME NEW j \in 1..i PROVE x[j] = z[j]
    <3>1. j = i \/ j \in 1..i - 1
      BY <2>1
    <3>2. QED  BY <2>2, <2>3, <2>5, <3>1
  <2>7. x = z
    BY <2>2, <2>5, <2>6
  <2>8. QED  BY <1>2, <2>7 DEF x, y, z, m
<1>6. upto(0) = <<>>
  OBVIOUS
<1> DEFINE g == [i \in 0..n |-> upto(i)]
<1>7. Is(g)
  <2> DEFINE h == [i \in 0..n |-> IF i = 0 THEN <<>> ELSE g[i - 1] \o content(i)]
  <2> HIDE DEF upto
  <2>1. ASSUME NEW i \in 0..n PROVE g[i] = h[i]
    <3>1. CASE i = 0
      BY <1>6, <3>1
    <3>2. CASE i \in 1..n
      <4>1. i # 0 /\ i - 1 \in 0..n
        BY <1>1, <3>2
      <4>2. g[i - 1] = upto(i - 1)
        BY <4>1
      <4>3. h[i] = g[i - 1] \o content(i) /\ g[i] = upto(i)
        BY <4>1
      <4>4. upto(i) = upto(i - 1) \o content(i)
        BY <1>5, <3>2
      <4> HIDE DEF g, h
      <4>5. QED  BY <4>2, <4>3, <4>4
    <3> HIDE DEF g, h
    <3>3. QED  BY <1>1, <3>1, <3>2
  <2>2. g = h
    BY <2>1
  <2>3. QED  BY <2>2
<1>8. Is(body)
  <2> HIDE DEF Is, g
  <2>1. QED  BY <1>7 DEF body
<1> DEFINE S == {i \in Nat : i <= n => body[i] = upto(i)}
<1> HIDE DEF upto
<1>9. 0 \in S
  BY <1>1, <1>6, <1>8
<1>10. ASSUME NEW i \in S PROVE i + 1 \in S
  <2> SUFFICES ASSUME i + 1 <= n PROVE body[i + 1] = upto(i + 1)
    BY <1>10
  <2>1. i + 1 \in 1..n /\ i + 1 \in 0..n /\ i + 1 # 0 /\ i + 1 - 1 = i /\ body[i] = upto(i)
    BY <1>1, <1>10
  <2>2. body[i + 1] = body[i] \o content(i + 1)
    <3> DEFINE k == i + 1
    <3>1. k \in 0..n /\ k # 0 /\ k - 1 = i
      BY <2>1
    <3> HIDE DEF k, S
    <3>2. body[k] = IF k = 0 THEN <<>> ELSE body[k - 1] \o content(k)
      BY <1>8, <3>1
    <3>3. body[k] = body[i] \o content(k)
      BY <3>1, <3>2
    <3>4. QED  BY <3>3 DEF k
  <2>3. upto(i + 1) = upto(i) \o content(i + 1)
    BY <1>5, <2>1
  <2>4. QED  BY <2>1, <2>2, <2>3
<1>11. S = Nat
  <2> HIDE DEF S
  <2>1. \A i \in S : i + 1 \in S
    BY <1>10
  <2>2. S \in SUBSET Nat
    BY DEF S
  <2>3. QED  BY <1>9, <2>1, <2>2, SetInduction
<1>12. n \in S /\ n <= n
  <2> HIDE DEF S
  <2>1. QED  BY <1>1, <1>11
<1>13. body[n] = upto(n)
  BY <1>12
<1>14. QED  BY <1>3, <1>13 DEF upto, n

\* A sound, settled conversation, and what there is of it.
LEMMA SettledFacts ==
  \A msgs \in Seq(Message) : Sound(msgs) /\ Settled(msgs, {}) =>
    /\ \A i \in 1..Len(msgs) : Plain(msgs[i]) /\ Complete(msgs, i)
    /\ \A i \in 1..Len(msgs) : msgs[i].answers # NoCall =>
         \E a \in 1..i - 1 : \E k \in 1..Len(msgs[a].uses) :
           /\ i - a <= Len(msgs[a].uses) /\ msgs[a].uses[k] = msgs[i].answers
<1> SUFFICES ASSUME NEW msgs \in Seq(Message), Sound(msgs), Settled(msgs, {}), NEW i \in 1..Len(msgs)
             PROVE  /\ Plain(msgs[i]) /\ Complete(msgs, i)
                    /\ msgs[i].answers # NoCall =>
                         \E a \in 1..i - 1 : \E k \in 1..Len(msgs[a].uses) :
                           /\ i - a <= Len(msgs[a].uses) /\ msgs[a].uses[k] = msgs[i].answers
  OBVIOUS
<1>1. Plain(msgs[i])
  BY MessageParts DEF Sound, Kinds, Plain
<1>2. Complete(msgs, i)
  BY DEF Settled, Excused
<1>3. ASSUME msgs[i].answers # NoCall
      PROVE  \E a \in 1..i - 1 : \E k \in 1..Len(msgs[a].uses) :
               /\ i - a <= Len(msgs[a].uses) /\ msgs[a].uses[k] = msgs[i].answers
  <2>1. PICK a \in 1..Len(msgs) : ResultOf(msgs, a, i)
    BY <1>3 DEF Sound, Placed
  <2>2. a < i /\ i - a <= Len(msgs[a].uses) /\ \A k \in 1..i - a : AnsweredAt(msgs, a, k)
    BY <2>1 DEF ResultOf
  <2>3. Len(msgs[a].uses) \in Nat
    BY MessageParts
  <2>4. a \in 1..i - 1 /\ i - a \in 1..i - a /\ i - a \in 1..Len(msgs[a].uses) /\ a + (i - a) = i
    BY <2>2, <2>3
  <2>5. msgs[a].uses[i - a] = msgs[i].answers
    BY <2>2, <2>4 DEF AnsweredAt
  <2>6. QED  BY <2>2, <2>4, <2>5
<1>4. QED  BY <1>1, <1>2, <1>3

\* OpenAI accepts what is made of it.
LEMMA OpenAiTakes ==
  \A msgs \in Seq(Message) : Sound(msgs) /\ Settled(msgs, {}) => OpenAiAccepts(OpenAiBody(msgs))
<1> SUFFICES ASSUME NEW msgs \in Seq(Message), Sound(msgs), Settled(msgs, {})
             PROVE  OpenAiAccepts(OpenAiBody(msgs))
  OBVIOUS
<1> DEFINE body == OpenAiBody(msgs)
           n == Len(msgs)
<1>1. \A i \in 1..n : Plain(msgs[i]) /\ Complete(msgs, i) /\ msgs[i] \in Message
  BY SettledFacts
<1>2. body = [i \in 1..n |-> OpenAiOf(msgs[i])]
  BY <1>1, BodyFacts
<1>3. n \in Nat
  OBVIOUS
<1>4. \A i \in 1..n : /\ OpenAiOf(msgs[i]) \in OpenAi
                      /\ OpenAiOf(msgs[i]).calls = msgs[i].uses
                      /\ msgs[i].answers # NoCall => OpenAiOf(msgs[i]).answers = msgs[i].answers
                      /\ OpenAiOf(msgs[i]).role = "tool" => msgs[i].answers # NoCall
  BY <1>1, ContentFacts
<1> HIDE DEF body
<1>5. DOMAIN body = 1..n /\ Len(body) = n /\ \A i \in 1..n : body[i] = OpenAiOf(msgs[i])
  <2> HIDE DEF n
  <2>1. body \in Seq(OpenAi)
    BY <1>2, <1>3, <1>4
  <2>2. QED  BY <1>2, <1>3, <2>1
<1> HIDE DEF n
<1>6. ASSUME NEW i \in 1..n
      PROVE  LET c == Len(body[i].calls) IN
             /\ i + c <= Len(body)
             /\ {body[i + k].answers : k \in 1..c} = ToSet(body[i].calls)
             /\ body[i].role = "tool" => \E j \in 1..i - 1 : i - j <= Len(body[j].calls)
  <2> DEFINE c == Len(body[i].calls)
             uses == msgs[i].uses
  <2>1. body[i].calls = uses /\ uses \in Seq(CallIds) /\ c = Len(uses) /\ c \in Nat
    <3>1. body[i].calls = uses
      BY <1>4, <1>5
    <3>2. uses \in Seq(CallIds) /\ Len(uses) \in Nat
      BY MessageParts DEF n
    <3>3. QED  BY <3>1, <3>2
  <2>2. \A k \in 1..c : uses[k] # NoCall
    BY <2>1, MessageParts DEF n
  <2>3. \A k \in 1..c : i + k <= n /\ msgs[i + k].answers = uses[k]
    BY <1>1, <2>1 DEF Complete, AnsweredAt, n
  <2> HIDE DEF c, uses
  <2>4. i + c <= n
    <3>1. CASE c = 0
      BY <1>3, <3>1
    <3>2. CASE c # 0
      <4>1. c \in 1..c
        BY <2>1, <3>2
      <4>2. QED  BY <2>3, <4>1
    <3>3. QED  BY <3>1, <3>2
  <2>5. ASSUME NEW k \in 1..c PROVE body[i + k].answers = uses[k]
    <3>1. i + k \in 1..n
      BY <1>3, <2>1, <2>3
    <3>2. msgs[i + k].answers = uses[k] /\ uses[k] # NoCall
      BY <2>2, <2>3
    <3>3. QED  BY <1>4, <1>5, <3>1, <3>2
  <2>6. {body[i + k].answers : k \in 1..c} = ToSet(uses)
    <3>1. ToSet(uses) = {uses[k] : k \in 1..c}
      BY <2>1 DEF ToSet
    <3>2. {body[i + k].answers : k \in 1..c} = {uses[k] : k \in 1..c}
      BY <2>5
    <3>3. QED  BY <3>1, <3>2
  <2>7. ASSUME body[i].role = "tool" PROVE \E j \in 1..i - 1 : i - j <= Len(body[j].calls)
    <3>1. msgs[i].answers # NoCall
      BY <1>4, <1>5, <2>7
    <3>2. PICK a \in 1..i - 1 : i - a <= Len(msgs[a].uses)
      BY <3>1, SettledFacts DEF n
    <3>3. a \in 1..n
      BY <1>3
    <3>4. body[a].calls = msgs[a].uses
      BY <1>4, <1>5, <3>3
    <3>5. QED  BY <3>2, <3>4
  <2>8. c = Len(body[i].calls)
    BY DEF c
  <2>9. QED  BY <1>5, <2>1, <2>4, <2>6, <2>7, <2>8
<1>7. QED  BY <1>5, <1>6 DEF OpenAiAccepts, body

\* Anthropic accepts it as it is, without the pad.
LEMMA AnthropicTakes ==
  \A msgs \in Seq(Message) :
    Sound(msgs) /\ Settled(msgs, {}) /\ Begins(msgs) /\ msgs # <<>> => AnthropicAccepts(AnthropicBody(msgs))
<1> SUFFICES ASSUME NEW msgs \in Seq(Message), Sound(msgs), Settled(msgs, {}), Begins(msgs), msgs # <<>>
             PROVE  AnthropicAccepts(AnthropicBody(msgs))
  OBVIOUS
<1> DEFINE n == Len(msgs)
           body == [i \in DOMAIN msgs |-> [role |-> msgs[i].role, blocks |-> Blocks(msgs[i])]]
           texts(i) == {j \in i..Len(body) : body[j].role # "user" \/ Of(body[j].blocks, "result") = <<>>}
           stop(i) == IF texts(i) = {} THEN Len(body) + 1 ELSE CHOOSE j \in texts(i) : \A k \in texts(i) : j <= k
           results(i) == UNION {ToSet(Of(body[j].blocks, "result")) : j \in i..stop(i) - 1}
<1>1. n \in Nat /\ DOMAIN msgs = 1..n /\ n > 0
  OBVIOUS
<1>2. /\ body # <<>> /\ DOMAIN body = 1..n /\ Len(body) = n
      /\ \A i \in 1..n : body[i].role = msgs[i].role /\ body[i].blocks = Blocks(msgs[i])
  <2>1. body \in Seq({body[i] : i \in 1..n}) /\ DOMAIN body = 1..n
    BY <1>1
  <2>2. \A i \in 1..n : body[i].role = msgs[i].role /\ body[i].blocks = Blocks(msgs[i])
    BY <1>1
  <2> HIDE DEF body, n
  <2>3. QED  BY <1>1, <2>1, <2>2
<1>3. Head(body).role = "user"
  <2>1. msgs[1].role = "user" /\ 1 \in 1..n
    BY <1>1 DEF Begins
  <2>2. body[1].role = "user"
    BY <1>2, <2>1
  <2>3. Head(body) = body[1]
    OBVIOUS
  <2>4. QED  BY <2>2, <2>3
<1>4. AnthropicBody(msgs) = body
  <2> HIDE DEF body
  <2>1. AnthropicBody(msgs) = IF body # <<>> /\ Head(body).role # "user"
                              THEN <<[role |-> "user", blocks |-> <<Block("text", NoCall)>>]>> \o body ELSE body
    BY DEF AnthropicBody, body
  <2>2. QED  BY <1>3, <2>1
<1> HIDE DEF body
<1>5. \A i \in 1..n :
        /\ Of(body[i].blocks, "use") = msgs[i].uses
        /\ Of(body[i].blocks, "result") = IF msgs[i].answers # NoCall THEN <<msgs[i].answers>> ELSE <<>>
        /\ msgs[i].answers # NoCall => body[i].role = "user"
  <2> TAKE i \in 1..n
  <2>1. msgs[i] \in Message /\ Plain(msgs[i]) /\ msgs[i].role \in {"user", "assistant"}
    BY MessageParts, SettledFacts
  <2>2. msgs[i].answers # NoCall => msgs[i].role = "user"
    BY <2>1 DEF Sound, Kinds
  <2>3. QED  BY <1>2, <2>1, <2>2, BlocksFacts
<1>6. \A i \in 1..n : msgs[i].answers # NoCall =>
        ToSet(Of(body[i].blocks, "result")) = {msgs[i].answers} /\ Of(body[i].blocks, "result") # <<>>
  <2> TAKE i \in 1..n
  <2> SUFFICES ASSUME msgs[i].answers # NoCall
               PROVE  ToSet(Of(body[i].blocks, "result")) = {msgs[i].answers} /\ Of(body[i].blocks, "result") # <<>>
    OBVIOUS
  <2> DEFINE c == msgs[i].answers
  <2>1. Of(body[i].blocks, "result") = <<c>>
    BY <1>5
  <2> HIDE DEF c
  <2>2. ToSet(<<c>>) = {c} /\ <<c>> # <<>>
    BY DEF ToSet
  <2>3. QED  BY <2>1, <2>2 DEF c
<1>7. ASSUME NEW i \in 1..n PROVE ToSet(Of(body[i].blocks, "use")) \subseteq results(i + 1)
  <2> DEFINE uses == msgs[i].uses
             c == Len(uses)
             from == i + 1
             T == texts(from)
             end == stop(from)
  <2>1. Of(body[i].blocks, "use") = uses /\ uses \in Seq(CallIds) /\ c \in Nat /\ \A k \in 1..c : uses[k] # NoCall
    <3>1. uses \in Seq(CallIds) /\ Len(uses) \in Nat /\ \A k \in 1..Len(uses) : uses[k] # NoCall
      BY MessageParts
    <3>2. QED  BY <1>5, <3>1
  <2>2. \A k \in 1..c : i + k <= n /\ msgs[i + k].answers = uses[k]
    BY SettledFacts DEF Complete, AnsweredAt
  <2> HIDE DEF n, uses, c
  <2>3. \A k \in 1..c : i + k \in 1..n /\ msgs[i + k].answers # NoCall
    BY <1>1, <2>1, <2>2
  <2>4. \A j \in T : j \in Nat /\ j >= i + 1 /\ j > i + c /\ j <= n
    <3> TAKE j \in T
    <3>1. j \in i + 1..n /\ (body[j].role # "user" \/ Of(body[j].blocks, "result") = <<>>)
      BY <1>2
    <3> HIDE DEF T
    <3>2. SUFFICES ASSUME j <= i + c PROVE FALSE
      BY <1>1, <2>1, <3>1
    <3>3. j - i \in 1..c /\ i + (j - i) = j
      BY <1>1, <2>1, <3>1, <3>2
    <3>4. msgs[j].answers # NoCall /\ j \in 1..n
      BY <2>3, <3>3
    <3>5. QED  BY <1>5, <1>6, <3>1, <3>4
  <2>5. T # {} => end \in T
    <3>1. T \in SUBSET Nat
      BY <2>4
    <3>2. end = IF T = {} THEN Len(body) + 1 ELSE CHOOSE j \in T : \A k \in T : j <= k
      OBVIOUS
    <3> HIDE DEF T, end
    <3>3. T # {} => \E j \in T : \A k \in T : j <= k
      BY <3>1, SmallestExists
    <3>4. QED  BY <3>2, <3>3
  <2>6. T = {} => end = n + 1
    BY <1>2
  <2> HIDE DEF T
  <2>7. end \in Nat /\ (c > 0 => end > i + c)
    <3> HIDE DEF end
    <3>1. CASE T = {}
      <4>1. c > 0 => i + c <= n
        <5>1. c > 0 => c \in 1..c
          BY <2>1
        <5>2. QED  BY <2>2, <5>1
      <4>2. QED  BY <1>1, <2>1, <2>6, <3>1, <4>1
    <3>2. CASE T # {}
      BY <2>4, <2>5, <3>2
    <3>3. QED  BY <3>1, <3>2
  <2>8. results(i + 1) = UNION {ToSet(Of(body[j].blocks, "result")) : j \in i + 1..end - 1}
    OBVIOUS
  <2> HIDE DEF end, results
  <2>9. ASSUME NEW k \in 1..c PROVE uses[k] \in results(i + 1)
    <3> DEFINE j == i + k
    <3>1. j \in i + 1..end - 1
      BY <1>1, <2>1, <2>7
    <3>2. j \in 1..n /\ msgs[j].answers = uses[k] /\ msgs[j].answers # NoCall
      BY <2>2, <2>3
    <3> HIDE DEF j
    <3>3. uses[k] \in ToSet(Of(body[j].blocks, "result"))
      BY <1>6, <3>2
    <3>4. QED  BY ONLY <2>8, <3>1, <3>3
  <2>10. ToSet(uses) = {uses[k] : k \in 1..c}
    BY <2>1 DEF ToSet, c
  <2>11. ToSet(uses) \subseteq results(i + 1)
    BY <2>9, <2>10
  <2>12. QED  BY <2>1, <2>11
<1>8. ASSUME NEW i \in 1..n, NEW c \in ToSet(Of(body[i].blocks, "result"))
      PROVE  \E j \in 1..i - 1 : c \in ToSet(Of(body[j].blocks, "use"))
  <2>1. msgs[i].answers # NoCall
    <3>1. ToSet(<<>>) = {}
      BY DEF ToSet
    <3>2. QED  BY <1>5, <1>8, <3>1
  <2>2. c = msgs[i].answers
    BY <1>6, <1>8, <2>1
  <2>3. PICK a \in 1..i - 1 : \E k \in 1..Len(msgs[a].uses) : msgs[a].uses[k] = msgs[i].answers
    BY <2>1, SettledFacts
  <2>4. PICK k \in 1..Len(msgs[a].uses) : msgs[a].uses[k] = c
    BY <2>2, <2>3
  <2>5. a \in 1..n
    BY <1>1
  <2>6. msgs[a].uses \in Seq(CallIds) /\ Of(body[a].blocks, "use") = msgs[a].uses
    BY <1>5, <2>5, MessageParts
  <2>7. c \in ToSet(msgs[a].uses)
    BY <2>4, <2>6 DEF ToSet
  <2>8. QED  BY <2>6, <2>7
<1>9. AnthropicAccepts(body)
  <2>1. \A i \in DOMAIN body : ToSet(Of(body[i].blocks, "use")) \subseteq results(i + 1)
    <3> HIDE DEF results
    <3>1. QED  BY <1>2, <1>7
  <2>2. \A i \in DOMAIN body : \A c \in ToSet(Of(body[i].blocks, "result")) :
          \E j \in 1..i - 1 : c \in ToSet(Of(body[j].blocks, "use"))
    <3> TAKE i \in DOMAIN body
    <3>1. i \in 1..n
      BY <1>2
    <3>2. QED  BY <1>8, <3>1
  <2>3. QED  BY <1>2, <1>3, <2>1, <2>2 DEF AnthropicAccepts
<1>10. QED  BY <1>4, <1>9

\* As long as a limited memory holds the last turn, both kinds of provider accept
\* what the daemon makes of it, whatever was trimmed away, compacted, cancelled or
\* dropped; of the transpiled edition's memories, those without a call left open.
THEOREM RequestsAccepted == TSpec /\ []TurnFits => []ProvidersAccept
<1> DEFINE Inv == MemoryInv(open)
<1>1. TAgentInv /\ Inv => ProvidersAccept
  <2> SUFFICES ASSUME TAgentInv, MemoryInv(open), pc = "request", open = {}
               PROVE  /\ Head(memory).role = "user"
                      /\ OpenAiAccepts(OpenAiBody(memory))
                      /\ AnthropicAccepts(AnthropicBody(memory))
    BY DEF ProvidersAccept
  <2>1. memory \in Seq(Message) /\ Sound(memory) /\ Begins(memory) /\ memory # <<>>
    BY DEF TAgentInv, AgentType, MemoryInv
  <2>2. Settled(memory, {})
    <3>1. PICK old : old = open
      OBVIOUS
    <3>2. Settled(memory, old) \/ (~Orderly /\ HalfAnswered(old))
      BY <3>1 DEF MemoryInv
    <3>3. Orderly
      BY DEF Orderly
    <3>4. QED  BY <3>1, <3>2, <3>3
  <2>3. Head(memory).role = "user"
    BY <2>1 DEF Begins
  <2>4. QED  BY <2>1, <2>2, <2>3, OpenAiTakes, AnthropicTakes
<1> HIDE DEF Inv
<1>2. TSpec /\ []TurnFits => []Inv
  BY MemoryStaysSound DEF Inv
<1>3. QED  BY <1>1, <1>2, AgentInvariant, PTL

-----------------------------------------------------------------------------
(* Memories that hold every turn of the model's runs *)

\* What is queued was pushed, and what is owed was pushed or is a run's task.
CountsInv ==
  /\ limit \in Limits
  /\ runs \in 0..MaxRuns /\ pushes \in 0..MaxPushes
  /\ pc # "idle" => runs > 0
  /\ owed \in Seq(Texts)
  /\ Len(steering) + Len(followUps) <= pushes
  /\ Len(owed) + Len(steering) + Len(followUps) <= pushes + runs

\* All that may still come behind the assistant's last message.
Spare == Ahead + (MaxRuns - runs) + (MaxPushes - pushes)

RoomInv == CountsInv /\ Room(memory, Spare, limit)

\* The counts are kept.
LEMMA CountsStep ==
  ASSUME AgentType, CountsInv, TNext
  PROVE  CountsInv'
<1> DEFINE s == Len(steering)
           f == Len(followUps)
           o == Len(owed)
           none == <<>>
<1>1. /\ steering \in Seq(Texts) /\ followUps \in Seq(Texts) /\ owed \in Seq(Texts)
      /\ s \in Nat /\ f \in Nat /\ o \in Nat /\ none \in Seq(Texts) /\ Len(none) = 0
      /\ MaxRuns \in Nat /\ MaxPushes \in Nat
  BY AgentAssumption DEF AgentType, CountsInv
<1>2. /\ limit \in Limits /\ runs \in 0..MaxRuns /\ pushes \in 0..MaxPushes
      /\ pc # "idle" => runs > 0
      /\ s + f <= pushes /\ o + s + f <= pushes + runs
  BY DEF CountsInv
<1> HIDE DEF s, f, o, none
<1>3. ASSUME limit' = limit, runs' = runs, pushes' = pushes, pc # "idle",
             owed' \in Seq(Texts), Len(steering') + Len(followUps') <= s + f,
             Len(steering') \in Nat, Len(followUps') \in Nat, Len(owed') \in Nat,
             \/ Len(owed') + Len(steering') + Len(followUps') <= o + s + f
             \/ Len(owed') <= 1
      PROVE  CountsInv'
  <2>1. runs > 0 /\ runs \in Nat /\ pushes \in Nat
    BY <1>1, <1>2, <1>3
  <2>2. Len(steering') + Len(followUps') <= pushes
    BY <1>1, <1>2, <1>3, <2>1
  <2>3. Len(owed') + Len(steering') + Len(followUps') <= pushes + runs
    BY <1>1, <1>2, <1>3, <2>1, <2>2
  <2>4. QED  BY <1>2, <1>3, <2>1, <2>2, <2>3 DEF CountsInv
<1>4. CASE Prepare
  <2>1. /\ limit' = limit /\ runs' = runs /\ pushes' = pushes /\ pc = "compact" /\ owed' = <<"task">>
        /\ steering' = steering /\ followUps' = followUps
    BY <1>4 DEF Prepare, hostVars
  <2>2. <<"task">> \in Seq(Texts) /\ Len(<<"task">>) = 1
    BY DEF Texts
  <2>3. QED  BY <1>1, <1>3, <2>1, <2>2 DEF s, f
<1>5. CASE BeginTurn
  <2>1. limit' = limit /\ runs' = runs /\ pushes' = pushes /\ pc = "turn" /\ followUps' = followUps
    BY <1>5 DEF BeginTurn
  <2>2. \/ owed' = owed /\ steering' = steering
        \/ owed' = owed /\ steering' = none
        \/ owed' = owed \o steering /\ steering' = none
    BY <1>5 DEF BeginTurn, Cancelled, none
  <2>3. owed \o steering \in Seq(Texts) /\ Len(owed \o steering) = o + s
    BY <1>1 DEF o, s
  <2>4. CASE owed' = owed
    BY <1>1, <1>3, <2>1, <2>2, <2>4 DEF o, s, f
  <2>5. CASE owed' = owed \o steering /\ steering' = none
    BY <1>1, <1>3, <2>1, <2>3, <2>5 DEF f
  <2>6. QED  BY <2>2, <2>4, <2>5
<1>6. CASE Answers
  <2>1. limit' = limit /\ runs' = runs /\ pushes' = pushes /\ pc = "request"
    BY <1>6 DEF Answers
  <2>2. \/ owed' = none /\ steering' = none /\ followUps' = followUps
        \/ owed' = followUps /\ steering' = steering /\ followUps' = none
    BY <1>6 DEF Answers, Cancelled, none
  <2>3. CASE owed' = none /\ steering' = none /\ followUps' = followUps
    BY <1>1, <1>3, <2>1, <2>3 DEF f
  <2>4. CASE owed' = followUps /\ steering' = steering /\ followUps' = none
    <3>1. Len(owed') = f /\ Len(steering') = s /\ Len(followUps') = 0 /\ owed' \in Seq(Texts)
      BY <1>1, <2>4 DEF s, f
    <3>2. f + s + 0 <= o + s + f /\ s + 0 <= s + f
      BY <1>1
    <3>3. QED  BY <1>1, <1>3, <2>1, <3>1, <3>2
  <2>5. QED  BY <2>2, <2>3, <2>4
<1>7. CASE \E keys \in Batches : WantsTools(keys)
  <2>1. limit' = limit /\ runs' = runs /\ pushes' = pushes /\ pc = "request" /\ followUps' = followUps /\ owed' = none
    BY <1>7 DEF WantsTools, none
  <2>2. steering' = none \/ steering' = steering
    BY <1>7 DEF WantsTools, Cancelled, none
  <2>3. QED  BY <1>1, <1>3, <2>1, <2>2 DEF s, f
<1>8. CASE Recover \/ (\E overflow \in BOOLEAN : RequestFails(overflow)) \/ BatchDone \/ BatchCancelled \/ NextCall \/ ToolReturns \/ DropRun
  <2>1. limit' = limit /\ runs' = runs /\ pushes' = pushes /\ pc # "idle" /\ followUps' = followUps /\ owed' = owed
    BY <1>8 DEF Recover, RequestFails, BatchDone, BatchCancelled, NextCall, ToolReturns, DropRun, hostVars
  <2>2. steering' = none \/ steering' = steering
    BY <1>8 DEF Recover, RequestFails, BatchDone, BatchCancelled, NextCall, ToolReturns, DropRun, hostVars, Cancelled, none
  <2>3. QED  BY <1>1, <1>3, <2>1, <2>2 DEF s, f, o
<1>9. CASE Steer \/ FollowUp
  <2>1. /\ limit' = limit /\ runs' = runs /\ pushes' = pushes + 1 /\ pushes < MaxPushes /\ pc' = pc /\ owed' = owed
        /\ \/ steering' = Append(steering, "steer") /\ followUps' = followUps
           \/ steering' = steering /\ followUps' = Append(followUps, "follow")
    BY <1>9 DEF Steer, FollowUp, loopVars
  <2>2. Len(Append(steering, "steer")) = s + 1 /\ Len(Append(followUps, "follow")) = f + 1
    BY <1>1 DEF s, f
  <2>3. Len(steering') + Len(followUps') = s + f + 1
    BY <1>1, <2>1, <2>2 DEF s, f
  <2>4. Len(owed') = o /\ Len(steering') \in Nat /\ Len(followUps') \in Nat
    BY <1>1, <2>1, <2>2 DEF o, s, f
  <2>5. pushes' \in 0..MaxPushes /\ s + f + 1 <= pushes' /\ o + (s + f + 1) <= pushes' + runs'
    BY <1>1, <1>2, <2>1
  <2>6. Len(owed') + Len(steering') + Len(followUps') = o + (s + f + 1)
    <3> DEFINE x == Len(steering')
               y == Len(followUps')
               z == Len(owed')
    <3>1. z = o /\ x \in Nat /\ y \in Nat /\ x + y = s + f + 1
      BY <2>3, <2>4
    <3> HIDE DEF x, y, z
    <3>2. z + x + y = o + (s + f + 1)
      BY <1>1, <3>1
    <3>3. QED  BY <3>2 DEF x, y, z
  <2>7. QED  BY <1>1, <1>2, <2>1, <2>3, <2>5, <2>6 DEF CountsInv
<1>10. CASE Cancel
  <2>1. UNCHANGED <<limit, runs, pushes, pc, owed, steering, followUps>>
    BY <1>10 DEF Cancel, loopVars
  <2>2. QED  BY <2>1 DEF CountsInv
<1>11. CASE StartOn(Repair(memory, limit)) \/ StartOn(memory)
  <2>1. /\ limit' = limit /\ runs' = runs + 1 /\ runs < MaxRuns /\ pushes' = pushes /\ owed' = none
        /\ steering' = steering /\ followUps' = followUps
    BY <1>11 DEF StartOn, none
  <2>2. runs' \in 0..MaxRuns /\ runs' > 0 /\ s + f <= pushes' /\ 0 + s + f <= pushes' + runs'
    BY <1>1, <1>2, <2>1
  <2>3. QED  BY <1>1, <1>2, <2>1, <2>2 DEF CountsInv, s, f
<1>12. QED
  BY <1>4, <1>5, <1>6, <1>7, <1>8, <1>9, <1>10, <1>11, EditionStep DEF LoopStep, Run

\* With the counts a limited memory that has the room holds the last turn.
LEMMA RoomHoldsTurn ==
  ASSUME AgentType, RoomInv, Roomy
  PROVE  TurnFits /\ Ahead \in Nat /\ Spare \in Nat /\ Ahead <= Spare
<1>1. /\ limit \in LimitType /\ memory \in Seq(Message) /\ limit \in Limits
      /\ MaxRuns \in Nat /\ MaxPushes \in Nat /\ runs \in 0..MaxRuns /\ pushes \in 0..MaxPushes
      /\ Len(owed) \in Nat /\ Len(steering) \in Nat /\ Len(followUps) \in Nat /\ Len(todo) \in Nat
      /\ Len(owed) + Len(steering) + Len(followUps) <= pushes + runs
  BY AgentAssumption DEF AgentType, RoomInv, CountsInv
<1>2. Len(Unanswered(memory)) \in Nat
  <2> DEFINE missing == Unanswered(memory)
  <2>1. missing \in Seq(CallIds)
    BY <1>1, UnansweredIsOpen
  <2> HIDE DEF missing
  <2>2. Len(missing) \in Nat
    BY <2>1
  <2>3. QED  BY <2>2 DEF missing
<1>3. Ahead \in Nat
  <2>1. CallsAhead \in Nat /\ TaskAhead \in Nat /\ RepairAhead \in Nat
    BY <1>1, <1>2 DEF CallsAhead, TaskAhead, RepairAhead
  <2>2. QED  BY <1>1, <2>1 DEF Ahead
<1>4. Spare \in Nat /\ Ahead <= Spare
  BY <1>1, <1>3 DEF Spare
<1>5. Room(memory, Ahead, limit)
  BY <1>1, <1>3, <1>4, RoomLess DEF RoomInv
<1>6. ASSUME limit # NoLimit PROVE 1 + Len(owed) + Len(steering) + Len(followUps) <= 2 * limit
  <2>1. limit \in Nat /\ 1 + MaxRuns + MaxPushes <= 2 * limit
    BY <1>1, <1>6 DEF Roomy, LimitType
  <2>2. QED  BY <1>1, <2>1
<1>7. QED  BY <1>3, <1>4, <1>5, <1>6 DEF TurnFits

\* Messages of the user's that are added take as many places.
LEMMA AddAllRoom ==
  \A msgs, new \in Seq(Message), n \in Nat, max \in LimitType :
    (\A i \in 1..Len(new) : new[i].role = "user") /\ Room(msgs, n + Len(new), max) => Room(AddAll(msgs, new, max), n, max)
<1> SUFFICES ASSUME NEW msgs \in Seq(Message), NEW new \in Seq(Message), NEW n \in Nat, NEW max \in LimitType,
                    \A i \in 1..Len(new) : new[i].role = "user", Room(msgs, n + Len(new), max)
             PROVE  Room(AddAll(msgs, new, max), n, max)
  OBVIOUS
<1> DEFINE all == msgs \o new
           have == AddAll(msgs, new, max)
           p == Len(msgs)
           u == Len(new)
<1>1. /\ p \in Nat /\ u \in Nat /\ all \in Seq(Message) /\ Len(all) = p + u
      /\ \A i \in 1..p : all[i] = msgs[i]
      /\ \A i \in 1..u : all[p + i] = new[i]
  <2>1. msgs \in Seq(Message) /\ new \in Seq(Message)
    OBVIOUS
  <2>2. /\ all \in Seq(Message) /\ Len(all) = Len(msgs) + Len(new) /\ \A i \in 1..Len(msgs) : all[i] = msgs[i]
        /\ \A i \in 1..Len(new) : all[Len(msgs) + i] = new[i]
    BY ONLY <2>1, Joined
  <2>3. QED  BY <2>2
<1> HIDE DEF all
<1>2. Room(msgs, u, max)
  BY <1>1, RoomLess
<1>3. have \in Seq(Message) /\ Keeps(have, all, max)
  BY <1>2, AddAllFacts, AddAllKeeps DEF all
<1>4. Room(all, n, max)
  <2> SUFFICES ASSUME max # NoLimit, NEW b \in 1..Len(all), LastAt(all, b)
               PROVE  max > 0 /\ Len(all) - b + 1 + n <= 2 * max
    <3>1. max # NoLimit => max > 0
      BY DEF Room
    <3>2. QED  BY <3>1 DEF Room
  <2>1. max > 0 /\ max \in Nat /\ \A c \in 1..p : LastAt(msgs, c) => p - c + 1 + (n + u) <= 2 * max
    BY DEF Room, LimitType
  <2>2. all[b].role = "assistant" /\ \A j \in 1..p + u : j > b => all[j].role = "user"
    BY <1>1 DEF LastAt
  <2>3. \A i \in 1..u : new[i].role = "user"
    OBVIOUS
  <2> HIDE DEF p, u
  <2>4. b \in 1..p
    <3>1. SUFFICES ASSUME b > p PROVE FALSE
      BY <1>1
    <3>2. b - p \in 1..u /\ p + (b - p) = b
      BY <1>1, <3>1
    <3>3. all[b] = new[b - p]
      BY <1>1, <3>2
    <3>4. QED  BY <2>2, <2>3, <3>2, <3>3
  <2>5. LastAt(msgs, b)
    <3>1. \A j \in 1..p : j \in 1..p + u
      BY <1>1
    <3>2. QED  BY <1>1, <2>2, <2>4, <3>1 DEF LastAt, p
  <2>6. p - b + 1 + (n + u) <= 2 * max
    BY <2>1, <2>4, <2>5
  <2>7. p + u - b + 1 + n <= 2 * max
    <3>1. 2 * max \in Nat /\ b \in Nat
      BY <2>1, <2>4
    <3>2. QED  BY <1>1, <2>6, <3>1
  <2>8. Len(all) - b + 1 + n <= 2 * max
    <3>1. Len(all) = p + u
      BY <1>1
    <3>2. Len(all) - b + 1 + n = (p + u) - b + 1 + n
      BY <3>1
    <3>3. (p + u) - b + 1 + n = p + u - b + 1 + n
      BY <1>1, <2>4
    <3>4. QED  BY <2>7, <3>2, <3>3
  <2>9. QED  BY <2>1, <2>8
<1>5. QED  BY <1>1, <1>3, <1>4, KeepsRoom

\* A message of the user's that is added takes one place, an assistant's makes
\* room again.
LEMMA AddRoom ==
  \A msgs \in Seq(Message), m \in Message, n \in Nat, max \in LimitType :
    /\ m.role = "user" /\ Room(msgs, n + 1, max) => Room(Add(msgs, m, max), n, max)
    /\ m.role = "assistant" /\ (max # NoLimit => 1 + n <= 2 * max) => Room(Add(msgs, m, max), n, max)
<1> TAKE msgs \in Seq(Message), m \in Message, n \in Nat, max \in LimitType
<1> DEFINE all == Append(msgs, m)
           have == Add(msgs, m, max)
<1>1. all \in Seq(Message) /\ have = Trim(all, max) /\ have \in Seq(Message)
  <2>1. all \in Seq(Message) /\ have = Trim(all, max)
    BY DEF Add
  <2> HIDE DEF all, have
  <2>2. have \in Seq(Message)
    BY <2>1, TrimFacts
  <2>3. QED  BY <2>1, <2>2
<1> HIDE DEF all, have
<1>2. ASSUME Room(all, n, max) PROVE Room(have, n, max)
  <2>1. Room(all, 0, max)
    BY <1>1, <1>2, RoomLess
  <2>2. Keeps(have, all, max)
    BY <1>1, <2>1, TrimKeeps
  <2>3. QED  BY <1>1, <1>2, <2>2, KeepsRoom
<1>3. m.role = "user" /\ Room(msgs, n + 1, max) => Room(all, n, max)
  BY RoomAppend DEF all
<1>4. m.role = "assistant" /\ (max # NoLimit => 1 + n <= 2 * max) => Room(all, n, max)
  BY RoomOfAnswer DEF all
<1>5. QED  BY <1>2, <1>3, <1>4 DEF have

\* The results of some calls take as many places.
LEMMA AddResultsRoom ==
  \A msgs \in Seq(Message), ids \in Seq(CallIds), n \in Nat, max \in LimitType :
    Room(msgs, n + Len(ids), max) => Room(AddResults(msgs, ids, max), n, max)
<1> SUFFICES ASSUME NEW msgs \in Seq(Message), NEW ids \in Seq(CallIds), NEW n \in Nat, NEW max \in LimitType,
                    Room(msgs, n + Len(ids), max)
             PROVE  Room(AddResults(msgs, ids, max), n, max)
  OBVIOUS
<1>1. Results(ids) \in Seq(Message) /\ Len(Results(ids)) = Len(ids) /\ \A i \in 1..Len(Results(ids)) : Results(ids)[i].role = "user"
  BY ResultsParts
<1>2. QED  BY <1>1, AddAllRoom DEF AddResults

\* Some texts do too.
LEMMA AddHumansRoom ==
  \A msgs \in Seq(Message), texts \in Seq(Texts), n \in Nat, max \in LimitType :
    Room(msgs, n + Len(texts), max) => Room(AddAll(msgs, HumanAll(texts), max), n, max)
<1> SUFFICES ASSUME NEW msgs \in Seq(Message), NEW texts \in Seq(Texts), NEW n \in Nat, NEW max \in LimitType,
                    Room(msgs, n + Len(texts), max)
             PROVE  Room(AddAll(msgs, HumanAll(texts), max), n, max)
  OBVIOUS
<1> DEFINE new == HumanAll(texts)
<1>1. new \in Seq(Message) /\ Len(new) = Len(texts) /\ \A i \in 1..Len(new) : new[i].role = "user"
  BY HumanAllFacts DEF AllUser
<1> HIDE DEF new
<1>2. Room(AddAll(msgs, new, max), n, max)
  BY <1>1, AddAllRoom
<1>3. QED  BY <1>2 DEF new

\* What is ahead after a step, in numbers.
LEMMA AheadNext ==
  ASSUME AgentType', CountsInv'
  PROVE  /\ Len(steering') \in Nat /\ Len(followUps') \in Nat /\ Len(todo') \in Nat
         /\ CallsAhead' \in Nat /\ TaskAhead' \in Nat /\ RepairAhead' \in Nat
         /\ MaxRuns - runs' \in Nat /\ MaxPushes - pushes' \in Nat
         /\ Spare' = Len(steering') + Len(followUps') + CallsAhead' + TaskAhead' + RepairAhead'
                       + (MaxRuns - runs') + (MaxPushes - pushes')
         /\ Spare' \in Nat
<1>1. /\ MaxRuns \in Nat /\ MaxPushes \in Nat /\ runs' \in 0..MaxRuns /\ pushes' \in 0..MaxPushes
      /\ Len(steering') \in Nat /\ Len(followUps') \in Nat /\ Len(todo') \in Nat /\ memory' \in Seq(Message)
  BY AgentAssumption DEF AgentType, CountsInv
<1> DEFINE missing == Unanswered(memory')
<1>2. missing \in Seq(CallIds)
  BY <1>1, UnansweredIsOpen
<1>3. CallsAhead' \in Nat /\ TaskAhead' \in Nat /\ RepairAhead' \in Nat
  <2> HIDE DEF missing
  <2>1. Len(missing) \in Nat
    BY <1>2
  <2>2. QED  BY <1>1, <2>1 DEF missing, CallsAhead, TaskAhead, RepairAhead
<1>4. Spare' = Len(steering') + Len(followUps') + CallsAhead' + TaskAhead' + RepairAhead'
                 + (MaxRuns - runs') + (MaxPushes - pushes')
  BY DEF Spare, Ahead
<1> DEFINE left == MaxRuns - runs'
           open1 == MaxPushes - pushes'
<1>5. left \in Nat /\ open1 \in Nat
  <2> DEFINE r == runs'
             p == pushes'
  <2>1. MaxRuns \in Nat /\ MaxPushes \in Nat /\ r \in 0..MaxRuns /\ p \in 0..MaxPushes
    BY <1>1
  <2> HIDE DEF r, p
  <2>2. MaxRuns - r \in Nat /\ MaxPushes - p \in Nat
    BY <2>1
  <2>3. QED  BY <2>2 DEF r, p
<1> DEFINE s == Len(steering')
           f == Len(followUps')
           c == CallsAhead'
           t == TaskAhead'
           u == RepairAhead'
<1>6. Spare' = s + f + c + t + u + left + open1
  BY <1>4
<1>7. s \in Nat /\ f \in Nat /\ c \in Nat /\ t \in Nat /\ u \in Nat
  BY <1>1, <1>3
<1> HIDE DEF s, f, c, t, u, left, open1
<1>8. s + f + c + t + u + left + open1 \in Nat
  BY <1>5, <1>7
<1>9. Spare' \in Nat
  BY <1>6, <1>8
<1>10. QED  BY <1>1, <1>3, <1>4, <1>5, <1>9 DEF left, open1

\* What is ahead before it.
LEMMA AheadNow ==
  ASSUME AgentType, CountsInv
  PROVE  /\ Len(steering) \in Nat /\ Len(followUps) \in Nat /\ Len(todo) \in Nat
         /\ CallsAhead \in Nat /\ TaskAhead \in Nat /\ RepairAhead \in Nat
         /\ MaxRuns - runs \in Nat /\ MaxPushes - pushes \in Nat
         /\ Spare = Len(steering) + Len(followUps) + CallsAhead + TaskAhead + RepairAhead
                      + (MaxRuns - runs) + (MaxPushes - pushes)
         /\ Spare \in Nat
<1>1. /\ MaxRuns \in Nat /\ MaxPushes \in Nat /\ runs \in 0..MaxRuns /\ pushes \in 0..MaxPushes
      /\ Len(steering) \in Nat /\ Len(followUps) \in Nat /\ Len(todo) \in Nat /\ memory \in Seq(Message)
  BY AgentAssumption DEF AgentType, CountsInv
<1> DEFINE missing == Unanswered(memory)
<1>2. missing \in Seq(CallIds)
  BY <1>1, UnansweredIsOpen
<1>3. CallsAhead \in Nat /\ TaskAhead \in Nat /\ RepairAhead \in Nat
  <2> HIDE DEF missing
  <2>1. Len(missing) \in Nat
    BY <1>2
  <2>2. QED  BY <1>1, <2>1 DEF missing, CallsAhead, TaskAhead, RepairAhead
<1>4. Spare = Len(steering) + Len(followUps) + CallsAhead + TaskAhead + RepairAhead
                + (MaxRuns - runs) + (MaxPushes - pushes)
  BY DEF Spare, Ahead
<1>5. MaxRuns - runs \in Nat /\ MaxPushes - pushes \in Nat
  BY <1>1
<1>6. QED  BY <1>1, <1>3, <1>4, <1>5

\* A run that ended in order leaves the reference nothing to repair.
LEMMA NothingToRepair ==
  ASSUME TAgentInv', MemoryInv(open)', pc' \notin {"batch", "tool"}, Orderly'
  PROVE  RepairAhead' = 0
<1>1. edition' = "rust-ref" => open' = {}
  BY DEF TAgentInv
<1>2. PICK old : old = open'
  OBVIOUS
<1>3. Sound(memory') /\ Settled(memory', old) /\ memory' \in Seq(Message)
  BY <1>2 DEF MemoryInv, TAgentInv, AgentType
<1>4. ASSUME edition' = "rust-ref" PROVE Len(Unanswered(memory')) = 0
  <2>1. Settled(memory', {})
    BY <1>1, <1>2, <1>3, <1>4
  <2>2. Unanswered(memory') = <<>>
    BY <1>3, <2>1, SettledUnanswered
  <2>3. QED  BY <2>2
<1>5. QED  BY <1>4 DEF RepairAhead

\* A run that ends within a batch leaves it what it had not answered yet.
LEMMA LeftToRepair ==
  ASSUME AgentType, MemoryInv(open), pc \in {"batch", "tool"}, todo # <<>>
  PROVE  Len(Unanswered(memory)) = Len(todo)
<1>1. PICK old : old = open
  OBVIOUS
<1>2. Answering(old) /\ Sound(memory)
  BY <1>1 DEF MemoryInv, Answering
<1>3. PICK a, k \in Nat : Pending(memory, old, a, k) /\ k + Len(todo) = Len(memory[a].uses)
  BY <1>2 DEF Answering
<1>4. Len(todo) \in Nat /\ Len(todo) > 0 /\ memory \in Seq(Message)
  BY DEF AgentType
<1> DEFINE n == Len(memory[a].uses)
<1>5. k < n /\ n = k + Len(todo)
  BY <1>3, <1>4
<1>6. Len(Unanswered(memory)) = n - k
  BY <1>2, <1>3, <1>4, <1>5, PendingUnanswered
<1> HIDE DEF n
<1>7. QED  BY <1>4, <1>5, <1>6

\* What is kept while a memory has room.
HeldInv == TAgentInv /\ HeardInv /\ MemoryInv(open) /\ RoomInv

\* The cancelled run's results take the places of its calls.
LEMMA CancelledRoom ==
  ASSUME HeldInv, Cancelled, pc \in {"turn", "request", "batch"}
  PROVE  Room(memory', Len(followUps) + (MaxRuns - runs) + (MaxPushes - pushes), limit)
<1> DEFINE ids == IdsOf(todo)
           s == Len(steering)
           f == Len(followUps)
           c == Len(todo)
           x == MaxRuns - runs
           y == MaxPushes - pushes
           n == f + x + y
<1>1. AgentType /\ CountsInv /\ MemoryInv(open) /\ Room(memory, Spare, limit)
  BY DEF HeldInv, TAgentInv, RoomInv
<1>2. limit \in LimitType /\ memory \in Seq(Message) /\ todo \in Seq(Call)
  BY <1>1 DEF AgentType
<1>3. ids \in Seq(CallIds) /\ Len(ids) = c
  BY <1>2, IdsOfFacts DEF IdsOf
<1>4. memory' = AddResults(memory, ids, limit)
  <2>1. [i \in DOMAIN todo |-> ToolResult(todo[i].id)] = Results(ids)
    BY DEF Results, IdsOf
  <2>2. QED  BY <2>1 DEF Cancelled, AddResults
<1>5. /\ s \in Nat /\ f \in Nat /\ c \in Nat /\ x \in Nat /\ y \in Nat /\ Spare \in Nat
      /\ CallsAhead \in Nat /\ TaskAhead \in Nat /\ RepairAhead \in Nat
      /\ Spare = s + f + CallsAhead + TaskAhead + RepairAhead + x + y
  BY <1>1, AheadNow
<1>6. CallsAhead = c
  <2>1. CASE pc = "batch"
    BY <2>1 DEF CallsAhead
  <2>2. CASE pc \in {"turn", "request"}
    <3>1. todo = <<>>
      BY <1>1, <2>2 DEF MemoryInv
    <3>2. QED  BY <2>2, <3>1 DEF CallsAhead
  <2>3. QED  BY <2>1, <2>2
<1> HIDE DEF ids, s, f, c, x, y
<1>7. n \in Nat /\ n + c \in Nat /\ n + c <= Spare
  BY <1>5, <1>6
<1> HIDE DEF n
<1>8. Room(memory, n + c, limit)
  BY <1>1, <1>2, <1>5, <1>7, RoomLess
<1>9. Room(memory', n, limit)
  BY <1>2, <1>3, <1>4, <1>7, <1>8, AddResultsRoom
<1>10. QED  BY <1>9 DEF n, f, x, y

\* A result takes the place of its call.
LEMMA AnsweredRoom ==
  ASSUME HeldInv, Answered, todo # <<>>, pc \in {"batch", "tool"}
  PROVE  Room(memory', Spare - 1, limit) /\ Spare - 1 \in Nat /\ Len(todo') = Len(todo) - 1
<1> DEFINE id == Head(todo).id
           result == ToolResult(id)
<1>1. AgentType /\ CountsInv /\ Room(memory, Spare, limit)
  BY DEF HeldInv, TAgentInv, RoomInv
<1>2. limit \in LimitType /\ memory \in Seq(Message) /\ todo \in Seq(Call)
  BY <1>1 DEF AgentType
<1>3. Head(todo) \in Call /\ Len(todo') = Len(todo) - 1 /\ Len(todo) \in Nat /\ Len(todo) > 0
  BY <1>2 DEF Answered
<1>4. id \in CallIds /\ memory' = Add(memory, result, limit)
  BY <1>3 DEF Call, Answered
<1> HIDE DEF id
<1>5. result \in Message /\ result.role = "user"
  BY <1>4 DEF ToolResult, Message, Texts
<1> HIDE DEF result
<1>6. CallsAhead = Len(todo)
  BY DEF CallsAhead
<1>7. Spare - 1 \in Nat /\ (Spare - 1) + 1 = Spare
  <2>1. /\ Spare \in Nat /\ Len(steering) \in Nat /\ Len(followUps) \in Nat /\ TaskAhead \in Nat /\ RepairAhead \in Nat
        /\ MaxRuns - runs \in Nat /\ MaxPushes - pushes \in Nat
        /\ Spare = Len(steering) + Len(followUps) + CallsAhead + TaskAhead + RepairAhead
                     + (MaxRuns - runs) + (MaxPushes - pushes)
    BY <1>1, AheadNow
  <2> DEFINE s == Len(steering)
             f == Len(followUps)
             x == MaxRuns - runs
             y == MaxPushes - pushes
             c == Len(todo)
  <2>2. c \in Nat /\ c > 0 /\ Spare = s + f + c + TaskAhead + RepairAhead + x + y
    BY <1>3, <1>6, <2>1
  <2> HIDE DEF s, f, x, y, c
  <2>3. Spare > 0
    <3>1. s \in Nat /\ f \in Nat /\ x \in Nat /\ y \in Nat
      BY <2>1 DEF s, f, x, y
    <3>2. QED  BY <2>1, <2>2, <3>1
  <2>4. QED  BY <2>1, <2>3
<1>8. Room(memory', Spare - 1, limit)
  BY <1>1, <1>2, <1>4, <1>5, <1>7, AddRoom
<1>9. QED  BY <1>3, <1>7, <1>8

\* A step of a run, or of the host, leaves room for what is then ahead.
LEMMA LoopStepRoom ==
  ASSUME HeldInv, Roomy, LoopStep, edition' = edition, TAgentInv', MemoryInv(open)', CountsInv'
  PROVE  Room(memory', Spare', limit)
<1> DEFINE s == Len(steering)
           f == Len(followUps)
           x == MaxRuns - runs
           y == MaxPushes - pushes
           s1 == Len(steering')
           f1 == Len(followUps')
           x1 == MaxRuns - runs'
           y1 == MaxPushes - pushes'
           now == Spare
           next == Spare'
           c == CallsAhead
           t == TaskAhead
           r == RepairAhead
           c1 == CallsAhead'
           t1 == TaskAhead'
           r1 == RepairAhead'
           n == Len(todo)
           n1 == Len(todo')
<1>1. AgentType /\ CountsInv /\ MemoryInv(open) /\ TAgentInv /\ HeardInv /\ RoomInv /\ Room(memory, now, limit)
  BY DEF HeldInv, TAgentInv, RoomInv
<1>2. AgentType'
  BY DEF TAgentInv
<1>3. limit \in LimitType /\ memory \in Seq(Message) /\ memory' \in Seq(Message) /\ steering \in Seq(Texts) /\ followUps \in Seq(Texts)
  BY <1>1, <1>2 DEF AgentType
<1>4. /\ s \in Nat /\ f \in Nat /\ x \in Nat /\ y \in Nat /\ c \in Nat /\ t \in Nat /\ r \in Nat /\ n \in Nat
      /\ now = s + f + c + t + r + x + y /\ now \in Nat
  BY <1>1, AheadNow
<1>5. /\ s1 \in Nat /\ f1 \in Nat /\ x1 \in Nat /\ y1 \in Nat /\ c1 \in Nat /\ t1 \in Nat /\ r1 \in Nat /\ n1 \in Nat
      /\ next = s1 + f1 + c1 + t1 + r1 + x1 + y1 /\ next \in Nat
  BY <1>2, AheadNext
<1>6. TurnFits /\ (limit # NoLimit => limit > 0)
  <2>1. TurnFits
    BY <1>1, RoomHoldsTurn
  <2>2. QED  BY <1>1, <2>1 DEF Room
<1>7. /\ c = IF pc \in {"batch", "tool"} THEN n ELSE 0
      /\ t = IF pc = "compact" THEN 1 ELSE 0
      /\ r = IF pc = "idle" /\ edition = "rust-ref" THEN Len(Unanswered(memory)) ELSE 0
      /\ c1 = IF pc' \in {"batch", "tool"} THEN n1 ELSE 0
      /\ t1 = IF pc' = "compact" THEN 1 ELSE 0
      /\ r1 = IF pc' = "idle" /\ edition' = "rust-ref" THEN Len(Unanswered(memory')) ELSE 0
  BY DEF CallsAhead, TaskAhead, RepairAhead
<1>8. pc' \notin {"batch", "tool"} /\ Orderly' => r1 = 0
  BY NothingToRepair
<1>9. \A m \in Nat : Room(memory', m, limit) /\ next <= m => Room(memory', next, limit)
  BY <1>3, <1>5, RoomLess
<1>10. /\ (runs' = runs => x1 = x) /\ (pushes' = pushes => y1 = y)
       /\ (steering' = steering => s1 = s) /\ (followUps' = followUps => f1 = f) /\ (todo' = todo => n1 = n)
       /\ (steering' = <<>> => s1 = 0) /\ (followUps' = <<>> => f1 = 0)
  OBVIOUS
<1> DEFINE rest == f + x + y
<1>11. Cancelled /\ pc \in {"turn", "request", "batch"} => Room(memory', rest, limit)
  BY CancelledRoom
<1>12. Answered /\ todo # <<>> /\ pc \in {"batch", "tool"} => Room(memory', now - 1, limit) /\ now - 1 \in Nat /\ n1 = n - 1
  BY AnsweredRoom
<1> SUFFICES Room(memory', next, limit)
  OBVIOUS
<1> HIDE DEF s, f, x, y, s1, f1, x1, y1, now, next, c, t, r, c1, t1, r1, n, n1
<1>13. ASSUME Cancelled, pc \in {"turn", "request", "batch"}, runs' = runs, pushes' = pushes, followUps' = followUps
       PROVE  Room(memory', next, limit)
  <2>1. pc' = "idle" /\ outcome' = "cancelled" /\ steering' = <<>>
    BY <1>13 DEF Cancelled, Leave
  <2>2. s1 = 0 /\ f1 = f /\ c1 = 0 /\ t1 = 0 /\ r1 = 0 /\ x1 = x /\ y1 = y
    BY <1>7, <1>8, <1>10, <1>13, <2>1 DEF Orderly
  <2>3. rest \in Nat /\ next <= rest
    BY <1>4, <1>5, <2>2
  <2>4. Room(memory', rest, limit)
    BY <1>11, <1>13
  <2> HIDE DEF rest
  <2>5. QED  BY <1>9, <2>3, <2>4
<1>14. ASSUME memory' = memory, next <= now PROVE Room(memory', next, limit)
  <2>1. Room(memory', now, limit) /\ now \in Nat
    BY <1>1, <1>4, <1>14
  <2>2. QED  BY <1>9, <1>14, <2>1
<1>15. CASE Prepare
  <2> DEFINE task == Human("task")
  <2>1. /\ pc = "compact" /\ pc' = "turn" /\ UNCHANGED <<runs, pushes, steering, followUps>>
    BY <1>15 DEF Prepare, hostVars
  <2>2. PICK start \in {memory} \cup Compactions(memory, limit) : memory' = Add(start, task, limit)
    BY <1>15 DEF Prepare
  <2>3. task \in Message /\ task.role = "user"
    BY DEF Human, Message, Texts
  <2>4. start \in Seq(Message) /\ Room(start, now, limit)
    <3>1. CASE start = memory
      BY <1>1, <1>3, <3>1
    <3>2. CASE start \in Compactions(memory, limit)
      <4>1. start \in Seq(Message) /\ Fits(memory, limit)
        BY <1>1, <1>3, <3>2, CompactionFacts DEF AgentType
      <4>2. PICK k \in 1..Len(memory) : Part(start, memory, k, 1)
        BY <1>3, <1>6, <3>2, <4>1, CompactPart
      <4>3. k \in Nat /\ 1 \in Nat
        BY <1>3
      <4>4. QED  BY <1>1, <1>3, <1>4, <4>1, <4>2, <4>3, PartRoom
    <3>3. QED  BY <2>2, <3>1, <3>2
  <2>5. t = 1 /\ t1 = 0 /\ c = 0 /\ c1 = 0 /\ r = 0 /\ r1 = 0 /\ s1 = s /\ f1 = f /\ x1 = x /\ y1 = y
    BY <1>7, <1>10, <2>1
  <2>6. next + 1 = now
    BY <1>4, <1>5, <2>5
  <2> HIDE DEF task
  <2>7. Room(start, next + 1, limit)
    BY <2>4, <2>6
  <2>8. QED  BY <1>3, <1>5, <2>2, <2>3, <2>4, <2>7, AddRoom
<1>16. CASE BeginTurn
  <2>1. pc = "turn" /\ UNCHANGED <<runs, pushes, followUps>>
    BY <1>16 DEF BeginTurn
  <2>2. c = 0 /\ t = 0 /\ r = 0 /\ f1 = f /\ x1 = x /\ y1 = y
    BY <1>7, <1>10, <2>1
  <2>3. CASE pc' = "idle" /\ outcome' = "max" /\ memory' = memory /\ steering' = steering
    <3>1. c1 = 0 /\ t1 = 0 /\ r1 = 0 /\ s1 = s
      BY <1>7, <1>8, <1>10, <2>3 DEF Orderly
    <3>2. next <= now
      BY <1>4, <1>5, <2>2, <3>1
    <3>3. QED  BY <1>14, <2>3, <3>2
  <2>4. CASE Cancelled
    BY <1>13, <2>1, <2>4
  <2>5. CASE memory' = AddAll(memory, HumanAll(steering), limit) /\ steering' = <<>> /\ pc' = "request"
    <3>1. c1 = 0 /\ t1 = 0 /\ r1 = 0 /\ s1 = 0
      BY <1>7, <1>10, <2>5
    <3>2. next + s = now
      BY <1>4, <1>5, <2>2, <3>1
    <3>3. Room(memory, next + Len(steering), limit)
      BY <1>1, <3>2 DEF s
    <3>4. QED  BY <1>3, <1>5, <2>5, <3>3, AddHumansRoom
  <2>6. QED  BY <1>16, <2>3, <2>4, <2>5 DEF BeginTurn, Leave
<1>17. CASE \E overflow \in BOOLEAN : RequestFails(overflow)
  <2>1. pc = "request" /\ memory' = memory /\ UNCHANGED <<runs, pushes, steering, followUps>>
    BY <1>17 DEF RequestFails, hostVars
  <2>2. pc' = "recover" \/ (pc' = "idle" /\ outcome' = "failed")
    BY <1>17 DEF RequestFails, Leave
  <2>3. c = 0 /\ t = 0 /\ r = 0 /\ c1 = 0 /\ t1 = 0 /\ r1 = 0 /\ s1 = s /\ f1 = f /\ x1 = x /\ y1 = y
    BY <1>7, <1>8, <1>10, <2>1, <2>2 DEF Orderly
  <2>4. next <= now
    BY <1>4, <1>5, <2>3
  <2>5. QED  BY <1>14, <2>1, <2>4
<1>18. CASE Recover
  <2>1. pc = "recover" /\ UNCHANGED <<runs, pushes, steering, followUps>>
    BY <1>18 DEF Recover, hostVars
  <2>2. \/ memory' \in Compactions(memory, limit) /\ pc' = "request"
        \/ memory' = memory /\ pc' = "idle" /\ outcome' = "failed"
    BY <1>18 DEF Recover, Leave
  <2>3. c = 0 /\ t = 0 /\ r = 0 /\ c1 = 0 /\ t1 = 0 /\ r1 = 0 /\ s1 = s /\ f1 = f /\ x1 = x /\ y1 = y
    BY <1>7, <1>8, <1>10, <2>1, <2>2 DEF Orderly
  <2>4. next = now
    BY <1>4, <1>5, <2>3
  <2>5. CASE memory' \in Compactions(memory, limit)
    <3>1. Fits(memory, limit)
      BY <1>1 DEF AgentType
    <3>2. PICK k \in 1..Len(memory) : Part(memory', memory, k, 1)
      BY <1>3, <1>6, <2>5, <3>1, CompactPart
    <3>3. k \in Nat /\ 1 \in Nat
      BY <1>3
    <3>4. QED  BY <1>1, <1>3, <1>4, <2>4, <3>2, <3>3, PartRoom
  <2>6. CASE memory' = memory
    BY <1>4, <1>14, <2>4, <2>6
  <2>7. QED  BY <2>2, <2>5, <2>6
<1>19. CASE \E keys \in Batches : WantsTools(keys)
  <2>1. PICK keys \in Batches : WantsTools(keys)
    BY <1>19
  <2>2. pc = "request" /\ UNCHANGED <<runs, pushes, followUps>>
    BY <2>1 DEF WantsTools
  <2>3. CASE Cancelled
    BY <1>13, <2>2, <2>3
  <2>4. CASE /\ memory' = Add(memory, ToolUses(Fresh(Len(keys))), limit)
             /\ todo' = [i \in DOMAIN keys |-> [id |-> Fresh(Len(keys))[i], key |-> keys[i]]]
             /\ pc' = "batch" /\ steering' = steering /\ Unused(Len(keys)) # {}
    <3> DEFINE b == Len(keys)
               uses == ToolUses(Fresh(b))
    <3>1. keys \in Seq(Keys) /\ b \in Nat /\ DOMAIN keys = 1..b
      BY AgentAssumption
    <3>2. n1 = b
      BY <2>4, <3>1 DEF n1
    <3>3. uses \in Message /\ uses.role = "assistant"
      <4>1. Fresh(b) \in Seq(CallIds)
        BY <2>4, <3>1, FreshFacts
      <4>2. QED  BY <4>1 DEF ToolUses, Message, Texts
    <3>4. memory' = Add(memory, uses, limit)
      BY <2>4
    <3> HIDE DEF b, uses
    <3>5. c1 = b /\ t1 = 0 /\ r1 = 0 /\ s1 = s /\ f1 = f /\ x1 = x /\ y1 = y
      BY <1>7, <1>10, <2>2, <2>4, <3>2
    <3>6. next = s + f + b + x + y
      BY <1>4, <1>5, <3>1, <3>5
    <3>7. ASSUME limit # NoLimit PROVE 1 + next <= 2 * limit
      <4>1. limit \in Nat /\ b + MaxRuns + MaxPushes <= 2 * limit
        BY <1>1, <1>3, <3>7 DEF Roomy, LimitType, CountsInv, b
      <4>2. s + f <= pushes /\ runs > 0 /\ pushes \in Nat /\ runs \in Nat /\ x = MaxRuns - runs /\ y = MaxPushes - pushes
            /\ MaxRuns \in Nat /\ MaxPushes \in Nat
        BY <1>1, <2>2, AgentAssumption DEF CountsInv, s, f, x, y
      <4>3. QED  BY <1>4, <3>1, <3>6, <4>1, <4>2
    <3>8. QED  BY <1>3, <1>5, <3>3, <3>4, <3>7, AddRoom
  <2>5. QED  BY <2>1, <2>3, <2>4 DEF WantsTools
<1>20. CASE Answers
  <2>1. pc = "request" /\ UNCHANGED <<runs, pushes>>
    BY <1>20 DEF Answers
  <2>2. CASE Cancelled /\ followUps' = followUps
    BY <1>13, <2>1, <2>2
  <2>3. CASE /\ memory' = AddAll(Add(memory, Answer, limit), HumanAll(followUps), limit)
             /\ followUps' = <<>> /\ steering' = steering
             /\ pc' = "turn" \/ (pc' = "idle" /\ outcome' = "done")
    <3> DEFINE answered == Add(memory, Answer, limit)
    <3>1. c1 = 0 /\ t1 = 0 /\ r1 = 0 /\ s1 = s /\ f1 = 0 /\ x1 = x /\ y1 = y
      BY <1>7, <1>8, <1>10, <2>1, <2>3 DEF Orderly
    <3>2. next + f = s + f + x + y
      BY <1>4, <1>5, <3>1
    <3>3. ASSUME limit # NoLimit PROVE 1 + (next + f) <= 2 * limit
      <4>1. limit \in Nat /\ 1 + MaxRuns + MaxPushes <= 2 * limit
        BY <1>1, <1>3, <3>3 DEF Roomy, LimitType, CountsInv
      <4>2. s + f <= pushes /\ runs > 0 /\ pushes \in Nat /\ runs \in Nat /\ x = MaxRuns - runs /\ y = MaxPushes - pushes
            /\ MaxRuns \in Nat /\ MaxPushes \in Nat
        BY <1>1, <2>1, AgentAssumption DEF CountsInv, s, f, x, y
      <4>3. QED  BY <1>4, <3>2, <4>1, <4>2
    <3>4. Answer \in Message /\ Answer.role = "assistant"
      BY DEF Answer, Message, Texts
    <3>5. answered \in Seq(Message)
      BY <1>3, <3>4, AddFacts
    <3>6. next + f \in Nat
      BY <1>4, <1>5
    <3>7. Room(answered, next + f, limit)
      BY <1>3, <3>3, <3>4, <3>6, AddRoom
    <3> HIDE DEF answered
    <3>8. Room(answered, next + Len(followUps), limit)
      BY <3>7 DEF f
    <3>9. memory' = AddAll(answered, HumanAll(followUps), limit)
      BY <2>3 DEF answered
    <3>10. QED  BY <1>3, <1>5, <3>5, <3>8, <3>9, AddHumansRoom
  <2>4. QED  BY <1>20, <2>2, <2>3 DEF Answers, Leave
<1>21. CASE BatchDone
  <2>1. pc = "batch" /\ pc' = "turn" /\ memory' = memory /\ UNCHANGED <<runs, pushes, steering, followUps>>
    BY <1>21 DEF BatchDone, hostVars
  <2>2. t = 0 /\ r = 0 /\ c1 = 0 /\ t1 = 0 /\ r1 = 0 /\ s1 = s /\ f1 = f /\ x1 = x /\ y1 = y
    BY <1>7, <1>10, <2>1
  <2>3. next <= now
    BY <1>4, <1>5, <2>2
  <2>4. QED  BY <1>14, <2>1, <2>3
<1>22. CASE BatchCancelled
  BY <1>13, <1>22 DEF BatchCancelled
<1>23. ASSUME Answered, todo # <<>>, pc \in {"batch", "tool"}, pc' = "batch", UNCHANGED <<runs, pushes, steering, followUps>>
       PROVE  Room(memory', next, limit)
  <2>1. Room(memory', now - 1, limit) /\ now - 1 \in Nat /\ n1 = n - 1
    BY <1>12, <1>23
  <2>2. c = n /\ t = 0 /\ r = 0 /\ c1 = n1 /\ t1 = 0 /\ r1 = 0 /\ s1 = s /\ f1 = f /\ x1 = x /\ y1 = y
    BY <1>7, <1>10, <1>23
  <2>3. next = now - 1
    BY <1>4, <1>5, <2>1, <2>2
  <2>4. QED  BY <2>1, <2>3
<1>24. CASE NextCall
  <2>1. pc = "batch" /\ todo # <<>> /\ UNCHANGED <<runs, pushes, steering, followUps>>
    BY <1>24 DEF NextCall, hostVars
  <2>2. CASE Answered /\ pc' = pc
    BY <1>23, <2>1, <2>2
  <2>3. CASE pc' \in {"idle", "tool"} /\ memory' = memory /\ todo' = todo
    <3>1. Len(Unanswered(memory)) = n
      BY <1>1, <2>1, LeftToRepair DEF n
    <3>2. c = n /\ t = 0 /\ r = 0 /\ t1 = 0 /\ s1 = s /\ f1 = f /\ x1 = x /\ y1 = y /\ n1 = n
      BY <1>7, <1>10, <2>1, <2>3
    <3>3. c1 + r1 <= n
      <4>1. CASE pc' = "idle"
        <5>1. c1 = 0 /\ (r1 = n \/ r1 = 0)
          BY <1>7, <2>3, <3>1, <4>1
        <5>2. QED  BY <1>4, <5>1
      <4>2. CASE pc' = "tool"
        <5>1. c1 = n /\ r1 = 0
          BY <1>7, <3>2, <4>2
        <5>2. QED  BY <1>4, <5>1
      <4>3. QED  BY <2>3, <4>1, <4>2
    <3>4. next <= now
      BY <1>4, <1>5, <3>2, <3>3
    <3>5. QED  BY <1>14, <2>3, <3>4
  <2>4. QED  BY <1>24, <2>2, <2>3 DEF NextCall, Leave
<1>25. CASE ToolReturns
  <2>1. pc = "tool" /\ pc' = "batch" /\ Answered /\ UNCHANGED <<runs, pushes, steering, followUps>>
    BY <1>25 DEF ToolReturns, hostVars
  <2>2. todo # <<>>
    BY <1>1, <2>1 DEF AgentType
  <2>3. QED  BY <1>23, <2>1, <2>2
<1>26. CASE Steer \/ FollowUp
  <2>1. memory' = memory /\ pc' = pc /\ todo' = todo /\ runs' = runs /\ pushes' = pushes + 1
    BY <1>26 DEF Steer, FollowUp, loopVars
  <2>2. c1 = c /\ t1 = t /\ r1 = r /\ x1 = x
    BY <1>7, <1>10, <2>1
  <2>3. s1 + f1 = s + f + 1
    <3>1. \/ steering' = Append(steering, "steer") /\ followUps' = followUps
          \/ steering' = steering /\ followUps' = Append(followUps, "follow")
      BY <1>26 DEF Steer, FollowUp
    <3>2. Len(Append(steering, "steer")) = s + 1 /\ Len(Append(followUps, "follow")) = f + 1
      BY <1>3 DEF s, f
    <3>3. CASE steering' = Append(steering, "steer") /\ followUps' = followUps
      <4>1. s1 = s + 1 /\ f1 = f
        BY <1>10, <3>2, <3>3 DEF s1
      <4>2. QED  BY <1>4, <4>1
    <3>4. CASE steering' = steering /\ followUps' = Append(followUps, "follow")
      <4>1. s1 = s /\ f1 = f + 1
        BY <1>10, <3>2, <3>4 DEF f1
      <4>2. QED  BY <1>4, <4>1
    <3>5. QED  BY <3>1, <3>3, <3>4
  <2>4. y1 = y - 1
    <3>1. MaxPushes \in Nat /\ pushes \in Nat
      BY <1>1, AgentAssumption DEF CountsInv
    <3>2. QED  BY <2>1, <3>1 DEF y, y1
  <2>5. next <= now
    BY <1>4, <1>5, <2>2, <2>3, <2>4
  <2>6. QED  BY <1>14, <2>1, <2>5
<1>27. CASE Cancel
  <2>1. memory' = memory /\ pc' = pc /\ UNCHANGED <<todo, runs, pushes, steering, followUps>>
    BY <1>27 DEF Cancel, loopVars
  <2>2. c1 = c /\ t1 = t /\ r1 = r /\ s1 = s /\ f1 = f /\ x1 = x /\ y1 = y
    BY <1>7, <1>10, <2>1
  <2>3. next <= now
    BY <1>4, <1>5, <2>2
  <2>4. QED  BY <1>14, <2>1, <2>3
<1>28. CASE DropRun
  <2>1. memory' = memory /\ pc' = "idle" /\ pc \in {"compact", "request", "recover", "tool"} /\ UNCHANGED <<runs, pushes, steering, followUps>>
    BY <1>28 DEF DropRun, Leave, hostVars
  <2>2. c1 = 0 /\ t1 = 0 /\ s1 = s /\ f1 = f /\ x1 = x /\ y1 = y /\ r = 0
    BY <1>7, <1>10, <2>1
  <2>3. r1 <= c
    <3>1. CASE pc = "tool"
      <4>1. todo # <<>>
        BY <1>1, <3>1 DEF AgentType
      <4>2. Len(Unanswered(memory)) = n
        BY <1>1, <3>1, <4>1, LeftToRepair DEF n
      <4>3. c = n /\ (r1 = n \/ r1 = 0)
        BY <1>7, <2>1, <3>1, <4>2
      <4>4. QED  BY <1>4, <4>3
    <3>2. CASE pc # "tool"
      <4>1. PICK old : old = open
        OBVIOUS
      <4>2. Sound(memory) /\ Settled(memory, old)
        BY <1>1, <2>1, <3>2, <4>1 DEF MemoryInv, Orderly
      <4>3. edition = "rust-ref" => old = {}
        BY <1>1, <4>1 DEF TAgentInv
      <4>4. edition = "rust-ref" => Len(Unanswered(memory)) = 0
        <5>1. ASSUME edition = "rust-ref" PROVE Unanswered(memory) = <<>>
          BY <1>3, <4>2, <4>3, <5>1, SettledUnanswered
        <5>2. QED  BY <5>1
      <4>5. r1 = 0
        BY <1>7, <2>1, <4>4
      <4>6. QED  BY <1>4, <4>5
    <3>3. QED  BY <3>1, <3>2
  <2>4. next <= now
    BY <1>4, <1>5, <2>2, <2>3
  <2>5. QED  BY <1>14, <2>1, <2>4
<1>29. QED
  BY <1>15, <1>16, <1>17, <1>18, <1>19, <1>20, <1>21, <1>22, <1>24, <1>25, <1>26, <1>27, <1>28 DEF LoopStep, Run

\* A new run has a place for its task, the reference's repair has its own.
LEMMA StartRoom ==
  ASSUME HeldInv, AgentType', CountsInv', edition' = edition,
         \/ edition = "rust-ref" /\ StartOn(Repair(memory, limit))
         \/ edition = "a2r" /\ StartOn(memory)
  PROVE  Room(memory', Spare', limit)
<1> DEFINE s == Len(steering)
           f == Len(followUps)
           x == MaxRuns - runs
           y == MaxPushes - pushes
           x1 == MaxRuns - runs'
           now == Spare
           next == Spare'
           r == RepairAhead
           missing == Unanswered(memory)
<1>1. AgentType /\ CountsInv /\ Room(memory, now, limit)
  BY DEF HeldInv, TAgentInv, RoomInv
<1>2. limit \in LimitType /\ memory \in Seq(Message) /\ memory' \in Seq(Message)
  BY <1>1 DEF AgentType
<1>3. /\ pc = "idle" /\ pc' = "compact" /\ runs' = runs + 1
      /\ steering' = steering /\ followUps' = followUps /\ pushes' = pushes
  BY DEF StartOn
<1>4. missing \in Seq(CallIds)
  BY <1>2, UnansweredIsOpen
<1>5. /\ s \in Nat /\ f \in Nat /\ x \in Nat /\ y \in Nat /\ r \in Nat /\ now \in Nat
      /\ now = s + f + r + x + y
  <2>1. CallsAhead = 0 /\ TaskAhead = 0
    BY <1>3 DEF CallsAhead, TaskAhead
  <2>2. /\ s \in Nat /\ f \in Nat /\ x \in Nat /\ y \in Nat /\ r \in Nat /\ now \in Nat
        /\ now = s + f + CallsAhead + TaskAhead + r + x + y
    BY <1>1, AheadNow
  <2> HIDE DEF s, f, x, y, r, now
  <2>3. QED  BY <2>1, <2>2
<1>6. x1 \in Nat /\ next \in Nat /\ next = s + f + 1 + x1 + y
  <2>1. CallsAhead' = 0 /\ TaskAhead' = 1 /\ RepairAhead' = 0
    BY <1>3 DEF CallsAhead, TaskAhead, RepairAhead
  <2>2. x1 \in Nat /\ next \in Nat /\ next = s + f + CallsAhead' + TaskAhead' + RepairAhead' + x1 + y
    BY <1>3, AheadNext
  <2> HIDE DEF s, f, x1, y, next
  <2>3. QED  BY <1>5, <2>1, <2>2 DEF s, f, y
<1>7. x = x1 + 1
  <2>1. MaxRuns \in Nat /\ runs \in Nat
    BY <1>1, AgentAssumption DEF CountsInv
  <2>2. QED  BY <1>3, <2>1
<1>8. r = IF edition = "rust-ref" THEN Len(missing) ELSE 0
  BY <1>3 DEF RepairAhead
<1> SUFFICES Room(memory', next, limit)
  OBVIOUS
<1> HIDE DEF s, f, x, y, x1, now, next, r, missing
<1>9. next + r = now
  BY <1>5, <1>6, <1>7
<1>10. CASE edition = "rust-ref" /\ StartOn(Repair(memory, limit))
  <2>1. memory' = AddResults(memory, missing, limit)
    BY <1>10 DEF StartOn, Repair, AddResults, Results, missing
  <2>2. Room(memory, next + Len(missing), limit)
    BY <1>1, <1>8, <1>9, <1>10
  <2>3. QED  BY <1>2, <1>4, <1>6, <2>1, <2>2, AddResultsRoom
<1>11. CASE edition = "a2r" /\ StartOn(memory)
  <2>1. memory' = memory
    BY <1>11 DEF StartOn
  <2>2. next = now
    BY <1>5, <1>6, <1>8, <1>9, <1>11
  <2>3. QED  BY <1>1, <2>1, <2>2
<1>12. QED  BY <1>10, <1>11

\* A step of either edition.
LEMMA HeldStep ==
  ASSUME HeldInv, Roomy, [TNext]_tvars, TAgentInv'
  PROVE  HeldInv'
<1>1. TAgentInv /\ HeardInv /\ MemoryInv(open) /\ RoomInv /\ AgentType /\ CountsInv
  BY DEF HeldInv, TAgentInv, RoomInv
<1>2. TurnFits
  BY <1>1, RoomHoldsTurn
<1>3. HeardInv' /\ MemoryInv(open)'
  BY <1>1, <1>2, TAgentHeard, TAgentSound
<1>4. CASE TNext
  <2>1. CountsInv'
    BY <1>1, <1>4, CountsStep
  <2>2. edition' = edition /\ limit' = limit
    <3>1. edition' = edition
      BY <1>4, EditionStep
    <3>2. limit' = limit
      BY <1>4, EditionStep DEF LoopStep, Run, Prepare, BeginTurn, RequestFails, Recover, WantsTools, Answers, BatchDone,
                               BatchCancelled, NextCall, ToolReturns, Steer, FollowUp, Cancel, DropRun, StartOn
    <3>3. QED  BY <3>1, <3>2
  <2>3. AgentType'
    BY DEF TAgentInv
  <2>4. Room(memory', Spare', limit)
    <3>1. CASE LoopStep
      BY <1>3, <2>1, <2>2, <3>1, LoopStepRoom
    <3>2. CASE \/ edition = "rust-ref" /\ StartOn(Repair(memory, limit))
               \/ edition = "a2r" /\ StartOn(memory)
      BY <2>1, <2>2, <2>3, <3>2, StartRoom
    <3>3. QED  BY <1>4, <3>1, <3>2, EditionStep
  <2>5. RoomInv'
    BY <2>1, <2>2, <2>4 DEF RoomInv
  <2>6. QED  BY <1>3, <2>5 DEF HeldInv
<1>5. CASE UNCHANGED tvars
  <2>1. UNCHANGED <<limit, memory, steering, followUps, pushes, pc, todo, runs, owed, edition>>
    BY <1>5 DEF tvars, vars, hostVars, loopVars
  <2>2. RoomInv'
    BY <1>1, <2>1 DEF RoomInv, CountsInv, Spare, Ahead, CallsAhead, TaskAhead, RepairAhead
  <2>3. QED  BY <1>3, <2>2 DEF HeldInv
<1>6. QED  BY <1>4, <1>5

\* An empty memory has room.
LEMMA HeldInit ==
  ASSUME TInit, Roomy, TAgentInv PROVE HeldInv
<1>1. /\ memory = <<>> /\ steering = <<>> /\ followUps = <<>> /\ owed = <<>> /\ pc = "idle" /\ pushes = 0 /\ runs = 0
      /\ limit \in Limits
  BY DEF TInit, Init
<1>2. MaxRuns \in Nat /\ MaxPushes \in Nat /\ limit \in LimitType /\ <<>> \in Seq(Texts)
  BY AgentAssumption DEF TAgentInv, AgentType
<1>3. CountsInv
  BY <1>1, <1>2 DEF CountsInv
<1>4. Room(memory, Spare, limit)
  <2>1. limit # NoLimit => limit > 0
    BY <1>1, <1>2 DEF Roomy, LimitType
  <2>2. Len(memory) = 0
    BY <1>1
  <2>3. QED  BY <2>1, <2>2 DEF Room
<1>5. QED  BY <1>3, <1>4, HeardInit, MemoryInit DEF HeldInv, RoomInv

\* If every limited memory has the room for a batch, or a text answer, and behind
\* it every run's task and every pushed message, it holds the last turn whatever
\* happens.
THEOREM TurnsFit ==
  ASSUME Roomy PROVE TSpec => []TurnFits
<1>1. TAgentInv /\ TInit => HeldInv
  BY HeldInit
<1>2. TAgentInv' /\ HeldInv /\ [TNext]_tvars => HeldInv'
  BY HeldStep
<1>3. HeldInv => TurnFits
  <2>1. ASSUME HeldInv PROVE TurnFits
    BY <2>1, RoomHoldsTurn DEF HeldInv, TAgentInv
  <2>2. QED  BY <2>1
<1>4. QED  BY <1>1, <1>2, <1>3, AgentInvariant, PTL DEF TSpec

\* Then what the user says is heard by the model it is asked of, with nothing
\* assumed of the behaviour.
COROLLARY RoomyIsHeard ==
  ASSUME Roomy PROVE TSpec => []HumanHeard
<1>1. TSpec => []TurnFits
  BY TurnsFit
<1>2. QED  BY <1>1, UserIsHeard, PTL

\* And both kinds of provider accept every request.
COROLLARY RoomyIsAccepted ==
  ASSUME Roomy PROVE TSpec => []ProvidersAccept
<1>1. TSpec => []TurnFits
  BY TurnsFit
<1>2. QED  BY <1>1, RequestsAccepted, PTL

==============================================================================
