--------------------------- MODULE StreamBridge_proof ---------------------------
(***************************************************************************)
(* Proofs about a streamed completion, in both editions of daemon and      *)
(* client, for every size of channel and connection, any timeouts and any  *)
(* number of events and candidates: text arrives in order, the end of the  *)
(* body follows the tail frame, a tool call is taken for what it was, and  *)
(* no text is lost but at a full channel or with a chunk thrown away.      *)
(***************************************************************************)
EXTENDS TranspiledStream, FiniteSetTheorems, TLAPS

-----------------------------------------------------------------------------
(* Frames on their way: accumulated text, connection, channel *)

FrameTypes == {"delta", "reasoning", "warning", "done", "error"}
Frames == [type : FrameTypes, n : Nat]
IsText(f) == f.type \in {"delta", "reasoning", "warning"}

\* The texts of seq have growing numbers, all at most top.
Growing(seq, top) ==
  /\ \A i, j \in 1..Len(seq) : i < j /\ IsText(seq[i]) /\ IsText(seq[j]) => seq[i].n < seq[j].n
  /\ \A i \in 1..Len(seq) : IsText(seq[i]) => 0 < seq[i].n /\ seq[i].n <= top

\* What has been read comes before what is on the connection, and that before
\* what is in the channel.
Ordered(read, on, behind, top) ==
  /\ read \in Seq(Nat) /\ on \in Seq(Frames) /\ behind \in Seq(Frames)
  /\ \A i, j \in 1..Len(read) : i < j /\ read[i] # 0 /\ read[j] # 0 => read[i] < read[j]
  /\ \A i \in 1..Len(read) : read[i] <= top
  /\ Growing(on, top) /\ Growing(behind, top)
  /\ \A i \in 1..Len(read), j \in 1..Len(on) : IsText(on[j]) => read[i] < on[j].n
  /\ \A i \in 1..Len(read), j \in 1..Len(behind) : IsText(behind[j]) => read[i] < behind[j].n
  /\ \A i \in 1..Len(on), j \in 1..Len(behind) : IsText(on[i]) /\ IsText(behind[j]) => on[i].n < behind[j].n

\* A sequence with one more at its end, or without its head.
LEMMA AppendFacts ==
  ASSUME NEW S, NEW s \in Seq(S), NEW e \in S
  PROVE  /\ Append(s, e) \in Seq(S) /\ Len(Append(s, e)) = Len(s) + 1 /\ Len(s) \in Nat
         /\ Append(s, e)[Len(s) + 1] = e
         /\ \A i \in 1..Len(s) : Append(s, e)[i] = s[i]
         /\ \A i \in 1..Len(s) + 1 : i \in 1..Len(s) \/ i = Len(s) + 1
  OBVIOUS

\* What is left when the first element is taken.
LEMMA TailFacts ==
  ASSUME NEW S, NEW s \in Seq(S), s # <<>>
  PROVE  /\ Head(s) \in S /\ Head(s) = s[1] /\ 1 \in 1..Len(s)
         /\ Tail(s) \in Seq(S) /\ Len(s) \in Nat /\ Len(Tail(s)) = Len(s) - 1
         /\ \A i \in 1..Len(Tail(s)) : Tail(s)[i] = s[i + 1] /\ i + 1 \in 1..Len(s)
  OBVIOUS

\* A frame is put into the channel.
LEMMA PutOrdered ==
  ASSUME NEW read, NEW on, NEW behind, NEW top \in Nat, NEW above \in Nat, Ordered(read, on, behind, top),
         top <= above, NEW f \in Frames, IsText(f) => top < f.n /\ f.n <= above
  PROVE  Ordered(read, on, Append(behind, f), above)
<1> DEFINE more == Append(behind, f)
           n == Len(behind)
<1>1. /\ read \in Seq(Nat) /\ on \in Seq(Frames) /\ behind \in Seq(Frames)
      /\ \A i \in 1..Len(read) : read[i] \in Nat
      /\ \A i \in 1..Len(on) : on[i].n \in Nat
      /\ \A i \in 1..Len(behind) : behind[i].n \in Nat
      /\ f.n \in Nat
  <2>1. read \in Seq(Nat) /\ on \in Seq(Frames) /\ behind \in Seq(Frames)
    BY DEF Ordered
  <2>2. \A e \in Frames : e.n \in Nat
    BY DEF Frames
  <2>3. (\A i \in 1..Len(on) : on[i] \in Frames) /\ (\A i \in 1..Len(behind) : behind[i] \in Frames)
    BY <2>1
  <2>4. QED  BY <2>1, <2>2, <2>3
<1>2. /\ more \in Seq(Frames) /\ Len(more) = n + 1 /\ n \in Nat /\ more[n + 1] = f
      /\ \A i \in 1..n : more[i] = behind[i]
      /\ \A i \in 1..n + 1 : i \in 1..n \/ i = n + 1
  BY <1>1, AppendFacts
<1> HIDE DEF more, n
<1>3. Growing(more, above)
  <2>1. ASSUME NEW i \in 1..n + 1, NEW j \in 1..n + 1, i < j, IsText(more[i]), IsText(more[j])
        PROVE  more[i].n < more[j].n
    <3>1. i \in 1..n
      BY <1>2, <2>1
    <3>2. CASE j \in 1..n
      BY <1>2, <2>1, <3>1, <3>2 DEF Ordered, Growing, n
    <3>3. CASE j = n + 1
      <4>1. behind[i].n <= top /\ top < f.n
        BY <1>2, <2>1, <3>1, <3>3 DEF Ordered, Growing, n
      <4>2. QED  BY <1>1, <1>2, <3>1, <3>3, <4>1 DEF n
    <3>4. QED  BY <1>2, <3>2, <3>3
  <2>2. ASSUME NEW i \in 1..n + 1, IsText(more[i]) PROVE 0 < more[i].n /\ more[i].n <= above
    <3>1. CASE i \in 1..n
      <4>1. 0 < behind[i].n /\ behind[i].n <= top /\ behind[i].n \in Nat
        BY <1>1, <1>2, <2>2, <3>1 DEF Ordered, Growing, n
      <4>2. QED  BY <1>2, <3>1, <4>1
    <3>2. CASE i = n + 1
      BY <1>1, <1>2, <2>2, <3>2
    <3>3. QED  BY <1>2, <3>1, <3>2
  <2>3. QED  BY <1>2, <2>1, <2>2 DEF Growing
<1>4. Growing(on, above)
  BY <1>1 DEF Ordered, Growing
<1>5. \A i \in 1..Len(read) : read[i] <= above
  BY <1>1 DEF Ordered
<1>6. ASSUME NEW i \in 1..Len(read), NEW j \in 1..Len(more), IsText(more[j]) PROVE read[i] < more[j].n
  <2>1. CASE j \in 1..n
    BY <1>2, <1>6, <2>1 DEF Ordered, n
  <2>2. CASE j = n + 1
    <3>1. read[i] <= top /\ top < f.n
      BY <1>2, <1>6, <2>2 DEF Ordered
    <3>2. QED  BY <1>1, <1>2, <2>2, <3>1
  <2>3. QED  BY <1>2, <2>1, <2>2
<1>7. ASSUME NEW i \in 1..Len(on), NEW j \in 1..Len(more), IsText(on[i]), IsText(more[j]) PROVE on[i].n < more[j].n
  <2>1. CASE j \in 1..n
    BY <1>2, <1>7, <2>1 DEF Ordered, n
  <2>2. CASE j = n + 1
    <3>1. on[i].n <= top /\ top < f.n /\ on[i].n \in Nat
      BY <1>1, <1>2, <1>7, <2>2 DEF Ordered, Growing
    <3>2. more[j].n = f.n
      BY <1>2, <2>2
    <3>3. QED  BY <1>1, <3>1, <3>2
  <2>3. QED  BY <1>2, <2>1, <2>2
<1>8. QED
  BY <1>1, <1>2, <1>3, <1>4, <1>5, <1>6, <1>7 DEF Ordered, more

\* The connection takes the oldest frame of the channel.
LEMMA PollOrdered ==
  ASSUME NEW read, NEW on, NEW behind, NEW top \in Nat, Ordered(read, on, behind, top), behind # <<>>
  PROVE  Ordered(read, Append(on, Head(behind)), Tail(behind), top)
<1> DEFINE f == Head(behind)
           more == Append(on, f)
           rest == Tail(behind)
           n == Len(on)
<1>1. read \in Seq(Nat) /\ on \in Seq(Frames) /\ behind \in Seq(Frames)
  BY DEF Ordered
<1>2. /\ f \in Frames /\ f = behind[1] /\ 1 \in 1..Len(behind)
      /\ rest \in Seq(Frames) /\ Len(behind) \in Nat /\ Len(rest) = Len(behind) - 1
      /\ \A i \in 1..Len(rest) : rest[i] = behind[i + 1] /\ i + 1 \in 1..Len(behind)
  BY <1>1, TailFacts
<1> HIDE DEF f, rest
<1>3. /\ more \in Seq(Frames) /\ Len(more) = n + 1 /\ n \in Nat /\ more[n + 1] = f
      /\ \A i \in 1..n : more[i] = on[i]
      /\ \A i \in 1..n + 1 : i \in 1..n \/ i = n + 1
  BY <1>1, <1>2, AppendFacts
<1> HIDE DEF more, n
<1>4. Growing(more, top)
  <2>1. ASSUME NEW i \in 1..n + 1, NEW j \in 1..n + 1, i < j, IsText(more[i]), IsText(more[j])
        PROVE  more[i].n < more[j].n
    <3>1. i \in 1..n
      BY <1>3, <2>1
    <3>2. CASE j \in 1..n
      BY <1>3, <2>1, <3>1, <3>2 DEF Ordered, Growing, n
    <3>3. CASE j = n + 1
      BY <1>2, <1>3, <2>1, <3>1, <3>3 DEF Ordered, n
    <3>4. QED  BY <1>3, <3>2, <3>3
  <2>2. ASSUME NEW i \in 1..n + 1, IsText(more[i]) PROVE 0 < more[i].n /\ more[i].n <= top
    <3>1. CASE i \in 1..n
      BY <1>3, <2>2, <3>1 DEF Ordered, Growing, n
    <3>2. CASE i = n + 1
      BY <1>2, <1>3, <2>2, <3>2 DEF Ordered, Growing
    <3>3. QED  BY <1>3, <3>1, <3>2
  <2>3. QED  BY <1>3, <2>1, <2>2 DEF Growing
<1>5. Growing(rest, top)
  <2>1. ASSUME NEW i \in 1..Len(rest), NEW j \in 1..Len(rest), i < j, IsText(rest[i]), IsText(rest[j])
        PROVE  rest[i].n < rest[j].n
    <3>1. i + 1 < j + 1
      BY <2>1
    <3>2. QED  BY <1>2, <2>1, <3>1 DEF Ordered, Growing
  <2>2. QED  BY <1>2, <2>1 DEF Ordered, Growing
<1>6. ASSUME NEW i \in 1..Len(read), NEW j \in 1..Len(more), IsText(more[j]) PROVE read[i] < more[j].n
  <2>1. CASE j \in 1..n
    BY <1>3, <1>6, <2>1 DEF Ordered, n
  <2>2. CASE j = n + 1
    BY <1>2, <1>3, <1>6, <2>2 DEF Ordered
  <2>3. QED  BY <1>3, <2>1, <2>2
<1>7. \A i \in 1..Len(read), j \in 1..Len(rest) : IsText(rest[j]) => read[i] < rest[j].n
  BY <1>2 DEF Ordered
<1>8. ASSUME NEW i \in 1..Len(more), NEW j \in 1..Len(rest), IsText(more[i]), IsText(rest[j]) PROVE more[i].n < rest[j].n
  <2>1. CASE i \in 1..n
    BY <1>2, <1>3, <1>8, <2>1 DEF Ordered, n
  <2>2. CASE i = n + 1
    <3>1. rest[j] = behind[j + 1] /\ j + 1 \in 1..Len(behind) /\ 1 < j + 1
      BY <1>2
    <3>2. QED  BY <1>2, <1>3, <1>8, <2>2, <3>1 DEF Ordered, Growing
  <2>3. QED  BY <1>3, <2>1, <2>2
<1>9. /\ \A i, j \in 1..Len(read) : i < j /\ read[i] # 0 /\ read[j] # 0 => read[i] < read[j]
      /\ \A i \in 1..Len(read) : read[i] <= top
  BY DEF Ordered
<1>10. QED
  BY <1>1, <1>2, <1>3, <1>4, <1>5, <1>6, <1>7, <1>8, <1>9 DEF Ordered, more, rest, f

\* The client takes the oldest frame off the connection.
LEMMA SkipOrdered ==
  ASSUME NEW read, NEW on, NEW behind, NEW top \in Nat, Ordered(read, on, behind, top), on # <<>>
  PROVE  Ordered(read, Tail(on), behind, top)
<1> DEFINE rest == Tail(on)
<1>1. on \in Seq(Frames)
  BY DEF Ordered
<1>2. /\ rest \in Seq(Frames) /\ Len(on) \in Nat /\ Len(rest) = Len(on) - 1
      /\ \A i \in 1..Len(rest) : rest[i] = on[i + 1] /\ i + 1 \in 1..Len(on)
  BY <1>1, TailFacts
<1> HIDE DEF rest
<1>3. Growing(rest, top)
  <2>1. ASSUME NEW i \in 1..Len(rest), NEW j \in 1..Len(rest), i < j, IsText(rest[i]), IsText(rest[j])
        PROVE  rest[i].n < rest[j].n
    <3>1. i + 1 < j + 1
      BY <2>1
    <3>2. QED  BY <1>2, <2>1, <3>1 DEF Ordered, Growing
  <2>2. QED  BY <1>2, <2>1 DEF Ordered, Growing
<1>4. /\ \A i \in 1..Len(read), j \in 1..Len(rest) : IsText(rest[j]) => read[i] < rest[j].n
      /\ \A i \in 1..Len(rest), j \in 1..Len(behind) : IsText(rest[i]) /\ IsText(behind[j]) => rest[i].n < behind[j].n
  BY <1>2 DEF Ordered
<1>5. /\ read \in Seq(Nat) /\ behind \in Seq(Frames) /\ Growing(behind, top)
      /\ \A i, j \in 1..Len(read) : i < j /\ read[i] # 0 /\ read[j] # 0 => read[i] < read[j]
      /\ \A i \in 1..Len(read) : read[i] <= top
      /\ \A i \in 1..Len(read), j \in 1..Len(behind) : IsText(behind[j]) => read[i] < behind[j].n
  BY DEF Ordered
<1>6. QED
  BY <1>2, <1>3, <1>4, <1>5 DEF Ordered, rest

\* It is text, and accumulated by its number or, when it was spoilt, as 0.
LEMMA ReadOrdered ==
  ASSUME NEW read, NEW on, NEW behind, NEW top \in Nat, Ordered(read, on, behind, top), on # <<>>,
         IsText(Head(on)), NEW x \in {0, Head(on).n}
  PROVE  Ordered(Append(read, x), Tail(on), behind, top)
<1> DEFINE f == Head(on)
           rest == Tail(on)
           more == Append(read, x)
           n == Len(read)
<1>1. /\ read \in Seq(Nat) /\ on \in Seq(Frames) /\ behind \in Seq(Frames)
      /\ \A i \in 1..Len(read) : read[i] \in Nat
      /\ \A i \in 1..Len(behind) : behind[i].n \in Nat
  <2>1. read \in Seq(Nat) /\ on \in Seq(Frames) /\ behind \in Seq(Frames)
    BY DEF Ordered
  <2>2. \A e \in Frames : e.n \in Nat
    BY DEF Frames
  <2>3. \A i \in 1..Len(behind) : behind[i] \in Frames
    BY <2>1
  <2>4. QED  BY <2>1, <2>2, <2>3
<1>2. /\ f \in Frames /\ f = on[1] /\ 1 \in 1..Len(on)
      /\ rest \in Seq(Frames) /\ Len(on) \in Nat /\ Len(rest) = Len(on) - 1
      /\ \A i \in 1..Len(rest) : rest[i] = on[i + 1] /\ i + 1 \in 1..Len(on)
  BY <1>1, TailFacts
<1>3. f.n \in Nat /\ x \in {0, f.n} /\ x \in Nat /\ IsText(f)
  BY <1>2 DEF Frames
<1>4. 0 < f.n /\ f.n <= top
  BY <1>2, <1>3 DEF Ordered, Growing
<1>5. Ordered(read, rest, behind, top)
  BY SkipOrdered
<1> HIDE DEF f, rest
<1>6. /\ more \in Seq(Nat) /\ Len(more) = n + 1 /\ n \in Nat /\ more[n + 1] = x
      /\ \A i \in 1..n : more[i] = read[i]
      /\ \A i \in 1..n + 1 : i \in 1..n \/ i = n + 1
  BY <1>1, <1>3, AppendFacts
<1> HIDE DEF more, n
<1>7. ASSUME NEW i \in 1..n + 1, NEW j \in 1..n + 1, i < j, more[i] # 0, more[j] # 0 PROVE more[i] < more[j]
  <2>1. i \in 1..n
    BY <1>6, <1>7
  <2>2. CASE j \in 1..n
    BY <1>6, <1>7, <2>1, <2>2 DEF Ordered, n
  <2>3. CASE j = n + 1
    <3>1. x = f.n /\ more[j] = f.n
      BY <1>3, <1>6, <1>7, <2>3
    <3>2. read[i] < on[1].n
      BY <1>2, <1>3, <2>1 DEF Ordered, n
    <3>3. QED  BY <1>2, <1>6, <2>1, <3>1, <3>2
  <2>4. QED  BY <1>6, <2>2, <2>3
<1>8. ASSUME NEW i \in 1..n + 1 PROVE more[i] <= top
  <2>1. CASE i \in 1..n
    BY <1>6, <2>1 DEF Ordered, n
  <2>2. CASE i = n + 1
    BY <1>3, <1>4, <1>6, <2>2
  <2>3. QED  BY <1>6, <2>1, <2>2
<1>9. ASSUME NEW i \in 1..n + 1, NEW j \in 1..Len(rest), IsText(rest[j]) PROVE more[i] < rest[j].n
  <2>1. CASE i \in 1..n
    BY <1>5, <1>6, <1>9, <2>1 DEF Ordered, n
  <2>2. CASE i = n + 1
    <3>1. rest[j] = on[j + 1] /\ j + 1 \in 1..Len(on) /\ 1 < j + 1
      BY <1>2
    <3>2. on[1].n < on[j + 1].n
      BY <1>2, <1>3, <1>9, <3>1 DEF Ordered, Growing
    <3>3. 0 < rest[j].n
      BY <1>5, <1>9 DEF Ordered, Growing
    <3>4. QED  BY <1>2, <1>3, <1>6, <2>2, <3>1, <3>2, <3>3
  <2>3. QED  BY <1>6, <2>1, <2>2
<1>10. ASSUME NEW i \in 1..n + 1, NEW j \in 1..Len(behind), IsText(behind[j]) PROVE more[i] < behind[j].n
  <2>1. CASE i \in 1..n
    BY <1>6, <1>10, <2>1 DEF Ordered, n
  <2>2. CASE i = n + 1
    <3>1. on[1].n < behind[j].n /\ 0 < behind[j].n
      BY <1>2, <1>3, <1>10 DEF Ordered, Growing
    <3>2. QED  BY <1>2, <1>3, <1>6, <2>2, <3>1
  <2>3. QED  BY <1>6, <2>1, <2>2
<1>11. /\ rest \in Seq(Frames) /\ behind \in Seq(Frames) /\ Growing(rest, top) /\ Growing(behind, top)
       /\ \A i \in 1..Len(rest), j \in 1..Len(behind) : IsText(rest[i]) /\ IsText(behind[j]) => rest[i].n < behind[j].n
  BY <1>5 DEF Ordered
<1>12. QED
  BY <1>6, <1>7, <1>8, <1>9, <1>10, <1>11 DEF Ordered, more, rest

\* The channel is dropped with its frames.
LEMMA ClearOrdered ==
  ASSUME NEW read, NEW on, NEW behind, NEW top \in Nat, Ordered(read, on, behind, top)
  PROVE  Ordered(read, on, <<>>, top)
<1> DEFINE none == <<>>
<1>1. none \in Seq(Frames) /\ \A i \in 1..Len(none) : FALSE
  OBVIOUS
<1> HIDE DEF none
<1>2. Ordered(read, on, none, top)
  BY <1>1 DEF Ordered, Growing
<1>3. QED  BY <1>2 DEF none

\* More events may be out there.
LEMMA RaiseOrdered ==
  ASSUME NEW read, NEW on, NEW behind, NEW top \in Nat, NEW above \in Nat, top <= above,
         Ordered(read, on, behind, top)
  PROVE  Ordered(read, on, behind, above)
<1>1. /\ \A i \in 1..Len(read) : read[i] \in Nat /\ read[i] <= top
      /\ \A i \in 1..Len(on) : on[i] \in Frames
      /\ \A i \in 1..Len(behind) : behind[i] \in Frames
  BY DEF Ordered
<1>2. \A e \in Frames : e.n \in Nat
  BY DEF Frames
<1>3. \A e \in Frames : e.n <= top => e.n <= above
  BY <1>2
<1>4. \A i \in 1..Len(read) : read[i] <= above
  BY <1>1
<1>5. Growing(on, above) /\ Growing(behind, above)
  BY <1>1, <1>3 DEF Ordered, Growing
<1>6. QED  BY <1>4, <1>5 DEF Ordered

-----------------------------------------------------------------------------
(* Where the task, the body and the client stand *)

Control ==
  /\ task \in {"permit", "opening", "reading", "tail", "ended"}
  /\ body \in {"none", "open", "ended", "dropped"}
  /\ client \in {"sending", "reading", "ok", "failed", "gone"}
  /\ tail \in {"none", "done", "error"}
  /\ lost \in BOOLEAN
  /\ tail # "none" => task \in {"tail", "ended"}
  /\ task = "tail" => tail # "none"
  /\ task \in {"opening", "reading", "tail"} => body \in {"open", "dropped"}
  /\ client = "sending" => task = "permit" /\ body = "none"
  /\ body = "dropped" => client \in {"failed", "gone"}
  /\ body = "ended" => task = "ended" /\ chan = <<>>
  /\ client = "ok" => body = "ended" /\ wire = <<>>
  /\ task = "permit" => body = "none" /\ chan = <<>>
  /\ chan \in Seq(Frames)
  /\ sent \in Seq(ChunkTypes) /\ Len(sent) <= MaxEvents

\* The steps that are alike in both editions, and two of those that are not.
Common ==
  \/ Granted \/ PermitTimeout \/ SendTimeout \/ Opens
  \/ \E type \in ChunkTypes : ProcessJson(type)
  \/ StreamFails \/ SendTail \/ TailTimeout
  \/ PollBody \/ BodyEnds \/ BodyDropped
  \/ ReadPart \/ ReadFrame \/ ReadEof \/ IdleTimeout \/ ClientGone
  \/ Tick

Splice(type) ==
  /\ edition = "a2r" /\ type = "tool" /\ accum \in {"nameless", "spliced"}
  /\ Reading /\ Len(sent) < MaxEvents
  /\ sent' = Append(sent, type) /\ taskClock' = 0
  /\ UNCHANGED <<attempt, cand, accum, finish, taskVars, chan, dropped, body, wire,
                 client, clientVars, clientClock, edition, swallowed>>

\* Every step of either edition is one of these.
LEMMA Steps ==
  ASSUME TNext
  PROVE  \/ Common /\ UNCHANGED <<edition, swallowed>>
         \/ edition = "rust-ref" /\ (StreamEnds \/ WarningPanics) /\ UNCHANGED <<edition, swallowed>>
         \/ edition = "a2r" /\ edition' = edition
            /\ \/ TPermitTimeout \/ TStreamEnds \/ TSendTail \/ TTick
               \/ \E type \in ChunkTypes : Splice(type) \/ TSwallow(type)
<1>1. CASE Reference
  BY <1>1 DEF Reference, Next, Common
<1>2. CASE TGranted \/ TOpens \/ TStreamFails \/ TPollBody \/ TBodyEnds \/ TBodyDropped
           \/ TReadPart \/ TReadFrame \/ TReadEof \/ TClientGone
  BY <1>2 DEF TGranted, TOpens, TStreamFails, TPollBody, TBodyEnds, TBodyDropped, TReadPart, TReadFrame, TReadEof,
              TClientGone, A2r, Common
<1>3. CASE \E type \in ChunkTypes : TProcessJson(type)
  BY <1>3 DEF TProcessJson, A2r, Common, Splice
<1>4. CASE \E type \in ChunkTypes : TSwallow(type)
  BY <1>4 DEF TSwallow
<1>5. CASE TPermitTimeout
  BY <1>5 DEF TPermitTimeout
<1>6. CASE TStreamEnds
  BY <1>6 DEF TStreamEnds
<1>7. CASE TSendTail
  BY <1>7 DEF TSendTail
<1>8. CASE TTick
  BY <1>8 DEF TTick
<1>9. QED  BY <1>1, <1>2, <1>3, <1>4, <1>5, <1>6, <1>7, <1>8 DEF TNext

\* One event of the provider: its frame is tried, or it is kept, or counted.
LEMMA ProcessJsonCases ==
  ASSUME NEW type \in ChunkTypes, ProcessJson(type)
  PROVE  \/ type \in {"delta", "reasoning"} /\ TrySend(Frame(type, Len(sent) + 1)) /\ UNCHANGED accum
         \/ type = "tool" /\ accum' \in NextAccum(accum) /\ UNCHANGED chan
         \/ type = "usage" /\ UNCHANGED <<accum, chan>>
  BY DEF ProcessJson, ChunkTypes

\* Every step keeps who is where.
LEMMA ControlStep ==
  ASSUME Control, TNext
  PROVE  Control'
<1>1. chan \in Seq(Frames) /\ sent \in Seq(ChunkTypes) /\ Len(sent) \in Nat /\ Len(sent) <= MaxEvents /\ MaxEvents \in Nat
  BY BridgeAssumption DEF Control
<1>2. \A f \in Frames : Append(chan, f) \in Seq(Frames)
  BY <1>1
<1>3. \A type \in FrameTypes, n \in Nat : Frame(type, n) \in Frames
  BY DEF Frame, Frames
<1>4. chan # <<>> => Tail(chan) \in Seq(Frames)
  BY <1>1
<1>5. \A type \in ChunkTypes : /\ Append(sent, type) \in Seq(ChunkTypes)
                               /\ Len(sent) + 1 <= MaxEvents => Len(Append(sent, type)) <= MaxEvents
                               /\ Len(sent) < MaxEvents => Len(Append(sent, type)) <= MaxEvents
  BY <1>1
<1>6. <<>> \in Seq(Frames)
  OBVIOUS
<1> USE DEF Control, taskVars, upstreamVars
<1>7. CASE Granted           BY <1>7 DEF Granted
<1>8. CASE PermitTimeout     BY <1>8 DEF PermitTimeout
<1>9. CASE SendTimeout       BY <1>9 DEF SendTimeout
<1>10. CASE Opens            BY <1>10 DEF Opens
<1>11. ASSUME NEW type \in ChunkTypes, ProcessJson(type) PROVE Control'
  <2>1. chan' \in Seq(Frames)
    <3>1. \A t \in {"delta", "reasoning"} : Frame(t, Len(sent) + 1) \in Frames
      BY <1>1, <1>3 DEF FrameTypes
    <3>2. CASE type \in {"delta", "reasoning"} /\ TrySend(Frame(type, Len(sent) + 1))
      BY <1>1, <1>2, <3>1, <3>2 DEF TrySend
    <3>3. QED  BY <1>1, <1>11, <3>2, ProcessJsonCases
  <2>2. sent' \in Seq(ChunkTypes) /\ Len(sent') <= MaxEvents
    BY <1>5, <1>11 DEF ProcessJson
  <2>3. QED  BY <1>11, <2>1, <2>2 DEF ProcessJson, Reading
<1>12. CASE StreamEnds
  <2>1. Frame("warning", MaxEvents + 1) \in Frames
    BY <1>1, <1>3 DEF FrameTypes
  <2>2. chan' \in Seq(Frames)
    BY <1>1, <1>2, <1>12, <2>1 DEF StreamEnds, TrySend
  <2>3. QED  BY <1>12, <2>2 DEF StreamEnds
<1>13. CASE WarningPanics    BY <1>13 DEF WarningPanics
<1>14. CASE StreamFails      BY <1>14 DEF StreamFails, Reading
<1>15. CASE SendTail
  <2>1. tail \in FrameTypes
    BY <1>15 DEF SendTail, FrameTypes
  <2>2. chan' \in Seq(Frames)
    BY <1>1, <1>2, <1>3, <1>15, <2>1 DEF SendTail
  <2>3. QED  BY <1>15, <2>2 DEF SendTail
<1>16. CASE TailTimeout      BY <1>16 DEF TailTimeout, Blocked
<1>17. CASE PollBody         BY <1>4, <1>17 DEF PollBody
<1>18. CASE BodyEnds         BY <1>18 DEF BodyEnds
<1>19. CASE BodyDropped      BY <1>6, <1>19 DEF BodyDropped
<1>20. CASE ReadPart         BY <1>20 DEF ReadPart
<1>21. CASE ReadFrame        BY <1>21 DEF ReadFrame
<1>22. CASE ReadEof          BY <1>22 DEF ReadEof, ClientEnds
<1>23. CASE IdleTimeout      BY <1>23 DEF IdleTimeout, Waiting, ClientEnds
<1>24. CASE ClientGone       BY <1>24 DEF ClientGone, ClientEnds
<1>25. CASE Tick             BY <1>25 DEF Tick
<1>26. CASE TPermitTimeout   BY <1>26 DEF TPermitTimeout
<1>27. CASE TStreamEnds      BY <1>27 DEF TStreamEnds
<1>28. CASE TSendTail
  <2>1. tail \in FrameTypes
    BY <1>28 DEF TSendTail, FrameTypes
  <2>2. chan' \in Seq(Frames)
    BY <1>1, <1>2, <1>3, <1>28, <2>1 DEF TSendTail
  <2>3. QED  BY <1>28, <2>2 DEF TSendTail
<1>29. CASE TTick            BY <1>29 DEF TTick
<1>30. ASSUME NEW type \in ChunkTypes, Splice(type) PROVE Control'
  BY <1>5, <1>30 DEF Splice, Reading
<1>31. ASSUME NEW type \in ChunkTypes, TSwallow(type) PROVE Control'
  BY <1>5, <1>31 DEF TSwallow, Reading
<1>32. QED
  BY <1>7, <1>8, <1>9, <1>10, <1>11, <1>12, <1>13, <1>14, <1>15, <1>16, <1>17, <1>18, <1>19, <1>20, <1>21, <1>22,
     <1>23, <1>24, <1>25, <1>26, <1>27, <1>28, <1>29, <1>30, <1>31, Steps DEF Common

-----------------------------------------------------------------------------
(* What is on its way *)

\* The tail frame, once the task has come to its end.
Late == IF task = "ended" THEN tail ELSE "none"

\* The number of the newest text there may be: the warning comes last.
Top == IF task \in {"tail", "ended"} THEN MaxEvents + 1 ELSE Len(sent)

Clean(seq, last) == \A i \in 1..Len(seq) : IsText(seq[i]) \/ seq[i].type = last
Carries(seq, last) == \E i \in 1..Len(seq) : seq[i].type = last

\* Texts are in order; the only other frame is the tail frame, and it has been
\* read or is on its way unless it was given up or the body dropped.
Flow ==
  /\ Ordered(full, wire, chan, Top)
  /\ Clean(wire, Late) /\ Clean(chan, Late)
  /\ seen \subseteq {Late} \ {"none"}
  /\ (Late # "none" /\ ~lost /\ body # "dropped") => Late \in seen \/ Carries(wire, Late) \/ Carries(chan, Late)

\* A frame is text or has the type of a tail frame.
LEMMA FrameIs ==
  \A f \in Frames : IsText(f) \/ f.type \in {"done", "error"}
BY DEF Frames, FrameTypes, IsText

\* Without a tail frame all is text, so the tail frame may become any.
LEMMA CleanLater ==
  ASSUME NEW seq \in Seq(Frames), Clean(seq, "none"), NEW last
  PROVE  Clean(seq, last)
<1>1. \A i \in 1..Len(seq) : seq[i] \in Frames
  OBVIOUS
<1>2. QED  BY <1>1, FrameIs DEF Clean

\* The number no text sent so far exceeds.
LEMMA TopFacts ==
  ASSUME Control PROVE Top \in Nat /\ Len(sent) \in Nat /\ Len(sent) <= MaxEvents /\ MaxEvents \in Nat
BY BridgeAssumption DEF Control, Top

\* Steps that move no frame.
LEMMA QuietFlow ==
  ASSUME Control, Control', Flow, UNCHANGED <<full, wire, chan, seen>>, Top <= Top',
         body = "dropped" => body' = "dropped",
         \/ Late' = Late /\ (lost => lost')
         \/ Late = "none" /\ (lost' \/ body' = "dropped")
  PROVE  Flow'
<1>1. Top \in Nat /\ Top' \in Nat
  BY BridgeAssumption DEF Top, Control
<1>2. Ordered(full', wire', chan', Top')
  <2>1. Ordered(full, wire, chan, Top')
    BY <1>1, RaiseOrdered DEF Flow
  <2>2. QED  BY <2>1
<1>3. Clean(wire', Late') /\ Clean(chan', Late')
  <2>1. CASE Late' = Late
    BY <2>1 DEF Flow
  <2>2. CASE Late = "none"
    <3>1. wire \in Seq(Frames) /\ chan \in Seq(Frames) /\ Clean(wire, "none") /\ Clean(chan, "none")
      BY <2>2 DEF Flow, Ordered
    <3>2. \A last : Clean(wire, last) /\ Clean(chan, last)
      BY <3>1, CleanLater
    <3>3. QED  BY <3>2
  <2>3. QED  BY <2>1, <2>2
<1>4. seen' \subseteq {Late'} \ {"none"}
  BY DEF Flow
<1>5. (Late' # "none" /\ ~lost' /\ body' # "dropped") => Late' \in seen' \/ Carries(wire', Late') \/ Carries(chan', Late')
  BY DEF Flow
<1>6. QED
  BY <1>2, <1>3, <1>4, <1>5 DEF Flow

\* A text is put into the channel while the task still reads.
LEMMA PutTextFlow ==
  ASSUME Control, Control', Flow, UNCHANGED <<full, wire, seen>>, NEW f \in Frames, IsText(f), Top < f.n, f.n <= Top',
         chan' = Append(chan, f), Late = "none", Late' = "none"
  PROVE  Flow'
<1>1. Top \in Nat /\ Top' \in Nat /\ f.n \in Nat
  BY BridgeAssumption DEF Top, Control, Frames
<1>2. Top <= Top'
  BY <1>1
<1>3. Ordered(full, wire, Append(chan, f), Top')
  BY <1>1, <1>2, PutOrdered DEF Flow
<1>4. chan \in Seq(Frames)
  BY DEF Control
<1>5. Clean(Append(chan, f), "none")
  <2>1. /\ Len(Append(chan, f)) = Len(chan) + 1 /\ Append(chan, f)[Len(chan) + 1] = f
        /\ \A i \in 1..Len(chan) : Append(chan, f)[i] = chan[i]
        /\ \A i \in 1..Len(chan) + 1 : i \in 1..Len(chan) \/ i = Len(chan) + 1
    BY <1>4, AppendFacts
  <2>2. Clean(chan, "none")
    BY DEF Flow
  <2>3. QED  BY <2>1, <2>2 DEF Clean
<1>6. QED
  BY <1>3, <1>5 DEF Flow

\* The tail frame is put into the channel.
LEMMA PutTailFlow ==
  ASSUME Control, Control', Flow, UNCHANGED <<full, wire, seen, tail>>, task = "tail", task' = "ended",
         chan' = Append(chan, Frame(tail, 0))
  PROVE  Flow'
<1> DEFINE f == Frame(tail, 0)
           more == Append(chan, f)
<1>1. tail \in {"done", "error"} /\ Late = "none" /\ Late' = tail /\ Top = MaxEvents + 1 /\ Top' = MaxEvents + 1
  BY DEF Control, Late, Top
<1>2. f \in Frames /\ ~IsText(f) /\ f.type = tail
  BY <1>1 DEF Frame, Frames, FrameTypes, IsText
<1> HIDE DEF f
<1>3. Top \in Nat /\ Top' \in Nat
  BY BridgeAssumption DEF Top, Control
<1>4. Ordered(full, wire, more, Top')
  <2>1. Ordered(full, wire, chan, Top)
    BY DEF Flow
  <2>2. Ordered(full, wire, Append(chan, f), Top)
    BY <1>2, <1>3, <2>1, PutOrdered
  <2>3. QED  BY <1>1, <2>2
<1>5. chan \in Seq(Frames) /\ wire \in Seq(Frames) /\ Clean(chan, "none") /\ Clean(wire, "none")
  BY <1>1 DEF Control, Flow, Ordered
<1>6. /\ Len(more) = Len(chan) + 1 /\ more[Len(chan) + 1] = f /\ Len(chan) \in Nat
      /\ \A i \in 1..Len(chan) : more[i] = chan[i]
      /\ \A i \in 1..Len(chan) + 1 : i \in 1..Len(chan) \/ i = Len(chan) + 1
  BY <1>2, <1>5, AppendFacts
<1>7. Clean(wire, tail) /\ Clean(chan, tail)
  BY <1>5, CleanLater
<1> HIDE DEF more
<1>8. Clean(more, tail) /\ Carries(more, tail)
  BY <1>2, <1>6, <1>7 DEF Clean, Carries
<1>9. chan' = more
  BY DEF more, f
<1>10. seen = {}
  BY <1>1 DEF Flow
<1>11. Ordered(full', wire', chan', Top')
  BY <1>4, <1>9
<1>12. Clean(wire', Late') /\ Clean(chan', Late') /\ Carries(chan', Late') /\ seen' = {}
  BY <1>1, <1>7, <1>8, <1>9, <1>10
<1>13. QED
  BY <1>11, <1>12 DEF Flow

\* The connection takes a frame.
LEMMA PollFlow ==
  ASSUME Control, Flow, PollBody
  PROVE  Flow'
<1> DEFINE f == Head(chan)
           rest == Tail(chan)
           more == Append(wire, f)
<1>1. /\ chan # <<>> /\ wire' = more /\ chan' = rest
      /\ UNCHANGED <<full, seen, tail, task, lost, body, sent>>
  BY DEF PollBody, taskVars, clientVars, upstreamVars
<1>2. Late' = Late /\ Top' = Top /\ Top \in Nat
  BY <1>1, TopFacts DEF Late, Top
<1>3. chan \in Seq(Frames) /\ wire \in Seq(Frames) /\ Clean(chan, Late) /\ Clean(wire, Late)
  BY DEF Flow, Ordered
<1>4. Ordered(full, more, rest, Top)
  BY <1>1, <1>2, PollOrdered DEF Flow
<1>5. /\ f \in Frames /\ f = chan[1] /\ 1 \in 1..Len(chan) /\ Len(chan) \in Nat /\ Len(rest) = Len(chan) - 1
      /\ \A i \in 1..Len(rest) : rest[i] = chan[i + 1] /\ i + 1 \in 1..Len(chan)
  BY <1>1, <1>3, TailFacts
<1> HIDE DEF f, rest
<1>6. /\ Len(more) = Len(wire) + 1 /\ more[Len(wire) + 1] = f /\ Len(wire) \in Nat
      /\ \A i \in 1..Len(wire) : more[i] = wire[i]
      /\ \A i \in 1..Len(wire) + 1 : i \in 1..Len(wire) \/ i = Len(wire) + 1
  BY <1>3, <1>5, AppendFacts
<1> HIDE DEF more
<1>7. Clean(rest, Late)
  BY <1>3, <1>5 DEF Clean
<1>8. Clean(more, Late)
  BY <1>3, <1>5, <1>6 DEF Clean
<1>9. Carries(wire, Late) => Carries(more, Late)
  BY <1>6 DEF Carries
<1>10. Carries(chan, Late) => Carries(more, Late) \/ Carries(rest, Late)
  <2>1. SUFFICES ASSUME NEW i \in 1..Len(chan), chan[i].type = Late PROVE Carries(more, Late) \/ Carries(rest, Late)
    BY DEF Carries
  <2>2. CASE i = 1
    BY <1>5, <1>6, <2>1, <2>2 DEF Carries
  <2>3. CASE i # 1
    <3>1. i - 1 \in 1..Len(rest) /\ (i - 1) + 1 = i
      BY <1>5, <2>3
    <3>2. rest[i - 1] = chan[i]
      BY <1>5, <3>1
    <3>3. QED  BY <2>1, <3>1, <3>2 DEF Carries
  <2>4. QED  BY <2>2, <2>3
<1>11. (Late # "none" /\ ~lost /\ body # "dropped") => Late \in seen \/ Carries(more, Late) \/ Carries(rest, Late)
  BY <1>9, <1>10 DEF Flow
<1>12. seen \subseteq {Late} \ {"none"}
  BY DEF Flow
<1>13. QED
  BY <1>1, <1>2, <1>4, <1>7, <1>8, <1>11, <1>12 DEF Flow

\* The client reads a frame.
LEMMA ReadFlow ==
  ASSUME Control, Flow, ReadFrame
  PROVE  Flow'
<1> DEFINE f == Head(wire)
           rest == Tail(wire)
<1>1. /\ wire # <<>> /\ wire' = rest
      /\ full' = IF IsText(f) THEN Append(full, IF carry THEN 0 ELSE f.n) ELSE full
      /\ seen' = IF IsText(f) THEN seen ELSE seen \cup {f.type}
      /\ UNCHANGED <<chan, tail, task, lost, body, sent>>
  BY DEF ReadFrame, IsText, taskVars, upstreamVars
<1>2. Late' = Late /\ Top' = Top /\ Top \in Nat
  BY <1>1, TopFacts DEF Late, Top
<1>3. chan \in Seq(Frames) /\ wire \in Seq(Frames) /\ Clean(chan, Late) /\ Clean(wire, Late)
  BY DEF Flow, Ordered
<1>4. /\ f \in Frames /\ f = wire[1] /\ 1 \in 1..Len(wire) /\ Len(wire) \in Nat /\ Len(rest) = Len(wire) - 1
      /\ \A i \in 1..Len(rest) : rest[i] = wire[i + 1] /\ i + 1 \in 1..Len(wire)
  BY <1>1, <1>3, TailFacts
<1>5. Ordered(full', rest, chan, Top)
  <2>1. CASE IsText(f)
    <3>1. \A x \in {0, Head(wire).n} : Ordered(Append(full, x), Tail(wire), chan, Top)
      BY <1>1, <1>2, <2>1, ReadOrdered DEF Flow
    <3>2. full' = Append(full, IF carry THEN 0 ELSE f.n)
      BY <1>1, <2>1
    <3>3. (IF carry THEN 0 ELSE f.n) \in {0, Head(wire).n}
      OBVIOUS
    <3>4. QED  BY <3>1, <3>2, <3>3
  <2>2. CASE ~IsText(f)
    <3>1. full' = full
      BY <1>1, <2>2
    <3>2. Ordered(full, rest, chan, Top)
      BY <1>1, <1>2, SkipOrdered DEF Flow
    <3>3. QED  BY <3>1, <3>2
  <2>3. QED  BY <2>1, <2>2
<1> HIDE DEF f, rest
<1>6. Clean(rest, Late)
  BY <1>3, <1>4 DEF Clean
<1>7. ~IsText(f) => f.type = Late /\ Late # "none"
  BY <1>3, <1>4, FrameIs DEF Clean
<1>8. seen' \subseteq {Late} \ {"none"}
  BY <1>1, <1>7 DEF Flow
<1>9. Carries(wire, Late) => Late \in seen' \/ Carries(rest, Late) \/ Late = "none"
  <2>1. SUFFICES ASSUME NEW i \in 1..Len(wire), wire[i].type = Late, Late # "none"
                 PROVE  Late \in seen' \/ Carries(rest, Late)
    BY DEF Carries
  <2>2. CASE i = 1
    <3>1. Late \in {"done", "error"}
      BY <2>1 DEF Late, Control
    <3>2. ~IsText(f)
      BY <1>4, <2>1, <2>2, <3>1 DEF IsText
    <3>3. QED  BY <1>1, <1>7, <3>2
  <2>3. CASE i # 1
    <3>1. i - 1 \in 1..Len(rest) /\ (i - 1) + 1 = i
      BY <1>4, <2>3
    <3>2. rest[i - 1] = wire[i]
      BY <1>4, <3>1
    <3>3. QED  BY <2>1, <3>1, <3>2 DEF Carries
  <2>4. QED  BY <2>2, <2>3
<1>10. Late \in seen => Late \in seen'
  BY <1>1
<1>11. (Late # "none" /\ ~lost /\ body # "dropped") => Late \in seen' \/ Carries(rest, Late) \/ Carries(chan, Late)
  BY <1>9, <1>10 DEF Flow
<1>12. QED
  BY <1>1, <1>2, <1>3, <1>5, <1>6, <1>8, <1>11 DEF Flow

\* Every step keeps the order of the frames in flight.
LEMMA FlowStep ==
  ASSUME Control, Control', Flow, TNext
  PROVE  Flow'
<1>1. /\ Len(sent) \in Nat /\ Len(sent) <= MaxEvents /\ MaxEvents \in Nat
      /\ sent \in Seq(ChunkTypes) /\ \A type \in ChunkTypes : Len(Append(sent, type)) = Len(sent) + 1
  BY TopFacts DEF Control
<1>2. \A type \in FrameTypes, n \in Nat : /\ Frame(type, n) \in Frames /\ Frame(type, n).n = n
                                          /\ type \in {"delta", "reasoning", "warning"} => IsText(Frame(type, n))
  BY DEF Frame, Frames, IsText
<1> DEFINE Quiet == /\ UNCHANGED <<full, wire, chan, seen>> /\ Top <= Top'
                    /\ body = "dropped" => body' = "dropped"
                    /\ \/ Late' = Late /\ (lost => lost')
                       \/ Late = "none" /\ (lost' \/ body' = "dropped")
<1>3. Quiet => Flow'
  BY QuietFlow
<1> HIDE DEF Quiet
<1>4. ASSUME NEW type \in ChunkTypes, ProcessJson(type) PROVE Flow'
  <2>1. /\ task = "reading" /\ task' = "reading" /\ tail' = tail /\ lost' = lost /\ body' = body
        /\ sent' = Append(sent, type) /\ UNCHANGED <<full, wire, seen>>
    BY <1>4 DEF ProcessJson, Reading, taskVars, clientVars
  <2>2. Late = "none" /\ Late' = "none" /\ Top = Len(sent) /\ Top' = Len(sent) + 1
    BY <1>1, <2>1 DEF Late, Top
  <2>3. chan' = chan => Quiet
    BY <1>1, <2>1, <2>2 DEF Quiet
  <2> DEFINE f == Frame(type, Len(sent) + 1)
  <2>4. ASSUME type \in {"delta", "reasoning"} PROVE f \in Frames /\ IsText(f) /\ f.n = Len(sent) + 1
    BY <1>1, <1>2, <2>4 DEF FrameTypes
  <2>5. chan' = chan \/ (type \in {"delta", "reasoning"} /\ chan' = Append(chan, f))
    BY <1>4, ProcessJsonCases DEF TrySend
  <2> HIDE DEF f
  <2>6. ASSUME type \in {"delta", "reasoning"}, chan' = Append(chan, f) PROVE Flow'
    <3>1. f \in Frames /\ IsText(f) /\ Top < f.n /\ f.n <= Top'
      BY <1>1, <2>2, <2>4, <2>6
    <3>2. QED  BY <2>1, <2>2, <2>6, <3>1, PutTextFlow
  <2>7. QED  BY <1>3, <2>3, <2>5, <2>6
<1>5. ASSUME StreamEnds PROVE Flow'
  <2>1. /\ task = "reading" /\ task' = "tail" /\ lost' = lost /\ body' = body
        /\ UNCHANGED <<full, wire, seen, sent>>
    BY <1>5 DEF StreamEnds, upstreamVars, clientVars
  <2>2. Late = "none" /\ Late' = "none" /\ Top = Len(sent) /\ Top' = MaxEvents + 1
    BY <2>1 DEF Late, Top
  <2>3. chan' = chan => Quiet
    BY <1>1, <2>1, <2>2 DEF Quiet
  <2> DEFINE f == Frame("warning", MaxEvents + 1)
  <2>4. f \in Frames /\ IsText(f) /\ f.n = MaxEvents + 1
    BY <1>1, <1>2 DEF FrameTypes
  <2>5. chan' = chan \/ chan' = Append(chan, f)
    BY <1>5 DEF StreamEnds, TrySend
  <2> HIDE DEF f
  <2>6. ASSUME chan' = Append(chan, f) PROVE Flow'
    <3>1. f \in Frames /\ IsText(f) /\ Top < f.n /\ f.n <= Top'
      BY <1>1, <2>2, <2>4
    <3>2. QED  BY <2>1, <2>2, <2>6, <3>1, PutTextFlow
  <2>7. QED  BY <1>3, <2>3, <2>5, <2>6
<1>6. ASSUME SendTail \/ TSendTail PROVE Flow'
  <2>1. /\ task = "tail" /\ task' = "ended" /\ body' = body
        /\ UNCHANGED <<full, wire, seen, tail, sent>>
        /\ \/ chan' = Append(chan, Frame(tail, 0))
           \/ chan' = chan /\ (body = "dropped" \/ lost')
    BY <1>6 DEF SendTail, TSendTail, upstreamVars, clientVars, Control
  <2>2. Late = "none" /\ Top' = Top
    BY <2>1 DEF Late, Top
  <2>3. CASE chan' = Append(chan, Frame(tail, 0))
    BY <2>1, <2>3, PutTailFlow
  <2>4. CASE chan' = chan /\ (body = "dropped" \/ lost')
    <3>1. Quiet
      BY <2>1, <2>2, <2>4, TopFacts DEF Quiet
    <3>2. QED  BY <1>3, <3>1
  <2>5. QED  BY <2>1, <2>3, <2>4
<1>7. ASSUME BodyDropped PROVE Flow'
  <2>1. chan' = <<>> /\ body' = "dropped" /\ UNCHANGED <<full, wire, seen, tail, task, sent>>
    BY <1>7 DEF BodyDropped, upstreamVars, clientVars, taskVars
  <2>2. Late' = Late /\ Top' = Top /\ Top \in Nat
    BY <2>1, TopFacts DEF Late, Top
  <2>3. Ordered(full, wire, <<>>, Top)
    BY <2>2, ClearOrdered DEF Flow
  <2>4. Clean(<<>>, Late)
    BY DEF Clean
  <2>5. QED  BY <2>1, <2>2, <2>3, <2>4 DEF Flow
<1> USE DEF taskVars, clientVars, upstreamVars
<1>8. ASSUME Granted \/ PermitTimeout \/ SendTimeout \/ Opens PROVE Flow'
  <2>1. /\ UNCHANGED <<full, wire, chan, seen, sent, tail, lost>> /\ (body = "dropped" => body' = "dropped")
        /\ task \notin {"tail", "ended"} /\ task' # "tail"
    BY <1>8 DEF Granted, PermitTimeout, SendTimeout, Opens, Control
  <2>2. Late = "none" /\ Late' = "none"
    BY <2>1 DEF Late, Control
  <2>3. Top <= Top'
    BY <1>1, <2>1 DEF Top
  <2>4. Quiet
    BY <2>1, <2>2, <2>3 DEF Quiet
  <2>5. QED  BY <1>3, <2>4
<1>9. ASSUME WarningPanics \/ StreamFails \/ TStreamEnds PROVE Flow'
  <2>1. /\ UNCHANGED <<full, wire, chan, seen, sent, lost, body>>
        /\ task \notin {"tail", "ended"} /\ (task' = "tail" \/ tail' = "none")
    BY <1>9 DEF WarningPanics, StreamFails, TStreamEnds, Reading, Control
  <2>2. Late = "none" /\ Late' = "none"
    BY <2>1 DEF Late
  <2>3. Top <= Top'
    BY <1>1, <2>1 DEF Top
  <2>4. Quiet
    BY <2>1, <2>2, <2>3 DEF Quiet
  <2>5. QED  BY <1>3, <2>4
<1>10. ASSUME TailTimeout PROVE Flow'
  <2>1. UNCHANGED <<full, wire, chan, seen, sent, body>> /\ task = "tail" /\ task' = "ended" /\ lost' = TRUE
    BY <1>10 DEF TailTimeout, Blocked
  <2>2. Late = "none" /\ Top' = Top
    BY <2>1 DEF Late, Top
  <2>3. Quiet
    BY <2>1, <2>2, TopFacts DEF Quiet
  <2>4. QED  BY <1>3, <2>3
<1>11. ASSUME BodyEnds \/ ReadPart \/ ReadEof \/ IdleTimeout \/ ClientGone \/ Tick \/ TTick PROVE Flow'
  <2>1. UNCHANGED <<full, wire, chan, seen, sent, task, tail, lost>> /\ (body = "dropped" => body' = "dropped")
    BY <1>11 DEF BodyEnds, ReadPart, ReadEof, IdleTimeout, ClientGone, ClientEnds, Tick, TTick
  <2>2. Late' = Late /\ Top' = Top
    BY <2>1 DEF Late, Top
  <2>3. Quiet
    BY <2>1, <2>2, TopFacts DEF Quiet
  <2>4. QED  BY <1>3, <2>3
<1>12. ASSUME TPermitTimeout PROVE Flow'
  <2>1. /\ UNCHANGED <<full, wire, chan, seen, sent, tail, lost>> /\ body # "dropped"
        /\ task = "permit" /\ task' # "tail"
    BY <1>12 DEF TPermitTimeout, Control
  <2>2. Late = "none" /\ Late' = "none"
    BY <2>1 DEF Late, Control
  <2>3. Top <= Top'
    BY <1>1, <2>1 DEF Top
  <2>4. Quiet
    BY <2>1, <2>2, <2>3 DEF Quiet
  <2>5. QED  BY <1>3, <2>4
<1>13. ASSUME NEW type \in ChunkTypes, Splice(type) \/ TSwallow(type) PROVE Flow'
  <2>1. /\ UNCHANGED <<full, wire, chan, seen, task, tail, lost, body>> /\ task = "reading"
        /\ sent' = Append(sent, type)
    BY <1>13 DEF Splice, TSwallow, Reading
  <2>2. Late' = Late /\ Top <= Top'
    BY <1>1, <2>1 DEF Late, Top
  <2>3. Quiet
    BY <2>1, <2>2 DEF Quiet
  <2>4. QED  BY <1>3, <2>3
<1>14. QED
  BY <1>4, <1>5, <1>6, <1>7, <1>8, <1>9, <1>10, <1>11, <1>12, <1>13, PollFlow, ReadFlow, Steps DEF Common

-----------------------------------------------------------------------------
(* The tool call *)

NoFragmentSwallowed == \A n \in swallowed : sent[n] # "tool"

\* What the fragments of a call come to when all of them arrive, and otherwise.
Arrived == {"none", "named", "partial", "whole"}
Damaged == {"nameless", "spliced"}

\* The caller has the tool call of the done frame it read; that of the response
\* is what the fragments came to.
Tools ==
  /\ edition \in {"rust-ref", "a2r"}
  /\ swallowed \subseteq 1..Len(sent)
  /\ accum \in Arrived \cup Damaged
  /\ accum \in Damaged => edition = "a2r" /\ ~NoFragmentSwallowed
  /\ sent = <<>> => accum = "none"
  /\ tail = "done" => resp \in TToolCalls(accum)
  /\ calls = IF "done" \in seen THEN resp ELSE "none"

\* An event more leaves the fragments that were swallowed.
LEMMA SwallowedStays ==
  ASSUME NEW s \in Seq(ChunkTypes), NEW type \in ChunkTypes, NEW some \in SUBSET (1..Len(s))
  PROVE  /\ some \subseteq 1..Len(Append(s, type))
         /\ (\A n \in some : Append(s, type)[n] # "tool") <=> (\A n \in some : s[n] # "tool")
         /\ Len(s) + 1 \in 1..Len(Append(s, type)) /\ Append(s, type)[Len(s) + 1] = type
<1>1. /\ Len(s) \in Nat /\ Len(Append(s, type)) = Len(s) + 1 /\ Append(s, type)[Len(s) + 1] = type
      /\ \A i \in 1..Len(s) : Append(s, type)[i] = s[i]
  OBVIOUS
<1>2. QED  BY <1>1

\* Every step keeps what the tool call is assembled from.
LEMMA ToolsStep ==
  ASSUME Control, Control', Flow, Tools, TNext
  PROVE  Tools'
<1>1. sent \in Seq(ChunkTypes) /\ edition' = edition /\ edition \in {"rust-ref", "a2r"}
  BY Steps DEF Control, Tools
<1>2. swallowed \in SUBSET (1..Len(sent)) /\ calls = IF "done" \in seen THEN resp ELSE "none"
  BY DEF Tools
<1>3. task # "ended" => seen = {}
  BY DEF Flow, Late
<1> USE DEF Arrived, Damaged
<1> DEFINE Kept == /\ UNCHANGED <<sent, swallowed, accum, tail, resp, seen, calls>>
<1>4. Kept => Tools'
  BY <1>1 DEF Tools, NoFragmentSwallowed
<1> USE DEF taskVars, clientVars, upstreamVars
<1>5. ASSUME Granted \/ PermitTimeout \/ SendTimeout \/ Opens \/ WarningPanics \/ SendTail \/ TailTimeout \/ PollBody
             \/ BodyEnds \/ BodyDropped \/ ReadPart \/ ReadEof \/ IdleTimeout \/ ClientGone \/ Tick,
             UNCHANGED swallowed
      PROVE  Kept
  BY <1>5 DEF Granted, PermitTimeout, SendTimeout, Opens, WarningPanics, SendTail, TailTimeout, PollBody, BodyEnds,
              BodyDropped, ReadPart, ReadEof, IdleTimeout, ClientGone, ClientEnds, Tick
<1>6. ASSUME TPermitTimeout \/ TSendTail \/ TTick PROVE Kept
  BY <1>6 DEF TPermitTimeout, TSendTail, TTick
<1>7. ASSUME StreamFails, UNCHANGED swallowed PROVE Tools'
  BY <1>1, <1>7 DEF StreamFails, Tools, NoFragmentSwallowed
<1>8. ASSUME NEW type \in ChunkTypes, ProcessJson(type), UNCHANGED swallowed PROVE Tools'
  <2>1. /\ UNCHANGED <<tail, resp, seen, calls>> /\ task = "reading" /\ sent' = Append(sent, type)
    BY <1>8 DEF ProcessJson, Reading
  <2>2. tail = "none"
    BY <2>1 DEF Control
  <2>3. swallowed' \subseteq 1..Len(sent') /\ (NoFragmentSwallowed' <=> NoFragmentSwallowed)
    BY <1>1, <1>2, <1>8, <2>1, SwallowedStays DEF NoFragmentSwallowed
  <2>4. accum' = accum \/ accum' \in {"named", "partial", "whole"}
    BY <1>8, ProcessJsonCases DEF NextAccum, Tools
  <2>5. QED  BY <1>1, <1>2, <2>1, <2>2, <2>3, <2>4 DEF Tools
<1>9. ASSUME NEW type \in ChunkTypes, Splice(type) PROVE Tools'
  <2>1. /\ UNCHANGED <<tail, resp, seen, calls, accum, swallowed>> /\ task = "reading" /\ sent' = Append(sent, type)
    BY <1>9 DEF Splice, Reading
  <2>2. tail = "none"
    BY <2>1 DEF Control
  <2>3. swallowed' \subseteq 1..Len(sent') /\ (NoFragmentSwallowed' <=> NoFragmentSwallowed)
    BY <1>1, <1>2, <2>1, SwallowedStays DEF NoFragmentSwallowed
  <2>4. QED  BY <1>1, <1>2, <2>1, <2>2, <2>3 DEF Tools
<1>10. ASSUME NEW type \in ChunkTypes, TSwallow(type) PROVE Tools'
  <2>1. /\ UNCHANGED <<tail, resp, seen, calls>> /\ task = "reading" /\ sent' = Append(sent, type)
        /\ swallowed' = swallowed \cup {Len(sent) + 1} /\ edition = "a2r"
        /\ IF type = "tool" THEN accum' \in Damaged ELSE accum' = accum
    BY <1>10 DEF TSwallow, Reading
  <2>2. tail = "none"
    BY <2>1 DEF Control
  <2>3. /\ swallowed \subseteq 1..Len(sent')
        /\ (\A n \in swallowed : sent'[n] # "tool") <=> NoFragmentSwallowed
        /\ Len(sent) + 1 \in 1..Len(sent') /\ sent'[Len(sent) + 1] = type
    <3> DEFINE after == Append(sent, type)
    <3>1. /\ swallowed \subseteq 1..Len(after)
          /\ (\A n \in swallowed : after[n] # "tool") <=> (\A n \in swallowed : sent[n] # "tool")
          /\ Len(sent) + 1 \in 1..Len(after) /\ after[Len(sent) + 1] = type
      BY <1>1, <1>2, SwallowedStays
    <3>2. sent' = after
      BY <2>1
    <3>3. NoFragmentSwallowed <=> (\A n \in swallowed : sent[n] # "tool")
      BY DEF NoFragmentSwallowed
    <3> HIDE DEF after
    <3>4. QED  BY <3>1, <3>2, <3>3
  <2>4. NoFragmentSwallowed' <=> NoFragmentSwallowed /\ type # "tool"
    BY <2>1, <2>3 DEF NoFragmentSwallowed
  <2>5. sent' # <<>> /\ edition' = "a2r" /\ tail' = "none" /\ swallowed' \subseteq 1..Len(sent')
    <3>1. sent' # <<>>
      BY <2>3
    <3>2. edition' = "a2r" /\ tail' = "none"
      BY <1>1, <2>1, <2>2
    <3>3. swallowed' \subseteq 1..Len(sent')
      BY <2>1, <2>3
    <3>4. QED  BY <3>1, <3>2, <3>3
  <2>6. accum' \in Arrived \cup Damaged
    BY <2>1 DEF Tools
  <2>7. accum' \in Damaged => ~NoFragmentSwallowed'
    BY <2>1, <2>4 DEF Tools
  <2>8. calls' = IF "done" \in seen' THEN resp' ELSE "none"
    BY <1>2, <2>1
  <2>9. QED  BY <2>5, <2>6, <2>7, <2>8 DEF Tools
<1>11. ASSUME StreamEnds, UNCHANGED swallowed, edition = "rust-ref" PROVE Tools'
  <2>1. UNCHANGED <<seen, calls, accum, sent>> /\ task = "reading" /\ resp' = ToolCall(accum)
    BY <1>11 DEF StreamEnds
  <2>2. accum \in Arrived
    BY <1>11 DEF Tools
  <2>3. resp' \in TToolCalls(accum)
    BY <2>1, <2>2 DEF TToolCalls
  <2>4. QED  BY <1>1, <1>2, <1>3, <1>11, <2>1, <2>2, <2>3 DEF Tools, NoFragmentSwallowed
<1>12. ASSUME TStreamEnds PROVE Tools'
  <2>1. UNCHANGED <<seen, calls, accum, sent, swallowed>> /\ task = "reading" /\ resp' \in TToolCalls(accum)
    BY <1>12 DEF TStreamEnds
  <2>2. QED  BY <1>1, <1>2, <1>3, <2>1 DEF Tools, NoFragmentSwallowed
<1>13. ASSUME ReadFrame, UNCHANGED swallowed PROVE Tools'
  <2> DEFINE f == Head(wire)
             text == f.type \in {"delta", "reasoning", "warning"}
  <2>1. /\ UNCHANGED <<sent, accum, tail, resp>>
        /\ seen' = IF text THEN seen ELSE seen \cup {f.type}
        /\ calls' = IF f.type = "done" THEN resp ELSE calls
    BY <1>13 DEF ReadFrame
  <2>2. calls' = IF "done" \in seen' THEN resp ELSE "none"
    BY <1>2, <2>1
  <2>3. QED  BY <1>1, <1>13, <2>1, <2>2 DEF Tools, NoFragmentSwallowed
<1>14. QED
  BY <1>4, <1>5, <1>6, <1>7, <1>8, <1>9, <1>10, <1>11, <1>12, <1>13, Steps DEF Common

-----------------------------------------------------------------------------
(* The end without a tail frame *)

\* A given-up tail frame left a channel full of text, and nothing but text is on
\* its way.
GivenUp ==
  lost => /\ task = "ended" /\ seen = {}
          /\ Clean(wire, "none") /\ Clean(chan, "none")
          /\ body # "dropped" => Len(full) + Len(wire) + Len(chan) >= ChanCap

\* A task that ended without one either died or never had a permit.
Tailless ==
  /\ task \in {"permit", "opening"} => sent = <<>>
  /\ (task = "ended" /\ tail = "none" /\ client \notin {"failed", "gone"}) => Panicked \/ Unserved
  /\ GivenUp

\* Taking the first frame off a sequence.
LEMMA CleanTail ==
  ASSUME NEW seq \in Seq(Frames), seq # <<>>, Clean(seq, "none")
  PROVE  /\ Clean(Tail(seq), "none") /\ IsText(Head(seq)) /\ Head(seq) \in Frames
         /\ Len(Tail(seq)) = Len(seq) - 1 /\ Len(seq) \in Nat
<1> DEFINE rest == Tail(seq)
<1>1. /\ Head(seq) \in Frames /\ Head(seq) = seq[1] /\ 1 \in 1..Len(seq) /\ Len(seq) \in Nat
      /\ Len(rest) = Len(seq) - 1
      /\ \A i \in 1..Len(rest) : rest[i] = seq[i + 1] /\ i + 1 \in 1..Len(seq)
  BY TailFacts
<1>2. Head(seq).type # "none"
  BY <1>1 DEF Frames, FrameTypes
<1>3. IsText(Head(seq))
  BY <1>1, <1>2 DEF Clean
<1> HIDE DEF rest
<1>4. Clean(rest, "none")
  BY <1>1 DEF Clean
<1>5. QED  BY <1>1, <1>3, <1>4 DEF rest

\* Frames of a given-up stream move on and are not lost.
LEMMA GivenUpMoves ==
  ASSUME Control, Control', Flow, Flow', GivenUp, PollBody \/ ReadFrame
  PROVE  GivenUp'
<1>1. /\ lost' = lost /\ task' = task /\ body' = body
      /\ chan \in Seq(Frames) /\ wire \in Seq(Frames) /\ full \in Seq(Nat) /\ ChanCap \in Nat
  BY BridgeAssumption DEF PollBody, ReadFrame, taskVars, Flow, Ordered
<1> SUFFICES ASSUME lost
             PROVE  /\ seen' = {} /\ Clean(wire', "none") /\ Clean(chan', "none")
                    /\ body # "dropped" => Len(full') + Len(wire') + Len(chan') >= ChanCap
  BY <1>1 DEF GivenUp
<1>2. /\ seen = {} /\ Clean(wire, "none") /\ Clean(chan, "none")
      /\ body # "dropped" => Len(full) + Len(wire) + Len(chan) >= ChanCap
  BY DEF GivenUp
<1>3. CASE PollBody
  <2> DEFINE f == Head(chan)
             more == Append(wire, f)
  <2>1. chan # <<>> /\ wire' = more /\ chan' = Tail(chan) /\ UNCHANGED <<full, seen>>
    BY <1>3 DEF PollBody, clientVars
  <2>2. /\ Clean(Tail(chan), "none") /\ IsText(f) /\ f \in Frames
        /\ Len(Tail(chan)) = Len(chan) - 1 /\ Len(chan) \in Nat
    BY <1>1, <1>2, <2>1, CleanTail
  <2> HIDE DEF f
  <2>3. /\ Len(more) = Len(wire) + 1 /\ more[Len(wire) + 1] = f /\ Len(wire) \in Nat
        /\ \A i \in 1..Len(wire) : more[i] = wire[i]
        /\ \A i \in 1..Len(wire) + 1 : i \in 1..Len(wire) \/ i = Len(wire) + 1
    BY <1>1, <2>2, AppendFacts
  <2> HIDE DEF more
  <2>4. Clean(more, "none")
    BY <1>2, <2>2, <2>3 DEF Clean
  <2>5. Len(full) \in Nat
    BY <1>1
  <2>6. Len(full') + Len(wire') + Len(chan') = Len(full) + Len(wire) + Len(chan)
    BY <2>1, <2>2, <2>3, <2>5
  <2>7. QED  BY <1>2, <2>1, <2>2, <2>4, <2>6
<1>4. CASE ReadFrame
  <2>1. wire # <<>> /\ wire' = Tail(wire) /\ chan' = chan
    BY <1>4 DEF ReadFrame
  <2>2. /\ Clean(Tail(wire), "none") /\ IsText(Head(wire)) /\ Head(wire) \in Frames
        /\ Len(Tail(wire)) = Len(wire) - 1 /\ Len(wire) \in Nat
    BY <1>1, <1>2, <2>1, CleanTail
  <2>3. seen' = seen /\ full' = Append(full, IF carry THEN 0 ELSE Head(wire).n)
    BY <1>4, <2>2 DEF ReadFrame, IsText
  <2>4. (IF carry THEN 0 ELSE Head(wire).n) \in Nat
    BY <2>2 DEF Frames
  <2>5. Len(full') = Len(full) + 1 /\ Len(full) \in Nat /\ Len(chan) \in Nat
    BY <1>1, <2>3, <2>4
  <2>6. Len(full') + Len(wire') + Len(chan') = Len(full) + Len(wire) + Len(chan)
    BY <2>1, <2>2, <2>5
  <2>7. QED  BY <1>2, <2>1, <2>2, <2>3, <2>6
<1>5. QED  BY <1>3, <1>4

\* Only a task at its tail frame can give it up, at a full channel.
LEMMA GivenUpStarts ==
  ASSUME Control, Flow, task = "tail", task' = "ended", UNCHANGED <<full, wire, chan, seen, body>>,
         Len(chan) >= ChanCap
  PROVE  GivenUp'
<1>1. /\ Late = "none" /\ chan \in Seq(Frames) /\ wire \in Seq(Frames) /\ full \in Seq(Nat) /\ ChanCap \in Nat
  BY BridgeAssumption DEF Late, Flow, Ordered
<1>2. seen = {} /\ Clean(wire, "none") /\ Clean(chan, "none")
  BY <1>1 DEF Flow
<1>3. Len(full) \in Nat /\ Len(wire) \in Nat /\ Len(chan) \in Nat
  BY <1>1
<1>4. Len(full) + Len(wire) + Len(chan) >= ChanCap
  BY <1>1, <1>3
<1>5. QED  BY <1>2, <1>4 DEF GivenUp

\* Every step keeps how a stream may end without its tail frame.
LEMMA TaillessStep ==
  ASSUME Control, Control', Flow, Flow', Tools, Tailless, TNext
  PROVE  Tailless'
<1>1. edition' = edition /\ edition \in {"rust-ref", "a2r"} /\ ChanCap \in Nat /\ chan \in Seq(Frames)
  BY Steps, BridgeAssumption DEF Tools, Control
<1> DEFINE Early == task' \in {"permit", "opening"} => sent' = <<>>
           Late2 == (task' = "ended" /\ tail' = "none" /\ client' \notin {"failed", "gone"}) => Panicked' \/ Unserved'
<1>2. Early /\ Late2 /\ GivenUp' => Tailless'
  BY DEF Tailless
<1> USE DEF taskVars, clientVars, upstreamVars
\* The task and what it knows stay.
<1>3. ASSUME UNCHANGED <<task, tail, sent, accum, cand>>, client' = client \/ client' \in {"failed", "gone"} \/ client = "reading"
      PROVE  Early /\ Late2
  BY <1>1, <1>3 DEF Tailless, Panicked, Unserved
\* A task that has not ended has given nothing up.
<1>4. ASSUME task # "ended", lost' = lost PROVE GivenUp'
  BY <1>4 DEF Tailless, GivenUp
<1>5. ASSUME UNCHANGED <<lost, task, full, wire, chan, seen, body>> PROVE GivenUp'
  BY <1>5 DEF Tailless, GivenUp
<1>6. CASE Granted \/ PermitTimeout \/ SendTimeout \/ Opens
  <2>1. /\ task \in {"permit", "opening"} /\ lost' = lost /\ sent' = sent
        /\ task' = "ended" => client' = "failed"
    BY <1>6 DEF Granted, PermitTimeout, SendTimeout, Opens, Control
  <2>2. QED  BY <1>2, <1>4, <2>1 DEF Tailless
<1>7. CASE (\E type \in ChunkTypes : ProcessJson(type)) \/ StreamEnds \/ TStreamEnds
           \/ \E type \in ChunkTypes : Splice(type) \/ TSwallow(type)
  <2>1. task = "reading" /\ task' \in {"reading", "tail"} /\ lost' = lost
    BY <1>7 DEF ProcessJson, StreamEnds, TStreamEnds, Splice, TSwallow, Reading
  <2>2. QED  BY <1>2, <1>4, <2>1
<1>8. CASE StreamFails
  <2>1. task # "ended" /\ task' = "tail" /\ lost' = lost
    BY <1>8 DEF StreamFails, Reading
  <2>2. QED  BY <1>2, <1>4, <2>1
<1>9. CASE WarningPanics /\ edition = "rust-ref"
  <2>1. task = "reading" /\ task' = "ended" /\ lost' = lost /\ tail' = tail /\ accum' = accum /\ accum = "partial"
    BY <1>9 DEF WarningPanics
  <2>2. Late2
    BY <1>1, <1>9, <2>1 DEF Panicked
  <2>3. QED  BY <1>2, <1>4, <2>1, <2>2
<1>10. CASE SendTail
  <2>1. task = "tail" /\ task' = "ended" /\ tail' = tail /\ lost' = lost /\ tail # "none"
    BY <1>10 DEF SendTail, Control
  <2>2. QED  BY <1>2, <1>4, <2>1
<1>11. CASE TailTimeout
  <2>1. /\ task = "tail" /\ task' = "ended" /\ tail' = tail /\ tail # "none" /\ Len(chan) >= ChanCap
        /\ UNCHANGED <<full, wire, chan, seen, body>>
    BY <1>1, <1>11 DEF TailTimeout, Blocked, Control
  <2>2. QED  BY <1>2, <2>1, GivenUpStarts
<1>12. CASE TSendTail
  <2>1. /\ task = "tail" /\ task' = "ended" /\ tail' = tail /\ tail # "none"
        /\ UNCHANGED <<full, wire, seen, body>>
    BY <1>12 DEF TSendTail, Control
  <2>2. CASE lost'
    <3>0. ~(Len(chan) < ChanCap) /\ chan' = chan
      BY <1>12, <2>2 DEF TSendTail
    <3>1. Len(chan) >= ChanCap /\ chan' = chan
      BY <1>1, <3>0
    <3>2. QED  BY <1>2, <2>1, <3>1, GivenUpStarts
  <2>3. CASE ~lost'
    <3>1. GivenUp'
      BY <2>3 DEF GivenUp
    <3>2. QED  BY <1>2, <2>1, <3>1
  <2>4. QED  BY <2>2, <2>3
<1>13. CASE PollBody \/ ReadFrame
  <2>1. UNCHANGED <<task, tail, sent, accum, cand, client>>
    BY <1>13 DEF PollBody, ReadFrame
  <2>2. GivenUp'
    BY <1>13, GivenUpMoves DEF Tailless
  <2>3. QED  BY <1>2, <1>3, <2>1, <2>2
<1>14. CASE BodyDropped
  <2>1. /\ UNCHANGED <<task, tail, sent, accum, cand, client, lost, wire, seen>> /\ chan' = <<>> /\ body' = "dropped"
    BY <1>14 DEF BodyDropped
  <2>2. Clean(chan', "none")
    BY <2>1 DEF Clean
  <2>3. GivenUp'
    BY <2>1, <2>2 DEF Tailless, GivenUp
  <2>4. QED  BY <1>2, <1>3, <2>1, <2>3
<1>15. CASE BodyEnds
  <2>1. /\ UNCHANGED <<task, tail, sent, accum, cand, client, lost, full, wire, chan, seen>> /\ body = "open"
    BY <1>15 DEF BodyEnds
  <2>2. GivenUp'
    BY <2>1 DEF Tailless, GivenUp
  <2>3. QED  BY <1>2, <1>3, <2>1, <2>2
<1>16. CASE ReadPart \/ ReadEof \/ IdleTimeout \/ ClientGone \/ Tick \/ TTick
  <2>1. /\ UNCHANGED <<task, tail, sent, accum, cand, lost, full, wire, chan, seen, body>>
        /\ client' = client \/ client = "reading"
    BY <1>16 DEF ReadPart, ReadEof, IdleTimeout, Waiting, ClientGone, ClientEnds, Tick, TTick
  <2>2. QED  BY <1>2, <1>3, <1>5, <2>1
<1>17. CASE TPermitTimeout
  <2>1. /\ task = "permit" /\ lost' = lost /\ sent' = sent /\ sent = <<>> /\ tail' = tail /\ edition = "a2r"
        /\ task' = "ended" => cand' = Candidates
    BY <1>17 DEF TPermitTimeout, Tailless
  <2>2. Late2
    BY <1>1, <2>1 DEF Unserved
  <2>3. QED  BY <1>2, <1>4, <2>1, <2>2
<1>18. QED
  BY <1>6, <1>7, <1>8, <1>9, <1>10, <1>11, <1>12, <1>13, <1>14, <1>15, <1>16, <1>17, Steps DEF Common

-----------------------------------------------------------------------------
(* Where each text is *)

\* A frame with the text of event n is in seq.
Holds(seq, n) == \E i \in 1..Len(seq) : IsText(seq[i]) /\ seq[i].n = n

\* The texts that were said, not lost in a known place, and are not whole
\* anywhere on the way to the caller.
Missing ==
  {n \in Texts : /\ n \notin dropped /\ n \notin swallowed /\ n \notin ToSet(full)
                 /\ ~Holds(wire, n) /\ ~Holds(chan, n)}

\* The places of the spoilt texts.
Spoilt(read) == {i \in DOMAIN read : read[i] = 0}

\* Every missing text is one that was spoilt, as long as nobody threw the
\* channel away.
Accounted ==
  /\ Len(chan) <= ChanCap
  /\ body # "dropped" => Cardinality(Missing) <= Cardinality(Spoilt(full))

\* Fewer of the one and more of the other keep the order of their sizes.
LEMMA FewerStays ==
  ASSUME NEW A, NEW B, NEW C, NEW D, IsFiniteSet(A), IsFiniteSet(D), B \subseteq A, C \subseteq D,
         Cardinality(A) <= Cardinality(C)
  PROVE  Cardinality(B) <= Cardinality(D)
<1>1. IsFiniteSet(B) /\ Cardinality(B) <= Cardinality(A)
  BY FS_Subset
<1>2. IsFiniteSet(C) /\ Cardinality(C) <= Cardinality(D)
  BY FS_Subset
<1>3. /\ Cardinality(A) \in Nat /\ Cardinality(B) \in Nat /\ Cardinality(C) \in Nat /\ Cardinality(D) \in Nat
  BY <1>1, <1>2, FS_CardinalityType
<1>4. QED  BY <1>1, <1>2, <1>3

\* One more of each does, too.
LEMMA OneMoreStays ==
  ASSUME NEW A, NEW B, NEW C, NEW x, NEW y, IsFiniteSet(A), IsFiniteSet(C), B \subseteq A \cup {x}, y \notin C,
         Cardinality(A) <= Cardinality(C)
  PROVE  Cardinality(B) <= Cardinality(C \cup {y})
<1>1. /\ IsFiniteSet(A \cup {x}) /\ Cardinality(A \cup {x}) = IF x \in A THEN Cardinality(A) ELSE Cardinality(A) + 1
      /\ IsFiniteSet(C \cup {y}) /\ Cardinality(C \cup {y}) = Cardinality(C) + 1
  BY FS_AddElement
<1>2. IsFiniteSet(B) /\ Cardinality(B) <= Cardinality(A \cup {x})
  BY <1>1, FS_Subset
<1>3. Cardinality(A) \in Nat /\ Cardinality(B) \in Nat /\ Cardinality(C) \in Nat /\ Cardinality(A \cup {x}) \in Nat
  BY <1>1, <1>2, FS_CardinalityType
<1>4. Cardinality(B) <= Cardinality(A) + 1
  BY <1>1, <1>2, <1>3
<1>5. QED  BY <1>1, <1>3, <1>4

\* There are finitely many of either.
LEMMA CountsFinite ==
  ASSUME Control, Flow PROVE IsFiniteSet(Missing) /\ IsFiniteSet(Spoilt(full))
<1>1. Len(sent) \in Nat /\ Len(full) \in Nat /\ DOMAIN full = 1..Len(full)
  BY DEF Control, Flow, Ordered
<1>2. IsFiniteSet(1..Len(sent)) /\ IsFiniteSet(1..Len(full))
  BY <1>1, FS_Interval
<1>3. Missing \in SUBSET (1..Len(sent)) /\ Spoilt(full) \in SUBSET (1..Len(full))
  BY <1>1 DEF Missing, Texts, Spoilt
<1>4. QED  BY <1>2, <1>3, FS_Subset

\* A frame at the end, or the first one gone.
LEMMA HoldsAppended ==
  ASSUME NEW seq \in Seq(Frames), NEW f \in Frames
  PROVE  \A n : Holds(Append(seq, f), n) <=> Holds(seq, n) \/ (IsText(f) /\ f.n = n)
<1> DEFINE more == Append(seq, f)
<1>1. /\ Len(more) = Len(seq) + 1 /\ more[Len(seq) + 1] = f /\ Len(seq) \in Nat
      /\ \A i \in 1..Len(seq) : more[i] = seq[i]
      /\ \A i \in 1..Len(seq) + 1 : i \in 1..Len(seq) \/ i = Len(seq) + 1
  BY AppendFacts
<1>2. 1..Len(seq) \subseteq 1..Len(seq) + 1 /\ Len(seq) + 1 \in 1..Len(seq) + 1
  BY <1>1
<1> HIDE DEF more
<1>3. \A n : Holds(more, n) <=> Holds(seq, n) \/ (IsText(f) /\ f.n = n)
  BY <1>1, <1>2 DEF Holds
<1>4. QED  BY <1>3 DEF more

\* What the head had is all that goes with it.
LEMMA HoldsTail ==
  ASSUME NEW seq \in Seq(Frames), seq # <<>>
  PROVE  \A n : Holds(seq, n) <=> Holds(Tail(seq), n) \/ (IsText(Head(seq)) /\ Head(seq).n = n)
<1> DEFINE rest == Tail(seq)
<1>1. /\ Head(seq) = seq[1] /\ 1 \in 1..Len(seq) /\ Len(seq) \in Nat /\ Len(rest) = Len(seq) - 1
      /\ \A i \in 1..Len(rest) : rest[i] = seq[i + 1] /\ i + 1 \in 1..Len(seq)
  BY TailFacts
<1> HIDE DEF rest
<1>2. \A i \in 1..Len(seq) : i = 1 \/ (i - 1 \in 1..Len(rest) /\ seq[i] = rest[i - 1])
  <2>1. SUFFICES ASSUME NEW i \in 1..Len(seq), i # 1 PROVE i - 1 \in 1..Len(rest) /\ seq[i] = rest[i - 1]
    OBVIOUS
  <2>2. i - 1 \in 1..Len(rest) /\ (i - 1) + 1 = i
    BY <1>1, <2>1
  <2>3. QED  BY <1>1, <2>2
<1>3. \A n : Holds(seq, n) <=> Holds(rest, n) \/ (IsText(Head(seq)) /\ Head(seq).n = n)
  <2>1. SUFFICES ASSUME NEW n PROVE Holds(seq, n) <=> Holds(rest, n) \/ (IsText(seq[1]) /\ seq[1].n = n)
    BY <1>1
  <2>2. ASSUME Holds(seq, n) PROVE Holds(rest, n) \/ (IsText(seq[1]) /\ seq[1].n = n)
    BY <1>2, <2>2 DEF Holds
  <2>3. ASSUME Holds(rest, n) PROVE Holds(seq, n)
    BY <1>1, <2>3 DEF Holds
  <2>4. ASSUME IsText(seq[1]) /\ seq[1].n = n PROVE Holds(seq, n)
    BY <1>1, <2>4 DEF Holds
  <2>5. QED  BY <2>2, <2>3, <2>4
<1>4. QED  BY <1>3 DEF rest

\* What has been read once one more text is.
LEMMA ReadAppended ==
  ASSUME NEW read \in Seq(Nat), NEW x \in Nat
  PROVE  /\ ToSet(Append(read, x)) = ToSet(read) \cup {x}
         /\ Spoilt(Append(read, x)) = IF x = 0 THEN Spoilt(read) \cup {Len(read) + 1} ELSE Spoilt(read)
         /\ Len(read) + 1 \notin Spoilt(read)
<1> DEFINE more == Append(read, x)
           n == Len(read)
<1>1. /\ Len(more) = n + 1 /\ more[n + 1] = x /\ n \in Nat
      /\ \A i \in 1..n : more[i] = read[i]
      /\ \A i \in 1..n + 1 : i \in 1..n \/ i = n + 1
      /\ DOMAIN more = 1..n + 1 /\ DOMAIN read = 1..n
  BY AppendFacts
<1>2. 1..n \subseteq 1..n + 1 /\ n + 1 \in 1..n + 1 /\ n + 1 \notin 1..n
  BY <1>1
<1> HIDE DEF more, n
<1>3. ToSet(more) = ToSet(read) \cup {x}
  BY <1>1, <1>2 DEF ToSet
<1>4. Spoilt(more) = (IF x = 0 THEN Spoilt(read) \cup {n + 1} ELSE Spoilt(read)) /\ n + 1 \notin Spoilt(read)
  BY <1>1, <1>2 DEF Spoilt
<1>5. QED  BY <1>3, <1>4 DEF more, n

\* A text the provider says is the newest, and leaves the older ones.
LEMMA TextsAppended ==
  ASSUME NEW type \in ChunkTypes, sent \in Seq(ChunkTypes), sent' = Append(sent, type)
  PROVE  Texts' = IF type \in {"delta", "reasoning"} THEN Texts \cup {Len(sent) + 1} ELSE Texts
<1> DEFINE more == Append(sent, type)
           n == Len(sent)
<1>1. /\ Len(more) = n + 1 /\ more[n + 1] = type /\ n \in Nat
      /\ \A i \in 1..n : more[i] = sent[i]
      /\ \A i \in 1..n + 1 : i \in 1..n \/ i = n + 1
  BY AppendFacts
<1>2. 1..n \subseteq 1..n + 1 /\ n + 1 \in 1..n + 1
  BY <1>1
<1>3. Len(sent') = Len(more) /\ \A i : sent'[i] = more[i]
  OBVIOUS
<1> HIDE DEF more
<1>4. Texts' = {i \in 1..n + 1 : more[i] \in {"delta", "reasoning"}}
  BY <1>1, <1>3 DEF Texts
<1>5. Texts = {i \in 1..n : sent[i] \in {"delta", "reasoning"}}
  BY DEF Texts
<1> HIDE DEF n
<1>6. Texts' = IF type \in {"delta", "reasoning"} THEN Texts \cup {n + 1} ELSE Texts
  BY <1>1, <1>2, <1>4, <1>5
<1>7. QED  BY <1>6 DEF n

\* Steps after which no text is missing that was not before.
LEMMA AccountedKept ==
  ASSUME Control, Control', Flow, Flow', Accounted, UNCHANGED full, Missing' \subseteq Missing, Len(chan') <= ChanCap,
         body = "dropped" => body' = "dropped"
  PROVE  Accounted'
<1>1. IsFiniteSet(Missing) /\ IsFiniteSet(Spoilt(full))
  BY CountsFinite
<1>2. ASSUME body # "dropped" PROVE Cardinality(Missing') <= Cardinality(Spoilt(full))
  <2>1. Cardinality(Missing) <= Cardinality(Spoilt(full))
    BY <1>2 DEF Accounted
  <2>2. QED  BY <1>1, <2>1, FewerStays
<1>3. Spoilt(full') = Spoilt(full)
  OBVIOUS
<1>4. QED  BY <1>2, <1>3 DEF Accounted

\* An event of the provider: its text is dropped or put into the channel, which
\* has room for it or not.
LEMMA AccountedSaid ==
  ASSUME Control, Control', Flow, Flow', Accounted, NEW type \in ChunkTypes, ProcessJson(type), UNCHANGED swallowed
  PROVE  Accounted'
<1> DEFINE n == Len(sent) + 1
           f == Frame(type, n)
<1>1. /\ UNCHANGED <<full, wire, body>> /\ body = "open" /\ sent' = Append(sent, type)
      /\ sent \in Seq(ChunkTypes) /\ chan \in Seq(Frames) /\ Len(chan) \in Nat /\ Len(chan) <= ChanCap /\ ChanCap \in Nat
      /\ n \in Nat
  BY BridgeAssumption DEF ProcessJson, Reading, Control, Accounted, clientVars
<1>2. Texts' = IF type \in {"delta", "reasoning"} THEN Texts \cup {n} ELSE Texts
  BY <1>1, TextsAppended
<1>3. CASE type \notin {"delta", "reasoning"}
  <2>1. UNCHANGED <<chan, dropped>>
    BY <1>3 DEF ProcessJson
  <2>2. Missing' \subseteq Missing
    BY <1>1, <1>2, <1>3, <2>1 DEF Missing
  <2>3. QED  BY <1>1, <2>1, <2>2, AccountedKept
<1>4. CASE type \in {"delta", "reasoning"}
  <2>1. f \in Frames /\ IsText(f) /\ f.n = n
    BY <1>1, <1>4 DEF Frame, Frames, FrameTypes, IsText
  <2>2. TrySend(f)
    BY <1>4 DEF ProcessJson
  <2> HIDE DEF f, n
  <2>3. CASE Len(chan) < ChanCap
    <3>1. chan' = Append(chan, f) /\ dropped' = dropped /\ Len(chan') <= ChanCap
      BY <1>1, <2>1, <2>2, <2>3 DEF TrySend
    <3>2. \A k : Holds(chan', k) <=> Holds(chan, k) \/ n = k
      BY <1>1, <2>1, <3>1, HoldsAppended
    <3>3. Missing' \subseteq Missing
      BY <1>1, <1>2, <1>4, <3>1, <3>2 DEF Missing
    <3>4. QED  BY <1>1, <3>1, <3>3, AccountedKept
  <2>4. CASE Len(chan) = ChanCap
    <3>1. chan' = chan /\ dropped' = dropped \cup {n}
      BY <1>1, <2>1, <2>2, <2>4 DEF TrySend
    <3>2. Missing' \subseteq Missing
      BY <1>1, <1>2, <1>4, <3>1 DEF Missing
    <3>3. QED  BY <1>1, <3>1, <3>2, AccountedKept
  <2>5. QED  BY <1>1, <2>3, <2>4
<1>5. QED  BY <1>3, <1>4

\* The client reads a frame: its text is whole, or spoilt and counted.
LEMMA AccountedRead ==
  ASSUME Control, Control', Flow, Flow', Accounted, ReadFrame, UNCHANGED swallowed
  PROVE  Accounted'
<1> DEFINE f == Head(wire)
           x == IF carry THEN 0 ELSE f.n
<1>1. /\ wire # <<>> /\ wire' = Tail(wire)
      /\ full' = IF IsText(f) THEN Append(full, x) ELSE full
      /\ UNCHANGED <<chan, sent, body, dropped>>
  BY DEF ReadFrame, IsText, taskVars, upstreamVars
<1>2. wire \in Seq(Frames) /\ full \in Seq(Nat) /\ Len(chan) <= ChanCap
  BY DEF Flow, Ordered, Accounted
<1>3. f \in Frames /\ f.n \in Nat /\ x \in Nat
  <2>1. f \in Frames
    BY <1>1, <1>2, TailFacts
  <2>2. QED  BY <2>1 DEF Frames
<1>4. \A k : Holds(wire, k) <=> Holds(wire', k) \/ (IsText(f) /\ f.n = k)
  BY <1>1, <1>2, HoldsTail
<1>5. /\ ToSet(Append(full, x)) = ToSet(full) \cup {x}
      /\ Spoilt(Append(full, x)) = IF x = 0 THEN Spoilt(full) \cup {Len(full) + 1} ELSE Spoilt(full)
      /\ Len(full) + 1 \notin Spoilt(full)
  BY <1>2, <1>3, ReadAppended
<1>6. x = f.n \/ x = 0
  OBVIOUS
<1>7. Texts' = Texts
  BY <1>1 DEF Texts
<1>8. IsFiniteSet(Missing) /\ IsFiniteSet(Spoilt(full)) /\ IsFiniteSet(Spoilt(full'))
  <2>1. IsFiniteSet(Spoilt(full'))
    <3>1. IsFiniteSet(DOMAIN full')
      <4>1. full' \in Seq(Nat)
        BY DEF Flow, Ordered
      <4>2. DOMAIN full' = 1..Len(full') /\ Len(full') \in Nat
        BY <4>1
      <4>3. QED  BY <4>2, FS_Interval
    <3>2. Spoilt(full') \in SUBSET (DOMAIN full')
      BY DEF Spoilt
    <3>3. QED  BY <3>1, <3>2, FS_Subset
  <2>2. QED  BY <2>1, CountsFinite
<1> HIDE DEF f, x
<1>9. CASE ~IsText(f)
  <2>1. full' = full /\ Missing' \subseteq Missing
    BY <1>1, <1>4, <1>7, <1>9 DEF Missing
  <2>2. QED  BY <1>1, <1>2, <2>1, AccountedKept
<1>10. CASE IsText(f) /\ x = f.n
  <2>1. full' = Append(full, x)
    BY <1>1, <1>10
  <2>2. ToSet(full') = ToSet(full) \cup {x} /\ Spoilt(full) \subseteq Spoilt(full')
    BY <1>5, <2>1
  <2>3. Missing' \subseteq Missing
    BY <1>1, <1>4, <1>7, <1>10, <2>2 DEF Missing
  <2>4. ASSUME body # "dropped" PROVE Cardinality(Missing') <= Cardinality(Spoilt(full'))
    <3>1. Cardinality(Missing) <= Cardinality(Spoilt(full))
      BY <2>4 DEF Accounted
    <3>2. QED  BY <1>8, <2>2, <2>3, <3>1, FewerStays
  <2>5. QED  BY <1>1, <1>2, <2>4 DEF Accounted
<1>11. CASE IsText(f) /\ x = 0
  <2>1. full' = Append(full, x)
    BY <1>1, <1>11
  <2>2. ToSet(full) \subseteq ToSet(full') /\ Spoilt(full') = Spoilt(full) \cup {Len(full) + 1}
    BY <1>5, <1>11, <2>1
  <2>3. Missing' \subseteq Missing \cup {f.n}
    BY <1>1, <1>4, <1>7, <1>11, <2>2 DEF Missing
  <2>4. ASSUME body # "dropped" PROVE Cardinality(Missing') <= Cardinality(Spoilt(full'))
    <3>1. Cardinality(Missing) <= Cardinality(Spoilt(full))
      BY <2>4 DEF Accounted
    <3>2. Cardinality(Missing') <= Cardinality(Spoilt(full) \cup {Len(full) + 1})
      BY <1>5, <1>8, <2>3, <3>1, OneMoreStays
    <3>3. QED  BY <2>2, <3>2
  <2>5. QED  BY <1>1, <1>2, <2>4 DEF Accounted
<1>12. QED  BY <1>6, <1>9, <1>10, <1>11

\* The connection takes a frame, with its text.
LEMMA AccountedPolled ==
  ASSUME Control, Control', Flow, Flow', Accounted, PollBody, UNCHANGED swallowed
  PROVE  Accounted'
<1>1. /\ chan # <<>> /\ wire' = Append(wire, Head(chan)) /\ chan' = Tail(chan)
      /\ UNCHANGED <<full, sent, body, dropped>>
  BY DEF PollBody, upstreamVars, clientVars
<1>2. chan \in Seq(Frames) /\ wire \in Seq(Frames)
  BY DEF Flow, Ordered
<1>3. Head(chan) \in Frames /\ Len(chan) \in Nat /\ Len(Tail(chan)) = Len(chan) - 1
  BY <1>1, <1>2, TailFacts
<1>4. \A k : Holds(wire', k) <=> Holds(wire, k) \/ (IsText(Head(chan)) /\ Head(chan).n = k)
  BY <1>1, <1>2, <1>3, HoldsAppended
<1>5. \A k : Holds(chan, k) <=> Holds(chan', k) \/ (IsText(Head(chan)) /\ Head(chan).n = k)
  BY <1>1, <1>2, HoldsTail
<1>6. Missing' \subseteq Missing
  <2>1. Texts' = Texts
    BY <1>1 DEF Texts
  <2>2. QED  BY <1>1, <1>4, <1>5, <2>1 DEF Missing
<1>7. Len(chan') <= ChanCap
  BY <1>1, <1>3, BridgeAssumption DEF Accounted
<1>8. QED  BY <1>1, <1>6, <1>7, AccountedKept

\* Every step loses a text only where losses are counted.
LEMMA AccountedStep ==
  ASSUME Control, Control', Flow, Flow', Accounted, TNext
  PROVE  Accounted'
<1>1. chan \in Seq(Frames) /\ Len(chan) \in Nat /\ Len(chan) <= ChanCap /\ ChanCap \in Nat \ {0}
  BY BridgeAssumption DEF Control, Accounted
<1>2. \A type, n : Len(Append(chan, Frame(type, n))) = Len(chan) + 1
  BY <1>1
<1> DEFINE Kept == /\ UNCHANGED full /\ Missing' \subseteq Missing /\ Len(chan') <= ChanCap
                   /\ body = "dropped" => body' = "dropped"
<1>3. Kept => Accounted'
  BY AccountedKept
\* Frames may be added where none with a text goes.
<1> DEFINE Still == /\ UNCHANGED <<full, wire, sent, swallowed>> /\ (chan' = chan \/ \E f \in Frames : chan' = Append(chan, f))
                    /\ dropped \subseteq dropped' /\ Len(chan') <= ChanCap
                    /\ body = "dropped" => body' = "dropped"
<1>4. Still => Kept
  <2>1. SUFFICES ASSUME Still PROVE Missing' \subseteq Missing
    OBVIOUS
  <2>2. \A k : Holds(chan, k) => Holds(chan', k)
    <3>1. \A f \in Frames : \A k : Holds(chan, k) => Holds(Append(chan, f), k)
      BY <1>1, HoldsAppended
    <3>2. QED  BY <2>1, <3>1
  <2>3. Texts' = Texts
    BY <2>1 DEF Texts
  <2>4. QED  BY <2>1, <2>2, <2>3 DEF Missing
<1> HIDE DEF Kept
<1> USE DEF taskVars, clientVars, upstreamVars
<1>5. ASSUME Granted \/ PermitTimeout \/ SendTimeout \/ Opens \/ WarningPanics \/ StreamFails \/ TailTimeout
             \/ BodyEnds \/ ReadPart \/ ReadEof \/ IdleTimeout \/ ClientGone \/ Tick,
             UNCHANGED swallowed
      PROVE  Still
  <2>1. UNCHANGED <<full, wire, sent, dropped, chan>>
    BY <1>5 DEF Granted, PermitTimeout, SendTimeout, Opens, WarningPanics, StreamFails, TailTimeout, BodyEnds, ReadPart,
                ReadEof, IdleTimeout, ClientGone, ClientEnds, Tick
  <2>2. body = "dropped" => body' = "dropped"
    BY <1>5 DEF Granted, PermitTimeout, SendTimeout, Opens, WarningPanics, StreamFails, TailTimeout, BodyEnds, ReadPart,
                ReadEof, IdleTimeout, ClientGone, ClientEnds, Tick, Control
  <2>3. QED  BY <1>1, <1>5, <2>1, <2>2
<1>6. ASSUME TPermitTimeout \/ TStreamEnds \/ TTick PROVE Still
  <2>1. UNCHANGED <<full, wire, sent, dropped, chan, swallowed>>
    BY <1>6 DEF TPermitTimeout, TStreamEnds, TTick
  <2>2. body = "dropped" => body' = "dropped"
    BY <1>6 DEF TPermitTimeout, TStreamEnds, TTick, Control
  <2>3. QED  BY <1>1, <2>1, <2>2
<1>7. ASSUME StreamEnds, UNCHANGED swallowed PROVE Still
  <2> DEFINE f == Frame("warning", MaxEvents + 1)
  <2>1. f \in Frames
    BY TopFacts DEF Frame, Frames, FrameTypes
  <2>2. UNCHANGED <<full, wire, sent, body>> /\ (UNCHANGED <<chan, dropped>> \/ TrySend(f))
    BY <1>7 DEF StreamEnds
  <2>3. Len(Append(chan, f)) = Len(chan) + 1
    BY <1>2
  <2> HIDE DEF f
  <2>4. (chan' = chan \/ chan' = Append(chan, f)) /\ dropped \subseteq dropped' /\ Len(chan') <= ChanCap
    BY <1>1, <2>2, <2>3 DEF TrySend
  <2>5. QED  BY <1>7, <2>1, <2>2, <2>4
<1>8. ASSUME SendTail \/ TSendTail, UNCHANGED swallowed PROVE Still
  <2> DEFINE f == Frame(tail, 0)
  <2>1. task = "tail"
    BY <1>8 DEF SendTail, TSendTail
  <2>2. f \in Frames
    BY <2>1 DEF Frame, Frames, FrameTypes, Control
  <2>3. /\ UNCHANGED <<full, wire, sent, body, dropped>>
        /\ chan' = chan \/ (chan' = Append(chan, f) /\ (Len(chan) < ChanCap))
    BY <1>8 DEF SendTail, TSendTail
  <2>4. Len(Append(chan, f)) = Len(chan) + 1
    BY <1>2
  <2> HIDE DEF f
  <2>5. Len(chan') <= ChanCap
    BY <1>1, <2>3, <2>4
  <2>6. QED  BY <1>8, <2>2, <2>3, <2>5
<1> HIDE DEF Still
<1>9. ASSUME BodyDropped PROVE Accounted'
  <2>1. body' = "dropped" /\ chan' = <<>>
    BY <1>9 DEF BodyDropped
  <2>2. Len(chan') = 0
    BY <2>1
  <2>3. QED  BY <1>1, <2>1, <2>2 DEF Accounted
<1>10. ASSUME NEW type \in ChunkTypes, Splice(type) \/ TSwallow(type) PROVE Accounted'
  <2>1. /\ UNCHANGED <<full, wire, chan, dropped, body>> /\ sent' = Append(sent, type)
        /\ swallowed' = swallowed \cup {Len(sent) + 1} \/ (swallowed' = swallowed /\ type = "tool")
    BY <1>10 DEF Splice, TSwallow
  <2>2. Texts' = IF type \in {"delta", "reasoning"} THEN Texts \cup {Len(sent) + 1} ELSE Texts
    BY <2>1, TextsAppended DEF Control
  <2>3. Missing' \subseteq Missing
    BY <2>1, <2>2 DEF Missing
  <2>4. Kept
    BY <1>1, <2>1, <2>3 DEF Kept
  <2>5. QED  BY <1>3, <2>4
<1>11. QED
  BY <1>3, <1>4, <1>5, <1>6, <1>7, <1>8, <1>9, <1>10, AccountedSaid, AccountedRead, AccountedPolled, Steps DEF Common, TSendTail

-----------------------------------------------------------------------------
StreamInv == Control /\ Flow /\ Tools /\ Tailless /\ Accounted

\* A call starts with nothing in flight.
LEMMA StreamInit ==
  ASSUME TInit PROVE StreamInv
<1>1. /\ sent = <<>> /\ accum = "none" /\ task = "permit" /\ tail = "none" /\ resp = "none" /\ lost = FALSE
      /\ chan = <<>> /\ body = "none" /\ wire = <<>> /\ client = "sending" /\ full = <<>> /\ seen = {} /\ calls = "none"
      /\ edition \in {"rust-ref", "a2r"} /\ swallowed = {}
  BY DEF TInit, Init
<1>2. /\ sent \in Seq(ChunkTypes) /\ Len(sent) = 0 /\ chan \in Seq(Frames) /\ wire \in Seq(Frames) /\ full \in Seq(Nat)
      /\ Len(chan) = 0 /\ Len(wire) = 0 /\ Len(full) = 0
  BY <1>1
<1>3. Control
  <2>1. Len(sent) <= MaxEvents
    BY <1>2, BridgeAssumption
  <2>2. QED  BY <1>1, <1>2, <2>1 DEF Control
<1>4. Flow
  <2>1. Ordered(full, wire, chan, Top)
    BY <1>2 DEF Ordered, Growing
  <2>2. Clean(wire, Late) /\ Clean(chan, Late) /\ Late = "none"
    BY <1>1, <1>2 DEF Clean, Late
  <2>3. QED  BY <1>1, <2>1, <2>2 DEF Flow
<1>5. Tools
  BY <1>1 DEF Tools, Arrived, Damaged
<1>6. Accounted
  <2>1. Missing = {} /\ Spoilt(full) = {}
    BY <1>1, <1>2 DEF Missing, Texts, Spoilt
  <2>2. Len(chan) <= ChanCap
    BY <1>2, BridgeAssumption
  <2>3. Cardinality(Missing) <= Cardinality(Spoilt(full))
    BY <2>1, FS_EmptySet
  <2>4. QED  BY <2>2, <2>3 DEF Accounted
<1>7. Tailless
  BY <1>1 DEF Tailless, GivenUp
<1>8. QED  BY <1>3, <1>4, <1>5, <1>6, <1>7 DEF StreamInv

\* Every step keeps the invariant.
LEMMA StreamStep ==
  ASSUME StreamInv, [TNext]_tvars PROVE StreamInv'
<1>1. CASE TNext
  <2>1. Control'
    BY <1>1, ControlStep DEF StreamInv
  <2>2. Flow'
    BY <1>1, <2>1, FlowStep DEF StreamInv
  <2>3. Tools'
    BY <1>1, <2>1, ToolsStep DEF StreamInv
  <2>4. Accounted'
    BY <1>1, <2>1, <2>2, AccountedStep DEF StreamInv
  <2>5. Tailless'
    BY <1>1, <2>1, <2>2, TaillessStep DEF StreamInv
  <2>6. QED  BY <2>1, <2>2, <2>3, <2>4, <2>5 DEF StreamInv
<1>2. CASE UNCHANGED tvars
  <2>1. /\ UNCHANGED <<sent, accum, task, tail, resp, lost, chan, dropped, body, wire, client, full, seen, calls, edition,
                       swallowed, cand>>
    BY <1>2 DEF tvars, vars, upstreamVars, taskVars, clientVars
  <2>2. Control'
    BY <2>1 DEF StreamInv, Control
  <2>3. Flow'
    BY <2>1 DEF StreamInv, Flow, Late, Top
  <2>4. Tools'
    BY <2>1 DEF StreamInv, Tools, NoFragmentSwallowed
  <2>5. Accounted'
    BY <2>1 DEF StreamInv, Accounted, Missing, Texts
  <2>6. Tailless'
    BY <2>1 DEF StreamInv, Tailless, GivenUp, Panicked, Unserved
  <2>7. QED  BY <2>2, <2>3, <2>4, <2>5, <2>6 DEF StreamInv
<1>3. QED  BY <1>1, <1>2

\* In either edition: texts and tail frame move from the task to the caller in
\* order and are not duplicated, the tool call is what its fragments came to, and
\* no text is lost but where losses are counted.
THEOREM StreamInvariant == TSpec => []StreamInv
<1>1. TInit => StreamInv
  BY StreamInit
<1>2. StreamInv /\ [TNext]_tvars => StreamInv'
  BY StreamStep
<1>3. QED  BY <1>1, <1>2, PTL DEF TSpec

\* What the caller shows is in the order the provider said it, nothing twice.
THEOREM TextInOrder == TSpec => []InOrder
<1>1. StreamInv => InOrder
  <2>1. SUFFICES ASSUME StreamInv, NEW i \in 1..Len(full), NEW j \in 1..Len(full), i < j, 0 \notin {full[i], full[j]}
                 PROVE  full[i] < full[j]
    BY DEF InOrder
  <2>2. Ordered(full, wire, chan, Top)
    BY <2>1 DEF StreamInv, Flow
  <2>3. QED  BY <2>1, <2>2 DEF Ordered
<1>2. QED  BY <1>1, StreamInvariant, PTL

\* Every text the provider said is in the caller's, whole or spoilt, or was
\* dropped at a full channel or swallowed with its chunk.
THEOREM TextAccountedFor == TSpec => []NothingElseVanishes
<1>1. StreamInv => NothingElseVanishes
  <2>1. SUFFICES ASSUME Control, Flow, Accounted, client = "ok"
                 PROVE  Cardinality(Texts \ (dropped \cup swallowed \cup ToSet(full)))
                          <= Cardinality({i \in DOMAIN full : full[i] = 0})
    BY DEF StreamInv, NothingElseVanishes
  <2>2. body = "ended" /\ chan = <<>> /\ wire = <<>>
    BY <2>1 DEF Control
  <2>3. \A n : ~Holds(wire, n) /\ ~Holds(chan, n)
    BY <2>2 DEF Holds
  <2>4. Texts \ (dropped \cup swallowed \cup ToSet(full)) = Missing
    BY <2>3 DEF Missing
  <2>5. Cardinality(Missing) <= Cardinality(Spoilt(full))
    BY <2>1, <2>2 DEF Accounted
  <2>6. QED  BY <2>4, <2>5 DEF Spoilt
<1>2. QED  BY <1>1, StreamInvariant, PTL

\* An Ok has read the tail frame its task ended with; where it has read none, the
\* frame met a channel full of text that the caller then read, or the task died
\* at the warning (reference), or no candidate had a permit (transpiled).
THEOREM EofAfterTail == TSpec => []TailBeforeEof
<1>1. StreamInv => TailBeforeEof
  <2>1. SUFFICES ASSUME Control, Flow, Tailless, client = "ok"
                 PROVE  \/ seen = {tail} /\ tail # "none"
                        \/ seen = {} /\ ((lost /\ Len(full) >= ChanCap) \/ Panicked \/ Unserved)
    BY DEF StreamInv, TailBeforeEof
  <2>2. task = "ended" /\ chan = <<>> /\ wire = <<>> /\ body = "ended"
    BY <2>1 DEF Control
  <2>3. Late = tail /\ ~Carries(wire, tail) /\ ~Carries(chan, tail)
    BY <2>2 DEF Late, Carries
  <2>4. CASE tail = "none"
    <3>1. seen = {}
      BY <2>1, <2>3, <2>4 DEF Flow
    <3>2. QED  BY <2>1, <2>2, <2>4, <3>1 DEF Tailless
  <2>5. CASE tail # "none" /\ ~lost
    BY <2>1, <2>2, <2>3, <2>5 DEF Flow
  <2>6. CASE lost
    <3>1. seen = {} /\ Len(full) + Len(wire) + Len(chan) >= ChanCap
      BY <2>1, <2>2, <2>6 DEF Tailless, GivenUp
    <3>2. Len(wire) = 0 /\ Len(chan) = 0 /\ Len(full) \in Nat
      BY <2>1, <2>2 DEF Flow, Ordered
    <3>3. Len(full) >= ChanCap
      BY <3>1, <3>2
    <3>4. QED  BY <2>6, <3>1, <3>3
  <2>7. QED  BY <2>4, <2>5, <2>6
<1>2. QED  BY <1>1, StreamInvariant, PTL

\* Which responses with a tool call are taken for a final answer, and which calls
\* are run with part of their arguments: none, but after an error the caller
\* sees, and in the four faults the property names.
THEOREM ToolCallKept == TSpec => []ToolCallNeverMistaken
<1>1. StreamInv => ToolCallNeverMistaken
  <2>1. SUFFICES ASSUME Control, Flow, Tools, Tailless, client = "ok"
                 PROVE  /\ accum # "none" /\ calls = "none" =>
                             seen = {"error"} \/ lost \/ Panicked \/ accum = "nameless"
                        /\ calls = "input" => accum \in {"whole", "spliced"}
                        /\ accum \in {"nameless", "spliced"} =>
                             edition = "a2r" /\ \E n \in swallowed : sent[n] = "tool"
    BY DEF StreamInv, ToolCallNeverMistaken
  <2>2. task = "ended" /\ chan = <<>> /\ wire = <<>> /\ body = "ended"
    BY <2>1 DEF Control
  <2>3. Late = tail /\ ~Carries(wire, tail) /\ ~Carries(chan, tail) /\ tail \in {"none", "done", "error"}
    BY <2>1, <2>2 DEF Late, Carries, Control
  <2>4. tail # "none" /\ ~lost => seen = {tail}
    BY <2>1, <2>2, <2>3 DEF Flow
  <2>5. calls = IF "done" \in seen THEN resp ELSE "none"
    BY <2>1 DEF Tools
  <2>6. "done" \in seen => tail = "done" /\ resp \in TToolCalls(accum)
    BY <2>1, <2>3 DEF Flow, Tools
  <2>7. accum \in {"none", "named", "partial", "whole", "nameless", "spliced"}
    BY <2>1 DEF Tools, Arrived, Damaged
  <2>8. ASSUME NEW c \in TToolCalls(accum)
        PROVE  /\ c = "none" => accum \in {"none", "nameless"}
               /\ c = "input" => accum \in {"whole", "spliced"}
    BY <2>7, <2>8 DEF TToolCalls, ToolCall
  <2>9. tail = "none" /\ accum # "none" /\ ~Panicked => FALSE
    <3>1. SUFFICES ASSUME tail = "none", accum # "none", ~Panicked PROVE FALSE
      OBVIOUS
    <3>2. Unserved
      BY <2>1, <2>2, <3>1 DEF Tailless
    <3>3. QED  BY <2>1, <3>1, <3>2 DEF Tools, Unserved
  <2>10. accum \in {"nameless", "spliced"} => edition = "a2r" /\ \E n \in swallowed : sent[n] = "tool"
    BY <2>1 DEF Tools, Damaged, NoFragmentSwallowed
  <2>11. QED  BY <2>3, <2>4, <2>5, <2>6, <2>8, <2>9, <2>10
<1>2. QED  BY <1>1, StreamInvariant, PTL

=============================================================================
