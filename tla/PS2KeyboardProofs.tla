--------------------------- MODULE PS2KeyboardProofs ---------------------------
(***************************************************************************)
(* The ring buffer implements the bounded queue, for every size and every  *)
(* set of events; and the keyboard driver, which fills it, decodes what the *)
(* user types, for every set of keys without Print Screen, whichever of them *)
(* repeat except Shift and Strg, every number of bytes that may be late and *)
(* every size of the buffer.                                               *)
(***************************************************************************)
EXTENDS PS2Keyboard, SequenceTheorems, TLAPS

-----------------------------------------------------------------------------
(* The key event buffer.                                                   *)

\* An index that is at most one lap ahead wraps by a subtraction.
LEMMA Wrap ==
    ASSUME NEW n \in Nat \ {0}, NEW a \in 0 .. 2 * n - 1
    PROVE  /\ a % n = IF a < n THEN a ELSE a - n
           /\ a % n \in 0 .. n - 1
  OBVIOUS

\* A sequence is given by its length and elements.
LEMMA FunctionIsSeq ==
    ASSUME NEW S, NEW n \in Nat, NEW f \in [1 .. n -> S]
    PROVE  f \in Seq(S) /\ Len(f) = n
  OBVIOUS

\* What Append returns.
LEMMA AppendFacts ==
    ASSUME NEW S, NEW s \in Seq(S), NEW e \in S
    PROVE  /\ Append(s, e) \in Seq(S)
           /\ Len(Append(s, e)) = Len(s) + 1
           /\ \A i \in 1 .. Len(s) + 1 : Append(s, e)[i] = IF i <= Len(s) THEN s[i] ELSE e
  OBVIOUS

\* A function on 1 .. n that agrees with a sequence of length n is that sequence.
LEMMA SameSequence ==
    ASSUME NEW S, NEW s \in Seq(S), NEW n \in Nat, NEW t, t = [i \in 1 .. n |-> t[i]],
           Len(s) = n, \A i \in 1 .. n : t[i] = s[i]
    PROVE  t = s
  <1>1. t \in [1 .. n -> S]  OBVIOUS
  <1>2. t \in Seq(S) /\ Len(t) = n  BY <1>1, FunctionIsSeq
  <1> QED  BY <1>2, SeqEqual

\* Where the i-th event is.
Slot(i) == (front + i - 1) % SIZE

\* The range of slots, and that those less than a lap apart are different.
LEMMA Slots ==
    ASSUME BufferTypeOK
    PROVE  /\ \A i \in 1 .. SIZE + 1 : Slot(i) = IF front + i - 1 < SIZE THEN front + i - 1
                                                 ELSE front + i - 1 - SIZE
           /\ \A i \in 1 .. SIZE + 1 : Slot(i) \in 0 .. SIZE - 1
           /\ \A i, j \in 1 .. SIZE : i # j => Slot(i) # Slot(j)
  <1>1. /\ SIZE \in Nat \ {0}
        /\ front \in 0 .. SIZE - 1
    BY SizeAssumption DEF BufferTypeOK
  <1>2. \A i \in 1 .. SIZE + 1 : front + i - 1 \in 0 .. 2 * SIZE - 1
    BY <1>1
  <1>3. \A i \in 1 .. SIZE + 1 :
          /\ Slot(i) = IF front + i - 1 < SIZE THEN front + i - 1 ELSE front + i - 1 - SIZE
          /\ Slot(i) \in 0 .. SIZE - 1
    <2> TAKE i \in 1 .. SIZE + 1
    <2> DEFINE a == front + i - 1
    <2>1. a \in 0 .. 2 * SIZE - 1  BY <1>2
    <2>2. /\ a % SIZE = IF a < SIZE THEN a ELSE a - SIZE
          /\ a % SIZE \in 0 .. SIZE - 1
      <3> HIDE DEF a
      <3> QED  BY <1>1, <2>1, Wrap
    <2> QED  BY <1>1, <2>2 DEF Slot
  <1>4. \A i, j \in 1 .. SIZE : i # j => Slot(i) # Slot(j)
    BY <1>1, <1>3
  <1> QED  BY <1>3, <1>4

\* The i-th slot from the next front is the slot after the i-th from this one.
LEMMA NextSlot ==
    ASSUME NEW S \in Nat \ {0}, NEW f \in 0 .. S - 1, NEW g,
           g = IF f + 1 < S THEN f + 1 ELSE 0, NEW i \in 1 .. S
    PROVE  (g + i - 1) % S = (f + (i + 1) - 1) % S
  <1> DEFINE a == g + i - 1
             b == f + (i + 1) - 1
  <1>1. CASE f + 1 < S
    <2>1. a = b  BY <1>1
    <2> HIDE DEF a, b
    <2>2. a % S = b % S  BY <2>1
    <2> QED  BY <2>2 DEF a, b
  <1>2. CASE f + 1 >= S
    <2>1. a = i - 1 /\ b = S + i - 1  BY <1>2
    <2>2. a \in 0 .. 2 * S - 1 /\ b \in 0 .. 2 * S - 1  BY <2>1
    <2>3. a < S /\ b >= S /\ a = b - S  BY <2>1
    <2> HIDE DEF a, b
    <2>4. a % S = a  BY <2>2, <2>3, Wrap
    <2>5. b % S = IF b < S THEN b ELSE b - S  BY <2>2, Wrap
    <2>6. a % S = b % S  BY <2>2, <2>3, <2>4, <2>5
    <2> QED  BY <2>6 DEF a, b
  <1> QED  BY <1>1, <1>2

\* An append to a buffer with room adds the event at the end.
LEMMA AppendContent ==
    ASSUME BufferTypeOK, NEW e \in Events, AppendEvent(e), size < SIZE
    PROVE  Content' = Append(Content, e)
  <1>1. /\ size \in Nat /\ size' = size + 1 /\ front' = front
        /\ buffer' = [buffer EXCEPT ![Slot(size + 1)] = e]
        /\ DOMAIN buffer = 0 .. SIZE - 1
    BY SizeAssumption DEF AppendEvent, BufferTypeOK, Slot
  <1>2. Content' = [i \in 1 .. size + 1 |-> buffer'[Slot(i)]]
    BY <1>1 DEF Content, Slot
  <1>3. Content = [i \in 1 .. size |-> buffer[Slot(i)]]
    BY DEF Content, Slot
  <1>4. \A i \in 1 .. size : buffer'[Slot(i)] = buffer[Slot(i)]
    BY <1>1, Slots, SizeAssumption
  <1>5. buffer'[Slot(size + 1)] = e
    BY <1>1, Slots, SizeAssumption
  <1>6. Content \in Seq(Events) /\ Len(Content) = size
    BY <1>1, <1>3 DEF BufferTypeOK
  <1>7. \A i \in 1 .. size + 1 : Content'[i] = Append(Content, e)[i]
    BY <1>1, <1>2, <1>3, <1>4, <1>5, <1>6, AppendFacts
  <1>8. Content' = [i \in 1 .. size + 1 |-> Content'[i]]
    BY <1>2
  <1>9. Append(Content, e) \in Seq(Events) /\ Len(Append(Content, e)) = size + 1
    BY <1>6, AppendFacts
  <1> QED  BY <1>1, <1>7, <1>8, <1>9, SameSequence

\* An append to a full buffer takes the place of the oldest event.
LEMMA OverwriteContent ==
    ASSUME BufferTypeOK, NEW e \in Events, AppendEvent(e), size >= SIZE
    PROVE  Content' = Append(Tail(Content), e)
  <1>1. /\ size = SIZE /\ SIZE \in Nat \ {0} /\ size' = SIZE /\ front' = (front + 1) % SIZE
        /\ front \in 0 .. SIZE - 1
        /\ buffer' = [buffer EXCEPT ![(front + SIZE) % SIZE] = e]
        /\ DOMAIN buffer = 0 .. SIZE - 1
    <2>1. size = SIZE /\ SIZE \in Nat \ {0} /\ front \in 0 .. SIZE - 1
      BY SizeAssumption DEF BufferTypeOK
    <2>2. ~(size < SIZE)
      BY <2>1
    <2>3. front' = (front + 1) % SIZE /\ size' = size
      BY <2>2 DEF AppendEvent
    <2>4. buffer' = [buffer EXCEPT ![(front + size) % SIZE] = e]
      BY DEF AppendEvent
    <2>5. DOMAIN buffer = 0 .. SIZE - 1
      BY DEF BufferTypeOK
    <2> QED  BY <2>1, <2>3, <2>4, <2>5
  <1>2. /\ front + SIZE \in 0 .. 2 * SIZE - 1
        /\ front + 1 \in 0 .. 2 * SIZE - 1
    BY <1>1
  <1>3. /\ (front + SIZE) % SIZE = front
        /\ front' = IF front + 1 < SIZE THEN front + 1 ELSE 0
    <2> DEFINE a == front + SIZE
               b == front + 1
    <2>1. a \in 0 .. 2 * SIZE - 1 /\ b \in 0 .. 2 * SIZE - 1  BY <1>2
    <2> HIDE DEF a, b
    <2>2. a % SIZE = IF a < SIZE THEN a ELSE a - SIZE  BY <1>1, <2>1, Wrap
    <2>3. b % SIZE = IF b < SIZE THEN b ELSE b - SIZE  BY <1>1, <2>1, Wrap
    <2> QED  BY <1>1, <2>2, <2>3 DEF a, b
  <1>4. \A i \in 1 .. SIZE : front' + i - 1 \in 0 .. 2 * SIZE - 1
    BY <1>1, <1>3
  <1>5. \A i \in 1 .. SIZE : (front' + i - 1) % SIZE = IF front' + i - 1 < SIZE
                                THEN front' + i - 1 ELSE front' + i - 1 - SIZE
    <2> TAKE i \in 1 .. SIZE
    <2> DEFINE a == front' + i - 1
    <2>1. a \in 0 .. 2 * SIZE - 1  BY <1>4
    <2> HIDE DEF a
    <2>2. a % SIZE = IF a < SIZE THEN a ELSE a - SIZE  BY <1>1, <2>1, Wrap
    <2> QED  BY <1>1, <1>3, <2>2 DEF a
  <1>6. \A i \in 1 .. SIZE - 1 : (front' + i - 1) % SIZE = Slot(i + 1)
    <2> TAKE i \in 1 .. SIZE - 1
    <2>1. i \in 1 .. SIZE  BY <1>1
    <2> QED  BY <1>1, <1>3, <2>1, NextSlot DEF Slot
  <1>7. (front' + SIZE - 1) % SIZE = front /\ Slot(1) = front
    BY <1>1, <1>3, <1>5, Slots
  <1>8. \A i \in 1 .. SIZE - 1 : Slot(i + 1) # front /\ Slot(i + 1) \in 0 .. SIZE - 1
    BY <1>1, <1>7, Slots
  <1>9. Content = [i \in 1 .. SIZE |-> buffer[Slot(i)]]
    BY <1>1 DEF Content, Slot
  <1>10. Content' = [i \in 1 .. SIZE |-> buffer'[(front' + i - 1) % SIZE]]
    BY <1>1 DEF Content
  <1>11. \A i \in 1 .. SIZE : buffer'[(front' + i - 1) % SIZE]
                                = IF i <= SIZE - 1 THEN Content[i + 1] ELSE e
    <2> TAKE i \in 1 .. SIZE
    <2>1. CASE i <= SIZE - 1
      <3>1. i \in 1 .. SIZE - 1  BY <2>1, <1>1
      <3>2. buffer'[(front' + i - 1) % SIZE] = buffer[Slot(i + 1)]
        BY <3>1, <1>1, <1>3, <1>6, <1>8
      <3> QED  BY <3>1, <3>2, <1>1, <1>9
    <2>2. CASE i = SIZE
      BY <2>2, <1>1, <1>3, <1>7
    <2> QED  BY <2>1, <2>2, <1>1
  <1>12. Content \in Seq(Events) /\ Len(Content) = SIZE
    BY <1>1, <1>9 DEF BufferTypeOK
  <1>13. /\ Tail(Content) \in Seq(Events) /\ Len(Tail(Content)) = SIZE - 1
         /\ \A i \in 1 .. SIZE - 1 : Tail(Content)[i] = Content[i + 1]
    BY <1>12, <1>1, HeadTailProperties
  <1>14. \A i \in 1 .. SIZE : Content'[i] = Append(Tail(Content), e)[i]
    BY <1>1, <1>10, <1>11, <1>13, AppendFacts
  <1>15. Content' = [i \in 1 .. SIZE |-> Content'[i]]
    BY <1>10
  <1>16. Append(Tail(Content), e) \in Seq(Events) /\ Len(Append(Tail(Content), e)) = SIZE
    BY <1>1, <1>13, AppendFacts
  <1> QED  BY <1>1, <1>14, <1>15, <1>16, SameSequence

\* Reading takes the oldest event.
LEMMA GetContent ==
    ASSUME BufferTypeOK, GetEvent
    PROVE  /\ Content # <<>>
           /\ Content' = Tail(Content)
           /\ got' = <<Head(Content)>>
  <1>1. /\ size \in 1 .. SIZE /\ size' = size - 1 /\ buffer' = buffer
        /\ SIZE \in Nat \ {0} /\ front \in 0 .. SIZE - 1
        /\ front' = (front + 1) % SIZE
        /\ got' = <<buffer[front]>>
    BY SizeAssumption DEF GetEvent, BufferTypeOK
  <1>2. front + 1 \in 0 .. 2 * SIZE - 1
    BY <1>1
  <1>3. front' = IF front + 1 < SIZE THEN front + 1 ELSE 0
    <2> DEFINE b == front + 1
    <2>1. b \in 0 .. 2 * SIZE - 1  BY <1>2
    <2> HIDE DEF b
    <2>2. b % SIZE = IF b < SIZE THEN b ELSE b - SIZE  BY <1>1, <2>1, Wrap
    <2> QED  BY <1>1, <2>2 DEF b
  <1>4. \A i \in 1 .. SIZE : front' + i - 1 \in 0 .. 2 * SIZE - 1
    BY <1>1, <1>3
  <1>5. \A i \in 1 .. SIZE : (front' + i - 1) % SIZE = IF front' + i - 1 < SIZE
                                THEN front' + i - 1 ELSE front' + i - 1 - SIZE
    <2> TAKE i \in 1 .. SIZE
    <2> DEFINE a == front' + i - 1
    <2>1. a \in 0 .. 2 * SIZE - 1  BY <1>4
    <2> HIDE DEF a
    <2>2. a % SIZE = IF a < SIZE THEN a ELSE a - SIZE  BY <1>1, <2>1, Wrap
    <2> QED  BY <1>1, <1>3, <2>2 DEF a
  <1>6. \A i \in 1 .. size - 1 : (front' + i - 1) % SIZE = Slot(i + 1)
    <2> TAKE i \in 1 .. size - 1
    <2>1. i \in 1 .. SIZE  BY <1>1
    <2> QED  BY <1>1, <1>3, <2>1, NextSlot DEF Slot
  <1>7. Slot(1) = front
    BY <1>1, Slots
  <1>8. Content = [i \in 1 .. size |-> buffer[Slot(i)]]
    BY DEF Content, Slot
  <1>9. Content' = [i \in 1 .. size - 1 |-> buffer[(front' + i - 1) % SIZE]]
    BY <1>1 DEF Content
  <1>10. Content \in Seq(Events) /\ Len(Content) = size
    BY <1>1, <1>8 DEF BufferTypeOK
  <1>11. /\ Tail(Content) \in Seq(Events) /\ Len(Tail(Content)) = size - 1
         /\ \A i \in 1 .. size - 1 : Tail(Content)[i] = Content[i + 1]
    BY <1>10, <1>1, HeadTailProperties
  <1>12. \A i \in 1 .. size - 1 : buffer[(front' + i - 1) % SIZE] = Content[i + 1]
    BY <1>1, <1>6, <1>8
  <1>13. Content' = Tail(Content)
    <2>1. Content' = [i \in 1 .. size - 1 |-> Content'[i]]  BY <1>9
    <2>2. \A i \in 1 .. size - 1 : Content'[i] = Tail(Content)[i]  BY <1>9, <1>11, <1>12
    <2>3. size - 1 \in Nat  BY <1>1
    <2> QED  BY <1>11, <2>1, <2>2, <2>3, SameSequence
  <1>14. Content # <<>> /\ Head(Content) = buffer[front]
    BY <1>1, <1>7, <1>8, <1>10
  <1> QED  BY <1>1, <1>13, <1>14

\* Reading everything leaves nothing.
LEMMA GetAllContent ==
    ASSUME BufferTypeOK, GetAllEvents
    PROVE  Content' = <<>> /\ got' = Content
  <1>1. size' = 0  BY DEF GetAllEvents
  <1>2. Content' = [i \in 1 .. 0 |-> buffer'[(front' + i - 1) % SIZE]]  BY <1>1 DEF Content
  <1>3. Content' = <<>>  BY <1>2
  <1> QED  BY <1>3 DEF GetAllEvents

\* The length of what can be read.
LEMMA ContentLength == ASSUME BufferTypeOK PROVE Len(Content) = size /\ size \in Nat
  BY SizeAssumption DEF BufferTypeOK, Content

\* Initially nothing can be read.
LEMMA InitEmpty == BufferInit => BufferTypeOK /\ Content = <<>>
  <1> SUFFICES ASSUME BufferInit PROVE BufferTypeOK /\ Content = <<>>
    OBVIOUS
  <1>1. Content = [i \in 1 .. 0 |-> buffer[(front + i - 1) % SIZE]]
    BY DEF BufferInit, Content
  <1>2. Content = <<>>  BY <1>1
  <1> QED  BY <1>2, SizeAssumption DEF BufferInit, BufferTypeOK

\* The indices keep their ranges and the array its type, whatever the step.
LEMMA TypeStep == BufferTypeOK /\ [BufferNext]_bufferVars => BufferTypeOK'
  <1> SUFFICES ASSUME BufferTypeOK, [BufferNext]_bufferVars PROVE BufferTypeOK'
    OBVIOUS
  <1>w. ASSUME NEW a \in 0 .. 2 * SIZE - 1 PROVE a % SIZE \in 0 .. SIZE - 1
    BY Wrap, SizeAssumption
  <1>s. /\ front + size \in 0 .. 2 * SIZE - 1
        /\ front + 1 \in 0 .. 2 * SIZE - 1
        /\ Content \in Seq(Events)
    BY SizeAssumption DEF BufferTypeOK
  <1>m. (front + size) % SIZE \in 0 .. SIZE - 1 /\ (front + 1) % SIZE \in 0 .. SIZE - 1
    <2> DEFINE a == front + size
               b == front + 1
    <2>1. a \in 0 .. 2 * SIZE - 1 /\ b \in 0 .. 2 * SIZE - 1  BY <1>s
    <2> HIDE DEF a, b
    <2>2. a % SIZE \in 0 .. SIZE - 1 /\ b % SIZE \in 0 .. SIZE - 1  BY <1>w, <2>1
    <2> QED  BY <2>2 DEF a, b
  <1>1. ASSUME NEW e \in Events, AppendEvent(e) PROVE BufferTypeOK'
    <2>1. Content' \in Seq(Events)
      <3>1. CASE size < SIZE
        BY <1>1, <3>1, <1>s, AppendContent, AppendFacts
      <3>2. CASE size >= SIZE
        <4>1. Content # <<>>  BY <3>2, ContentLength, SizeAssumption
        <4>2. Tail(Content) \in Seq(Events)  BY <4>1, <1>s, HeadTailProperties
        <4> QED  BY <1>1, <3>2, <4>2, OverwriteContent, AppendFacts
      <3> QED  BY <3>1, <3>2, SizeAssumption DEF BufferTypeOK
    <2> QED  BY <1>1, <1>m, <2>1, SizeAssumption DEF AppendEvent, BufferTypeOK
  <1>2. CASE GetEvent
    <2>1. Content # <<>> /\ Content' = Tail(Content) /\ got' = <<Head(Content)>>
      BY <1>2, GetContent
    <2>2. Head(Content) \in Events /\ Tail(Content) \in Seq(Events)
      BY <1>s, <2>1, HeadTailProperties
    <2>3. got' \in Seq(Events) /\ Content' \in Seq(Events)  BY <2>1, <2>2
    <2> QED  BY <1>2, <1>m, <2>3, SizeAssumption DEF GetEvent, BufferTypeOK
  <1>3. CASE GetAllEvents
    <2>1. Content' \in Seq(Events) /\ got' \in Seq(Events)
      BY <1>3, <1>s, GetAllContent
    <2> QED  BY <1>3, <1>m, <2>1, SizeAssumption DEF GetAllEvents, BufferTypeOK
  <1>4. CASE UNCHANGED bufferVars
    BY <1>4 DEF bufferVars, BufferTypeOK, Content
  <1> QED  BY <1>1, <1>2, <1>3, <1>4 DEF BufferNext

\* Neither uint8_t index leaves its range, and only appended events are read.
THEOREM TypeCorrect == BufferSpec => []BufferTypeOK
  <1> QED  BY InitEmpty, TypeStep, PTL DEF BufferSpec

\* Each operation of the ring buffer is an operation of the queue.
LEMMA StepSimulation ==
    BufferTypeOK /\ [BufferNext]_bufferVars => [Queue!Next]_(Queue!vars)
  <1> SUFFICES ASSUME BufferTypeOK, [BufferNext]_bufferVars PROVE [Queue!Next]_(Queue!vars)
    OBVIOUS
  <1>l. Len(Content) = size /\ size \in Nat /\ size <= SIZE /\ Content \in Seq(Events)
    BY ContentLength, SizeAssumption DEF BufferTypeOK
  <1>1. ASSUME NEW e \in Events, AppendEvent(e) PROVE Queue!Put(e)
    <2>1. got' = <<>>  BY <1>1 DEF AppendEvent
    <2>2. CASE size < SIZE
      BY <1>1, <1>l, <2>1, <2>2, AppendContent, SizeAssumption DEF Queue!Put
    <2>3. CASE size >= SIZE
      <3>1. Len(Content) = SIZE  BY <2>3, <1>l, SizeAssumption
      <3> QED  BY <1>1, <2>1, <2>3, <3>1, OverwriteContent DEF Queue!Put
    <2> QED  BY <2>2, <2>3, <1>l, SizeAssumption
  <1>2. CASE GetEvent
    <2>1. Content # <<>> /\ Content' = Tail(Content) /\ got' = <<Head(Content)>>
      BY <1>2, GetContent
    <2>2. Tail(Content) = SubSeq(Content, 2, Len(Content))
      BY <1>l, <2>1, TailIsSubSeq
    <2>3. Len(Content) >= 1  BY <1>l, <2>1
    <2>4. SubSeq(Content, 1, 1) = <<Head(Content)>>
      <3>1. \A i \in 1 .. 1 : Content[i] \in Events  BY <1>l, <2>3
      <3>2. /\ SubSeq(Content, 1, 1) \in Seq(Events)
            /\ Len(SubSeq(Content, 1, 1)) = 1
            /\ SubSeq(Content, 1, 1)[1] = Content[1]
        BY <3>1, SubSeqProperties
      <3>3. <<Head(Content)>> \in Seq(Events) /\ Len(<<Head(Content)>>) = 1
            /\ <<Head(Content)>>[1] = Content[1]
        BY <1>l, <2>1, <3>1
      <3>4. \A i \in 1 .. 1 : SubSeq(Content, 1, 1)[i] = <<Head(Content)>>[i]
        BY <3>2, <3>3
      <3> QED
        <4> DEFINE s == SubSeq(Content, 1, 1)
                   t == <<Head(Content)>>
        <4>1. /\ s \in Seq(Events) /\ t \in Seq(Events) /\ Len(s) = 1 /\ Len(t) = 1
              /\ \A i \in 1 .. 1 : s[i] = t[i]
          BY <3>2, <3>3, <3>4
        <4> HIDE DEF s, t
        <4>2. s = t  BY <4>1, SeqEqual
        <4> QED  BY <4>2 DEF s, t
    <2>5. Queue!Take(1)  BY <2>1, <2>2, <2>4 DEF Queue!Take
    <2> QED  BY <2>3, <2>5, <1>l DEF Queue!Next
  <1>3. CASE GetAllEvents
    <2>1. Content' = <<>> /\ got' = Content  BY <1>3, GetAllContent
    <2>2. SubSeq(Content, Len(Content) + 1, Len(Content)) = <<>>
      BY <1>l, SubSeqEmpty
    <2>3. SubSeq(Content, 1, Len(Content)) = Content
      <3>1. \A i \in 1 .. Len(Content) : Content[i] \in Events  BY <1>l
      <3>2. /\ SubSeq(Content, 1, Len(Content)) \in Seq(Events)
            /\ Len(SubSeq(Content, 1, Len(Content))) = Len(Content)
            /\ \A i \in 1 .. Len(Content) : SubSeq(Content, 1, Len(Content))[i] = Content[i]
        BY <1>l, <3>1, SubSeqProperties
      <3> QED  BY <1>l, <3>2, SeqEqual
    <2>4. Queue!Take(Len(Content))  BY <2>1, <2>2, <2>3 DEF Queue!Take
    <2> QED  BY <2>4, <1>l DEF Queue!Next
  <1>4. CASE UNCHANGED bufferVars
    BY <1>4 DEF bufferVars, Queue!vars, Content
  <1> QED  BY <1>1, <1>2, <1>3, <1>4 DEF BufferNext, Queue!Next

\* The ring buffer is the bounded queue that forgets its oldest events.
THEOREM ImplementsKeyQueueCorrect == BufferSpec => ImplementsKeyQueue
  <1>1. BufferInit => Queue!Init  BY InitEmpty DEF BufferInit, Queue!Init
  <1> QED  BY <1>1, TypeCorrect, StepSimulation, PTL
           DEF BufferSpec, ImplementsKeyQueue, Queue!Spec

-----------------------------------------------------------------------------
(* The driver.                                                             *)

\* The driver drops the release of Print Screen (ps2_keyboard.c:463, the run
\* keyboard_print_screen) ...
NoPrintScreen == "PRINT_SCREEN" \notin Keys

\* ... and counts a Shift or Strg key again when it repeats (ps2_keyboard.c:260 and
\* 279, the run keyboard_repeat).
NoShiftRepeats == Repeating \cap (ShiftKeys \union StrgKeys) = {}

\* What the driver reads.
Bytes == 0 .. 255

-----------------------------------------------------------------------------
(* Scan codes and the decoder.                                             *)

\* Where the driver stands after one byte.
LEMMA DecoderFacts ==
    ASSUME NEW byte \in Bytes
    PROVE  /\ Completes("NORMAL", byte) <=> byte \notin {E0, E1}
           /\ Completes("E0", byte) <=> byte \notin {42, 183}
           /\ StateAfter("NORMAL", E0) = "E0"
  <1>1. \A t \in Extends :
          /\ t[1] = "NORMAL" => t \in {<<"NORMAL", 224, "E0">>, <<"NORMAL", 225, "E1">>}
          /\ t[1] = "E0" => t \in {<<"E0", 42, "E02A">>, <<"E0", 183, "E0B7">>}
    <2>1. \A u \in {"E02A", "E0B7", "E11D", "E11D45", "E11D45E1", "E1"} : u # "NORMAL" /\ u # "E0"
      OBVIOUS
    <2> QED  BY <2>1 DEF Extends, E0, E1
  <1>2. {<<"NORMAL", 224, "E0">>, <<"NORMAL", 225, "E1">>, <<"E0", 42, "E02A">>, <<"E0", 183, "E0B7">>}
          \subseteq Extends
    BY DEF Extends, E0, E1
  <1>3. Extending("NORMAL", 224) = {<<"NORMAL", 224, "E0">>}
    BY <1>1, <1>2 DEF Extending
  <1>4. (CHOOSE t \in {<<"NORMAL", 224, "E0">>} : TRUE) = <<"NORMAL", 224, "E0">>
    OBVIOUS
  <1>5. StateAfter("NORMAL", E0) = "E0"
    <2>1. StateAfter("NORMAL", 224) = (CHOOSE t \in Extending("NORMAL", 224) : TRUE)[3]
      BY <1>3 DEF StateAfter, Inner, LastByte
    <2> QED  BY <1>3, <1>4, <2>1 DEF E0
  <1>6. Extending("NORMAL", byte) = {} <=> byte \notin {224, 225}
    <2>1. ASSUME NEW t \in Extending("NORMAL", byte) PROVE byte \in {224, 225}
      <3>1. t \in Extends /\ t[1] = "NORMAL" /\ t[2] = byte  BY DEF Extending
      <3>2. t = <<"NORMAL", 224, "E0">> \/ t = <<"NORMAL", 225, "E1">>  BY <1>1, <3>1
      <3> QED  BY <3>1, <3>2
    <2>2. ASSUME byte \in {224, 225} PROVE Extending("NORMAL", byte) # {}
      <3>1. <<"NORMAL", 224, "E0">> \in Extends /\ <<"NORMAL", 225, "E1">> \in Extends  BY <1>2
      <3> QED  BY <2>2, <3>1 DEF Extending
    <2> QED  BY <2>1, <2>2
  <1>7. Extending("E0", byte) = {} <=> byte \notin {42, 183}
    BY <1>1, <1>2 DEF Extending
  <1> QED  BY <1>5, <1>6, <1>7 DEF Completes, E0, E1

\* The table translates the code of a key back to the key.
LEMMA PositionFacts ==
    ASSUME NoPrintScreen, NEW key \in Keys
    PROVE  /\ Position(key) \in 1 .. 92
           /\ key \in Prefixed => Keycode(Position(key) + 128) = key /\ Position(key) \notin {42, 55}
           /\ key \notin Prefixed => Keycode(Position(key)) = key
  <1>1. key \in {"A", "LSHIFT", "RSHIFT", "LSTRG", "RSTRG", "CAPS_LOCK", "NUM_LOCK", "SCROLL_LOCK",
                 "ALT", "ALTGR", "LSUPER", "RSUPER"}
    BY KeyboardAssumption DEF NoPrintScreen, KnownKeys, ShiftKeys, StrgKeys, LockKeys, PlainModifiers
  <1>2. CASE key = "A"  BY <1>2 DEF Position, Keycode, Prefixed, StrgKeys
  <1>3. CASE key = "LSHIFT"  BY <1>3 DEF Position, Keycode, Prefixed, StrgKeys
  <1>4. CASE key = "RSHIFT"  BY <1>4 DEF Position, Keycode, Prefixed, StrgKeys
  <1>5. CASE key = "LSTRG"  BY <1>5 DEF Position, Keycode, Prefixed, StrgKeys
  <1>6. CASE key = "RSTRG"  BY <1>6 DEF Position, Keycode, Prefixed, StrgKeys
  <1>7. CASE key = "CAPS_LOCK"  BY <1>7 DEF Position, Keycode, Prefixed, StrgKeys
  <1>8. CASE key = "NUM_LOCK"  BY <1>8 DEF Position, Keycode, Prefixed, StrgKeys
  <1>9. CASE key = "SCROLL_LOCK"  BY <1>9 DEF Position, Keycode, Prefixed, StrgKeys
  <1>10. CASE key = "ALT"  BY <1>10 DEF Position, Keycode, Prefixed, StrgKeys
  <1>11. CASE key = "ALTGR"  BY <1>11 DEF Position, Keycode, Prefixed, StrgKeys
  <1>12. CASE key = "LSUPER"  BY <1>12 DEF Position, Keycode, Prefixed, StrgKeys
  <1>13. CASE key = "RSUPER"  BY <1>13 DEF Position, Keycode, Prefixed, StrgKeys
  <1> QED  BY <1>1, <1>2, <1>3, <1>4, <1>5, <1>6, <1>7, <1>8, <1>9, <1>10, <1>11, <1>12, <1>13

\* A scan code, with or without prefix, is complete with its last byte, and that
\* byte says which key it was and whether it went down.
Short(key, pressed, byte) ==
    /\ ScanCode(key, pressed) = <<byte>>
    /\ Completes("NORMAL", byte)
    /\ ScancodeToKeycode(byte, "NORMAL") = key
Long(key, pressed, byte) ==
    /\ ScanCode(key, pressed) = <<E0, byte>>
    /\ Completes("E0", byte)
    /\ ScancodeToKeycode(byte, "E0") = key

\* Every scan code of a key is one of the two.
LEMMA CodeFacts ==
    ASSUME NoPrintScreen, NEW key \in Keys, NEW pressed \in BOOLEAN
    PROVE  \E byte \in Bytes : /\ (byte < 128) = pressed
                               /\ Short(key, pressed, byte) \/ Long(key, pressed, byte)
  <1>1. PICK byte : byte = Position(key) + (IF pressed THEN 0 ELSE 128)  OBVIOUS
  <1>2. Position(key) \in 1 .. 92  BY PositionFacts
  <1>3. byte \in Bytes /\ (byte < 128) = pressed /\ byte \notin {E0, E1}
    BY <1>1, <1>2 DEF Bytes, E0, E1
  <1>4. byte % 128 = Position(key)  BY <1>1, <1>2
  <1>5. key # "PRINT_SCREEN"  BY DEF NoPrintScreen
  <1>6. ScanCode(key, pressed) = IF key \in Prefixed THEN <<E0, byte>> ELSE <<byte>>
    BY <1>1, <1>5 DEF ScanCode
  <1>7. CASE key \in Prefixed
    <2>1. Position(key) \notin {42, 55} /\ Keycode(Position(key) + 128) = key  BY <1>7, PositionFacts
    <2>2. byte \notin {42, 183}  BY <1>1, <1>2, <2>1
    <2>3. Completes("E0", byte)  BY <1>3, <2>2, DecoderFacts
    <2>4. ScancodeToKeycode(byte, "E0") = key  BY <1>4, <2>1 DEF ScancodeToKeycode
    <2> QED  BY <1>3, <1>6, <1>7, <2>3, <2>4 DEF Long
  <1>8. CASE key \notin Prefixed
    <2>1. Keycode(Position(key)) = key  BY <1>8, PositionFacts
    <2>2. Completes("NORMAL", byte)  BY <1>3, DecoderFacts
    <2>3. ScancodeToKeycode(byte, "NORMAL") = key  BY <1>2, <1>4, <2>1 DEF ScancodeToKeycode
    <2> QED  BY <1>3, <1>6, <1>8, <2>2, <2>3 DEF Short
  <1> QED  BY <1>7, <1>8

-----------------------------------------------------------------------------
(* What the user does, one key after the other, and what the driver makes   *)
(* of it.                                                                  *)

\* What the user holds, and where on the line the keyboard is.
Moments == [down : SUBSET Keys, locks : SUBSET (Keys \cap LockKeys), read : Int]

\* From one moment to the next a key goes down, or repeats, or comes up.
Stroke(a, b, key, pressed) ==
    /\ IF pressed THEN key \in a.down => key \notin ShiftKeys \union StrgKeys ELSE key \in a.down
    /\ b.down = IF pressed THEN a.down \union {key} ELSE a.down \ {key}
    /\ b.locks = IF pressed /\ key \in LockKeys THEN SymmetricDifference(a.locks, {key}) ELSE a.locks

\* One if a key is held.
Held(keys, key) == IF key \in keys THEN 1 ELSE 0

\* How many of two keys are held.
HeldOf(keys, left, right) == Held(keys, left) + Held(keys, right)

\* The driver's counters count the keys that are held, and its flags are those meant.
Follows(m, a) ==
    m = [shift |-> HeldOf(a.down, "LSHIFT", "RSHIFT"),
         strg |-> HeldOf(a.down, "LSTRG", "RSTRG"),
         flags |-> Meant(a.down, a.locks)]

\* A key that goes down or comes up changes the number by one, and it does not wrap.
CountsFor(keys, left, right, key) ==
    /\ key \notin keys => Counted(HeldOf(keys, left, right), TRUE)
                           = HeldOf(keys \union {key}, left, right)
    /\ key \in keys => Counted(HeldOf(keys, left, right), FALSE)
                          = HeldOf(keys \ {key}, left, right)

\* That is how the counters go, and they are zero when neither key is held.
LEMMA CountFacts ==
    ASSUME NEW keys, NEW left, NEW right, left # right, NEW key, key = left \/ key = right
    PROVE  /\ CountsFor(keys, left, right, key)
           /\ HeldOf(keys, left, right) = 0 <=> keys \cap {left, right} = {}
  <1>1. \A c \in 0 .. 2 : Counted(c, TRUE) = c + 1 /\ (c > 0 => Counted(c, FALSE) = c - 1)
    <2>1. \A c \in 0 .. 2 : (c + 1) % 256 = c + 1 /\ (c > 0 => (c + 255) % 256 = c - 1)
      OBVIOUS
    <2> QED  BY <2>1 DEF Counted
  <1>2. HeldOf(keys, left, right) \in 0 .. 2  BY DEF Held, HeldOf
  <1>3. key \notin keys => HeldOf(keys \union {key}, left, right) = HeldOf(keys, left, right) + 1
    BY DEF Held, HeldOf
  <1>4. key \in keys => /\ HeldOf(keys \ {key}, left, right) = HeldOf(keys, left, right) - 1
                        /\ HeldOf(keys, left, right) > 0
    BY DEF Held, HeldOf
  <1>5. HeldOf(keys, left, right) = 0 <=> keys \cap {left, right} = {}
    BY DEF Held, HeldOf
  <1> QED  BY <1>1, <1>2, <1>3, <1>4, <1>5 DEF CountsFor

\* The flags and counters of the driver follow the user from stroke to stroke.
LEMMA ModifiersFollow ==
    ASSUME NEW a \in Moments, NEW b \in Moments, NEW key \in Keys, NEW pressed \in BOOLEAN,
           Stroke(a, b, key, pressed), NEW m, Follows(m, a)
    PROVE  Follows(ModifiersAfter(m, key, pressed), b)
  <1> DEFINE shift(s) == HeldOf(s, "LSHIFT", "RSHIFT")
             strg(s) == HeldOf(s, "LSTRG", "RSTRG")
             on == Meant(a.down, a.locks)
  <1>m. m.shift = shift(a.down) /\ m.strg = strg(a.down) /\ m.flags = Meant(a.down, a.locks)
    BY DEF Follows
  <1>d. /\ a.locks \subseteq LockKeys /\ b.locks \subseteq LockKeys
        /\ b.down = IF pressed THEN a.down \union {key} ELSE a.down \ {key}
        /\ b.locks = IF pressed /\ key \in LockKeys THEN SymmetricDifference(a.locks, {key}) ELSE a.locks
    BY DEF Stroke, Moments
  <1>c. \A s, left, right : key \notin {left, right} =>
          HeldOf(s \union {key}, left, right) = HeldOf(s, left, right)
          /\ HeldOf(s \ {key}, left, right) = HeldOf(s, left, right)
    BY DEF Held, HeldOf
  <1>1. CASE key \in ShiftKeys
    <2>1. Counted(m.shift, pressed) = shift(b.down)
      <3>1. key = "LSHIFT" \/ key = "RSHIFT"  BY <1>1 DEF ShiftKeys
      <3>2. IF pressed THEN key \notin a.down ELSE key \in a.down  BY <1>1 DEF Stroke
      <3>3. "LSHIFT" # "RSHIFT"  OBVIOUS
      <3> HIDE DEF shift
      <3>4. CountsFor(a.down, "LSHIFT", "RSHIFT", key)
        BY <3>1, <3>3, CountFacts
      <3>5. /\ key \notin a.down => Counted(shift(a.down), TRUE) = shift(a.down \union {key})
            /\ key \in a.down => Counted(shift(a.down), FALSE) = shift(a.down \ {key})
        BY <3>4 DEF CountsFor, shift
      <3>6. CASE pressed = TRUE  BY <3>2, <3>5, <3>6, <1>d, <1>m
      <3>7. CASE pressed = FALSE  BY <3>2, <3>5, <3>7, <1>d, <1>m
      <3> QED  BY <3>6, <3>7
    <2>2. shift(b.down) = 0 <=> b.down \cap ShiftKeys = {}
      BY <1>1, CountFacts DEF ShiftKeys
    <2>3. m.strg = strg(b.down)  BY <1>1, <1>c, <1>d, <1>m DEF ShiftKeys
    <2>4. /\ key \notin StrgKeys \union LockKeys \union PlainModifiers
      BY <1>1 DEF ShiftKeys, StrgKeys, LockKeys, PlainModifiers
    <2>5. b.locks = a.locks  BY <1>d, <2>4
    <2>6. Meant(b.down, b.locks) = IF pressed THEN on \union {"SHIFT"}
                                   ELSE IF shift(b.down) = 0 THEN on \ {"SHIFT"} ELSE on
      BY <1>1, <1>d, <2>2, <2>4, <2>5 DEF Meant, LockKeys, PlainModifiers
    <2>7. ModifiersAfter(m, key, pressed) = [shift |-> shift(b.down), strg |-> strg(b.down),
                                             flags |-> Meant(b.down, b.locks)]
      BY <1>1, <1>m, <2>1, <2>3, <2>4, <2>6 DEF ModifiersAfter
    <2> QED  BY <2>7 DEF Follows
  <1>2. CASE key \in StrgKeys
    <2>1. Counted(m.strg, pressed) = strg(b.down)
      <3>1. key = "LSTRG" \/ key = "RSTRG"  BY <1>2 DEF StrgKeys
      <3>2. IF pressed THEN key \notin a.down ELSE key \in a.down  BY <1>2 DEF Stroke
      <3>3. "LSTRG" # "RSTRG"  OBVIOUS
      <3> HIDE DEF strg
      <3>4. CountsFor(a.down, "LSTRG", "RSTRG", key)
        BY <3>1, <3>3, CountFacts
      <3>5. /\ key \notin a.down => Counted(strg(a.down), TRUE) = strg(a.down \union {key})
            /\ key \in a.down => Counted(strg(a.down), FALSE) = strg(a.down \ {key})
        BY <3>4 DEF CountsFor, strg
      <3>6. CASE pressed = TRUE  BY <3>2, <3>5, <3>6, <1>d, <1>m
      <3>7. CASE pressed = FALSE  BY <3>2, <3>5, <3>7, <1>d, <1>m
      <3> QED  BY <3>6, <3>7
    <2>2. strg(b.down) = 0 <=> b.down \cap StrgKeys = {}
      BY <1>2, CountFacts DEF StrgKeys
    <2>3. m.shift = shift(b.down)  BY <1>2, <1>c, <1>d, <1>m DEF StrgKeys
    <2>4. /\ key \notin ShiftKeys \union LockKeys \union PlainModifiers
      BY <1>2 DEF StrgKeys, ShiftKeys, LockKeys, PlainModifiers
    <2>5. b.locks = a.locks  BY <1>d, <2>4
    <2>6. Meant(b.down, b.locks) = IF pressed THEN on \union {"STRG"}
                                   ELSE IF strg(b.down) = 0 THEN on \ {"STRG"} ELSE on
      BY <1>2, <1>d, <2>2, <2>4, <2>5 DEF Meant, LockKeys, PlainModifiers
    <2>7. ModifiersAfter(m, key, pressed) = [shift |-> shift(b.down), strg |-> strg(b.down),
                                             flags |-> Meant(b.down, b.locks)]
      BY <1>2, <1>m, <2>1, <2>3, <2>4, <2>6 DEF ModifiersAfter
    <2> QED  BY <2>7 DEF Follows
  <1>3. CASE key \in LockKeys
    <2>1. key \notin ShiftKeys \union StrgKeys \union PlainModifiers
      BY <1>3 DEF ShiftKeys, StrgKeys, LockKeys, PlainModifiers
    <2>2. shift(b.down) = m.shift /\ strg(b.down) = m.strg
      BY <1>c, <1>d, <1>m, <2>1 DEF ShiftKeys, StrgKeys
    <2>3. Meant(b.down, b.locks) = IF pressed THEN SymmetricDifference(on, {key}) ELSE on
      BY <1>3, <1>d, <2>1 DEF Meant, SymmetricDifference, LockKeys, PlainModifiers
    <2>4. ModifiersAfter(m, key, pressed) = [shift |-> shift(b.down), strg |-> strg(b.down),
                                             flags |-> Meant(b.down, b.locks)]
      BY <1>3, <1>m, <2>1, <2>2, <2>3 DEF ModifiersAfter
    <2> QED  BY <2>4 DEF Follows
  <1>4. CASE key \in PlainModifiers
    <2>1. key \notin ShiftKeys \union StrgKeys \union LockKeys
      BY <1>4 DEF ShiftKeys, StrgKeys, LockKeys, PlainModifiers
    <2>2. shift(b.down) = m.shift /\ strg(b.down) = m.strg
      BY <1>c, <1>d, <1>m, <2>1 DEF ShiftKeys, StrgKeys
    <2>3. Meant(b.down, b.locks) = IF pressed THEN on \union {key} ELSE on \ {key}
      BY <1>4, <1>d, <2>1 DEF Meant, LockKeys, PlainModifiers
    <2>4. ModifiersAfter(m, key, pressed) = [shift |-> shift(b.down), strg |-> strg(b.down),
                                             flags |-> Meant(b.down, b.locks)]
      BY <1>4, <1>m, <2>1, <2>2, <2>3 DEF ModifiersAfter
    <2> QED  BY <2>4 DEF Follows
  <1>5. CASE key \notin ShiftKeys \union StrgKeys \union LockKeys \union PlainModifiers
    <2>1. shift(b.down) = m.shift /\ strg(b.down) = m.strg
      BY <1>5, <1>c, <1>d, <1>m DEF ShiftKeys, StrgKeys
    <2>2. Meant(b.down, b.locks) = on
      BY <1>5, <1>d DEF Meant
    <2>3. ModifiersAfter(m, key, pressed) = [shift |-> shift(b.down), strg |-> strg(b.down),
                                             flags |-> Meant(b.down, b.locks)]
      BY <1>5, <1>m, <2>1, <2>2 DEF ModifiersAfter
    <2> QED  BY <2>3 DEF Follows
  <1> QED  BY <1>1, <1>2, <1>3, <1>4, <1>5

-----------------------------------------------------------------------------
(* The bytes under way tell what the user did.                             *)

\* The bytes of line l between two moments are the scan code of a key; the prefix may
\* have been read already, and then lies before the line.
Spelled(l, a, b, key, pressed) ==
    \/ /\ b.read = a.read + 1
       /\ ScanCode(key, pressed) = <<l[b.read]>>
    \/ /\ b.read = a.read + 2
       /\ ScanCode(key, pressed) = <<E0, l[b.read]>>
       /\ a.read >= 0 => l[a.read + 1] = E0

\* What the user did between two moments is on the line, and is the event.
Did(l, a, b, event) == \E key \in Keys, pressed \in BOOLEAN :
    /\ Stroke(a, b, key, pressed)
    /\ Spelled(l, a, b, key, pressed)
    /\ event = EventOf(key, pressed, Meant(b.down, b.locks))

\* The n events are what the user did from moment to moment, and use up the line.
Story(at, n, l, events) ==
    /\ at \in [0 .. n -> Moments]
    /\ \A i \in 1 .. n : at[i].read \in 1 .. Len(l) /\ Did(l, at[i - 1], at[i], events[i])
    /\ \A i, j \in 0 .. n : i < j => at[i].read < at[j].read
    /\ at[n].read = Len(l)

\* The same moment after d bytes have been read, ...
SameMoment(a, a2, d) == a2.down = a.down /\ a2.locks = a.locks /\ a2.read = a.read - d

\* ... and what these have left of the first n bytes.
SameBytes(l, l2, n, d) == \A j \in 1 .. n : j > d => l2[j - d] = l[j]

\* A part of the line that is at the same place, or one byte further to the front,
\* means the same.
LEMMA DidMoved ==
    ASSUME NEW l, NEW l2, NEW a \in Moments, NEW b \in Moments, NEW a2 \in Moments,
           NEW b2 \in Moments, NEW event, Did(l, a, b, event), NEW d \in {0, 1}, NEW n \in Nat,
           SameMoment(a, a2, d), SameMoment(b, b2, d), SameBytes(l, l2, n, d),
           b.read \in 1 .. n, b.read > d
    PROVE  Did(l2, a2, b2, event)
  <1>1. PICK key \in Keys, pressed \in BOOLEAN :
          /\ Stroke(a, b, key, pressed)
          /\ Spelled(l, a, b, key, pressed)
          /\ event = EventOf(key, pressed, Meant(b.down, b.locks))
    BY DEF Did
  <1>2. Stroke(a2, b2, key, pressed)  BY <1>1 DEF Stroke, SameMoment
  <1>3. /\ a.read \in Int /\ b.read \in Int /\ d \in Int
        /\ a2.read = a.read - d /\ b2.read = b.read - d /\ b2.down = b.down /\ b2.locks = b.locks
    BY DEF Moments, SameMoment
  <1>4. l2[b2.read] = l[b.read]  BY <1>3 DEF SameBytes
  <1>5. ASSUME b.read = a.read + 2, a2.read >= 0, l[a.read + 1] = E0
        PROVE  l2[a2.read + 1] = E0
    <2>1. a.read + 1 \in 1 .. n /\ a.read + 1 > d /\ a2.read + 1 = (a.read + 1) - d
      BY <1>3, <1>5
    <2> QED  BY <1>5, <2>1 DEF SameBytes
  <1>6. a2.read >= 0 => a.read >= 0  BY <1>3
  <1>7. /\ b.read = a.read + 1 => b2.read = a2.read + 1
        /\ b.read = a.read + 2 => b2.read = a2.read + 2
    BY <1>3
  <1>8. Spelled(l2, a2, b2, key, pressed)  BY <1>1, <1>4, <1>5, <1>6, <1>7 DEF Spelled
  <1> QED  BY <1>1, <1>2, <1>3, <1>8 DEF Did

\* The story goes on with a moment.
Continued(at, n, b) == [i \in 0 .. n + 1 |-> IF i <= n THEN at[i] ELSE b]

\* A key adds its scan code at the end of the line.
LEMMA StoryGoesOn ==
    ASSUME NoPrintScreen, NEW at, NEW n \in Nat, NEW l \in Seq(Bytes), NEW events \in Seq(Events),
           Len(events) = n, Story(at, n, l, events),
           NEW key \in Keys, NEW pressed \in BOOLEAN, NEW b \in Moments,
           Stroke(at[n], b, key, pressed),
           NEW l2, l2 = l \o ScanCode(key, pressed), b.read = Len(l2),
           NEW event, event = EventOf(key, pressed, Meant(b.down, b.locks))
    PROVE  Story(Continued(at, n, b), n + 1, l2, Append(events, event))
  <1> DEFINE at2 == Continued(at, n, b)
  <1>1. PICK byte \in Bytes : Short(key, pressed, byte) \/ Long(key, pressed, byte)
    BY CodeFacts
  <1>2. PICK m \in Nat : m = Len(l)  OBVIOUS
  <1>3. /\ at \in [0 .. n -> Moments] /\ at[n].read = m
        /\ \A i \in 1 .. n : at[i].read \in 1 .. m /\ Did(l, at[i - 1], at[i], events[i])
        /\ \A i, j \in 0 .. n : i < j => at[i].read < at[j].read
    BY <1>2 DEF Story
  <1>4. /\ l2 \in Seq(Bytes) /\ \A j \in 1 .. m : l2[j] = l[j]
        /\ \/ Len(l2) = m + 1 /\ l2[m + 1] = byte /\ ScanCode(key, pressed) = <<byte>>
           \/ Len(l2) = m + 2 /\ l2[m + 1] = E0 /\ l2[m + 2] = byte /\ ScanCode(key, pressed) = <<E0, byte>>
    <2>1. E0 \in Bytes  BY DEF E0, Bytes
    <2>2. CASE ScanCode(key, pressed) = <<byte>>  BY <1>2, <2>2
    <2>3. CASE ScanCode(key, pressed) = <<E0, byte>>  BY <1>2, <2>1, <2>3
    <2> QED  BY <1>1, <2>2, <2>3 DEF Short, Long
  <1>5. Spelled(l2, at[n], b, key, pressed)  BY <1>2, <1>3, <1>4 DEF Spelled
  <1>6. Did(l2, at[n], b, event)  BY <1>5 DEF Did
  <1>7. at2 \in [0 .. n + 1 -> Moments] /\ at2[n + 1] = b /\ \A i \in 0 .. n : at2[i] = at[i]
    BY <1>3 DEF Continued
  <1> HIDE DEF at2
  <1>8. /\ \A i \in 1 .. n : Append(events, event)[i] = events[i]
        /\ Append(events, event)[n + 1] = event
    OBVIOUS
  <1>9. ASSUME NEW i \in 1 .. n PROVE Did(l2, at[i - 1], at[i], events[i])
    <2>1. at[i] \in Moments /\ at[i - 1] \in Moments  BY <1>3
    <2>2. PICK d \in {0, 1} : d = 0  OBVIOUS
    <2>3. SameMoment(at[i], at[i], d) /\ SameMoment(at[i - 1], at[i - 1], d)
      BY <2>1, <2>2 DEF Moments, SameMoment
    <2>4. SameBytes(l, l2, m, d)  BY <1>4, <2>2 DEF SameBytes
    <2>5. at[i].read \in 1 .. m /\ at[i].read > d  BY <1>3, <2>2
    <2>6. Did(l, at[i - 1], at[i], events[i])  BY <1>3
    <2> QED  BY <2>1, <2>3, <2>4, <2>5, <2>6, DidMoved
  <1>10. ASSUME NEW i \in 1 .. n + 1
         PROVE  at2[i].read \in 1 .. Len(l2) /\ Did(l2, at2[i - 1], at2[i], Append(events, event)[i])
    <2>1. CASE i \in 1 .. n
      <3>1. at[i].read \in 1 .. Len(l2)  BY <1>3, <1>4, <2>1
      <3> QED  BY <1>7, <1>8, <1>9, <2>1, <3>1
    <2>2. CASE i = n + 1
      <3>1. b.read \in 1 .. Len(l2)  BY <1>4
      <3> QED  BY <1>6, <1>7, <1>8, <2>2, <3>1
    <2> QED  BY <2>1, <2>2
  <1>11. \A i, j \in 0 .. n + 1 : i < j => at2[i].read < at2[j].read
    <2>1. \A i \in 0 .. n : at[i].read < b.read
      <3>1. \A i \in 0 .. n : at[i].read \in Int  BY <1>3 DEF Moments
      <3>2. b.read > m  BY <1>4
      <3>3. \A i \in 0 .. n : at[i].read <= m
        <4> TAKE i \in 0 .. n
        <4>1. i = n \/ at[i].read < at[n].read  BY <1>3
        <4> QED  BY <1>3, <3>1, <4>1
      <3>4. PICK last \in Int : last = b.read  BY DEF Moments
      <3> TAKE i \in 0 .. n
      <3>5. PICK read \in Int : read = at[i].read  BY <3>1
      <3>6. read <= m /\ last > m  BY <3>2, <3>3, <3>4, <3>5
      <3>7. m \in Int  BY <1>4
      <3> QED  BY <3>4, <3>5, <3>6, <3>7, SMT
    <2> QED  BY <1>3, <1>7, <2>1
  <1>12. Story(at2, n + 1, l2, Append(events, event))
    BY <1>4, <1>7, <1>10, <1>11 DEF Story
  <1> QED  BY <1>12 DEF at2

\* The same moment when the line has moved by one byte.
Moved(a) == [a EXCEPT !.read = @ - 1]

\* It is a moment, one byte further to the front.
LEMMA MovedIs ==
    ASSUME NEW a \in Moments
    PROVE  /\ Moved(a) \in Moments /\ SameMoment(a, Moved(a), 1)
           /\ Moved(a).read = a.read - 1 /\ a.read \in Int
  BY DEF Moved, Moments, SameMoment

\* A byte has been read.
LEMMA MovedFacts ==
    ASSUME NEW l \in Seq(Bytes), l # <<>>, NEW a \in Moments, NEW b \in Moments, NEW event,
           Did(l, a, b, event), b.read \in 2 .. Len(l)
    PROVE  Did(Tail(l), Moved(a), Moved(b), event)
  <1>1. PICK m \in Nat : m = Len(l)  OBVIOUS
  <1>2. PICK d \in {0, 1} : d = 1  OBVIOUS
  <1>3. /\ Moved(a) \in Moments /\ SameMoment(a, Moved(a), d)
        /\ Moved(b) \in Moments /\ SameMoment(b, Moved(b), d)
    BY <1>2, MovedIs
  <1>4. SameBytes(l, Tail(l), m, d)
    <2>1. \A j \in 1 .. m - 1 : Tail(l)[j] = l[j + 1]  BY <1>1, HeadTailProperties
    <2>2. \A j \in 1 .. m : j > 1 => j - 1 \in 1 .. m - 1 /\ (j - 1) + 1 = j  BY <1>1
    <2> QED  BY <1>2, <2>1, <2>2 DEF SameBytes
  <1>5. b.read \in 1 .. m /\ b.read > d  BY <1>1, <1>2
  <1> QED  BY <1>3, <1>4, <1>5, DidMoved

\* Where the story starts on the line: the driver has read a prefix or not.
StartOf(state) == IF state = "NORMAL" THEN 0 ELSE -1

\* What the byte is that is read next: the prefix of the next event's scan code, ...
PrefixNext(at, l) == /\ l[1] = E0
                     /\ at[0].read = 0 /\ at[1].read = 2

\* ... or its last byte.
ScancodeNext(at, l, state, event) ==
    /\ at[1].read = 1
    /\ at[0].read = StartOf(state)
    /\ Completes(state, l[1])
    /\ \E key \in Keys, pressed \in BOOLEAN :
         /\ Stroke(at[0], at[1], key, pressed)
         /\ (l[1] < 128) = pressed
         /\ ScancodeToKeycode(l[1], state) = key
         /\ event = EventOf(key, pressed, Meant(at[1].down, at[1].locks))

\* One of the two comes next, as the state of the decoder expects.
LEMMA NextByte ==
    ASSUME NoPrintScreen, NEW at, NEW n \in Nat, NEW l \in Seq(Bytes), l # <<>>, NEW events,
           Story(at, n, l, events), NEW state \in {"NORMAL", "E0"}, at[0].read = StartOf(state)
    PROVE  /\ n > 0
           /\ \/ PrefixNext(at, l) /\ state = "NORMAL" /\ ~Completes(state, l[1])
              \/ ScancodeNext(at, l, state, events[1])
  <1>1. Len(l) \in Nat \ {0}  OBVIOUS
  <1>2. n > 0  BY <1>1 DEF Story, StartOf
  <1>3. /\ 1 \in 1 .. n /\ 1 - 1 = 0
        /\ at[1].read \in 1 .. Len(l) /\ Did(l, at[0], at[1], events[1])
    BY <1>2 DEF Story
  <1>4. PICK key \in Keys, pressed \in BOOLEAN :
          /\ Stroke(at[0], at[1], key, pressed)
          /\ Spelled(l, at[0], at[1], key, pressed)
          /\ events[1] = EventOf(key, pressed, Meant(at[1].down, at[1].locks))
    BY <1>3 DEF Did
  <1>5. PICK byte \in Bytes : /\ (byte < 128) = pressed
                              /\ Short(key, pressed, byte) \/ Long(key, pressed, byte)
    BY CodeFacts
  <1>6. CASE Short(key, pressed, byte)
    <2>1. at[1].read = at[0].read + 1 /\ byte = l[at[1].read]
      BY <1>4, <1>6 DEF Spelled, Short
    <2>2. at[0].read = 0 /\ at[1].read = 1 /\ state = "NORMAL"
      BY <1>3, <2>1 DEF StartOf
    <2> QED  BY <1>2, <1>4, <1>5, <1>6, <2>1, <2>2 DEF ScancodeNext, Short
  <1>7. CASE Long(key, pressed, byte)
    <2>1. /\ at[1].read = at[0].read + 2 /\ byte = l[at[1].read]
          /\ at[0].read >= 0 => l[at[0].read + 1] = E0
      BY <1>4, <1>7 DEF Spelled, Long
    <2>2. CASE state = "NORMAL"
      <3>1. at[0].read = 0 /\ at[1].read = 2 /\ l[1] = E0  BY <2>1, <2>2 DEF StartOf
      <3>2. ~Completes("NORMAL", E0)
        <4>1. E0 \in Bytes  BY DEF E0, Bytes
        <4> QED  BY <4>1, DecoderFacts
      <3> QED  BY <1>2, <2>2, <3>1, <3>2 DEF PrefixNext
    <2>3. CASE state = "E0"
      <3>1. at[0].read = -1 /\ at[1].read = 1  BY <2>1, <2>3 DEF StartOf
      <3> QED  BY <1>2, <1>4, <1>5, <1>7, <2>1, <2>3, <3>1 DEF ScancodeNext, Long
    <2> QED  BY <2>2, <2>3
  <1> QED  BY <1>5, <1>6, <1>7

\* A prefix is read: the story stays, the line moves.
LEMMA StoryAfterPrefix ==
    ASSUME NEW at, NEW n \in Nat \ {0}, NEW l \in Seq(Bytes), l # <<>>, NEW events,
           Story(at, n, l, events), PrefixNext(at, l),
           NEW at2, at2 = [i \in 0 .. n |-> Moved(at[i])]
    PROVE  Story(at2, n, Tail(l), events) /\ at2[0].read = -1
  <1>1. PICK m \in Nat \ {0} : m = Len(l)  OBVIOUS
  <1>2. /\ at \in [0 .. n -> Moments] /\ at[n].read = m
        /\ \A i \in 1 .. n : at[i].read \in 1 .. m /\ Did(l, at[i - 1], at[i], events[i])
        /\ \A i, j \in 0 .. n : i < j => at[i].read < at[j].read
    BY <1>1 DEF Story
  <1>3. Tail(l) \in Seq(Bytes) /\ Len(Tail(l)) = m - 1  BY <1>1, HeadTailProperties
  <1>4. \A i \in 1 .. n : at[i].read \in 2 .. m
    <2> TAKE i \in 1 .. n
    <2>1. at[1].read = 2 /\ at[i].read \in 1 .. m  BY <1>2 DEF PrefixNext
    <2>2. i = 1 \/ at[1].read < at[i].read  BY <1>2
    <2> QED  BY <2>1, <2>2
  <1>5. \A i \in 0 .. n : /\ at2[i] = Moved(at[i]) /\ at2[i] \in Moments
                          /\ at2[i].read = at[i].read - 1 /\ at[i].read \in Int
    BY <1>2, MovedIs
  <1>6. ASSUME NEW i \in 1 .. n PROVE Did(Tail(l), at2[i - 1], at2[i], events[i])
    <2>1. i - 1 \in 0 .. n /\ i \in 0 .. n  OBVIOUS
    <2>2. at[i - 1] \in Moments /\ at[i] \in Moments  BY <1>2, <2>1
    <2>3. Did(l, at[i - 1], at[i], events[i]) /\ at[i].read \in 2 .. Len(l)  BY <1>1, <1>2, <1>4
    <2>4. Did(Tail(l), Moved(at[i - 1]), Moved(at[i]), events[i])  BY <2>2, <2>3, MovedFacts
    <2> QED  BY <1>5, <2>1, <2>4
  <1>7. at2 \in [0 .. n -> Moments]  BY <1>5
  <1>8. \A i \in 1 .. n : at2[i].read \in 1 .. m - 1
    <2> TAKE i \in 1 .. n
    <2>1. PICK k \in 2 .. m : k = at[i].read  BY <1>4
    <2>2. i \in 0 .. n /\ k - 1 \in 1 .. m - 1  OBVIOUS
    <2> QED  BY <1>5, <2>1, <2>2
  <1>9. \A i, j \in 0 .. n : i < j => at2[i].read < at2[j].read
    <2> SUFFICES ASSUME NEW i \in 0 .. n, NEW j \in 0 .. n, i < j
                 PROVE  at2[i].read < at2[j].read
      OBVIOUS
    <2>1. at[i].read < at[j].read  BY <1>2
    <2>2. /\ at2[i].read = at[i].read - 1 /\ at[i].read \in Int
          /\ at2[j].read = at[j].read - 1 /\ at[j].read \in Int
      BY <1>5
    <2>3. PICK p \in Int, q \in Int : p = at[i].read /\ q = at[j].read  BY <2>2
    <2>4. p < q /\ at2[i].read = p - 1 /\ at2[j].read = q - 1  BY <2>1, <2>2, <2>3
    <2>5. p - 1 < q - 1  BY <2>4
    <2> QED  BY <2>4, <2>5
  <1>10. at2[n].read = m - 1 /\ at2[0].read = -1  BY <1>2, <1>5 DEF PrefixNext
  <1> QED  BY <1>3, <1>6, <1>7, <1>8, <1>9, <1>10 DEF Story

\* A scan code is read to its end: its event is over, and the line moves.
LEMMA StoryAfterScancode ==
    ASSUME NEW at, NEW n \in Nat \ {0}, NEW l \in Seq(Bytes), l # <<>>,
           NEW events \in Seq(Events), Len(events) = n,
           Story(at, n, l, events), at[1].read = 1,
           NEW at2, at2 = [i \in 0 .. n - 1 |-> Moved(at[i + 1])]
    PROVE  Story(at2, n - 1, Tail(l), Tail(events)) /\ at2[0].read = 0
  <1>1. PICK m \in Nat \ {0} : m = Len(l)  OBVIOUS
  <1>2. /\ at \in [0 .. n -> Moments] /\ at[n].read = m
        /\ \A i \in 1 .. n : at[i].read \in 1 .. m /\ Did(l, at[i - 1], at[i], events[i])
        /\ \A i, j \in 0 .. n : i < j => at[i].read < at[j].read
    BY <1>1 DEF Story
  <1>3. Tail(l) \in Seq(Bytes) /\ Len(Tail(l)) = m - 1  BY <1>1, HeadTailProperties
  <1>4. \A i \in 1 .. n - 1 : i + 1 \in 1 .. n /\ at[i + 1].read \in 2 .. m
    <2> TAKE i \in 1 .. n - 1
    <2>1. at[1].read = 1 /\ at[i + 1].read \in 1 .. m  BY <1>2
    <2>2. at[1].read < at[i + 1].read  BY <1>2
    <2> QED  BY <2>1, <2>2
  <1>5. \A i \in 0 .. n - 1 : /\ at2[i] = Moved(at[i + 1]) /\ at2[i] \in Moments
                              /\ at2[i].read = at[i + 1].read - 1 /\ at[i + 1].read \in Int
    BY <1>2, MovedIs
  <1>6. \A i \in 1 .. n - 1 : Tail(events)[i] = events[i + 1]  BY HeadTailProperties
  <1>7. ASSUME NEW i \in 1 .. n - 1 PROVE Did(Tail(l), at2[i - 1], at2[i], Tail(events)[i])
    <2>1. i - 1 \in 0 .. n - 1 /\ i \in 0 .. n - 1 /\ (i - 1) + 1 = i /\ (i + 1) - 1 = i
      OBVIOUS
    <2>2. at[i] \in Moments /\ at[i + 1] \in Moments  BY <1>2, <2>1
    <2>3. Did(l, at[i], at[i + 1], events[i + 1]) /\ at[i + 1].read \in 2 .. Len(l)
      BY <1>1, <1>2, <1>4, <2>1
    <2>4. Did(Tail(l), Moved(at[i]), Moved(at[i + 1]), events[i + 1])  BY <2>2, <2>3, MovedFacts
    <2> QED  BY <1>5, <1>6, <2>1, <2>4
  <1>8. at2 \in [0 .. n - 1 -> Moments]  BY <1>5
  <1>9. \A i \in 1 .. n - 1 : at2[i].read \in 1 .. m - 1
    <2> TAKE i \in 1 .. n - 1
    <2>1. PICK k \in 2 .. m : k = at[i + 1].read  BY <1>4
    <2>2. i \in 0 .. n - 1 /\ k - 1 \in 1 .. m - 1  OBVIOUS
    <2> QED  BY <1>5, <2>1, <2>2
  <1>10. \A i, j \in 0 .. n - 1 : i < j => at2[i].read < at2[j].read
    <2> SUFFICES ASSUME NEW i \in 0 .. n - 1, NEW j \in 0 .. n - 1, i < j
                 PROVE  at2[i].read < at2[j].read
      OBVIOUS
    <2>1. i + 1 \in 0 .. n /\ j + 1 \in 0 .. n /\ i + 1 < j + 1  OBVIOUS
    <2>2. at[i + 1].read < at[j + 1].read  BY <1>2, <2>1
    <2>3. /\ at2[i].read = at[i + 1].read - 1 /\ at[i + 1].read \in Int
          /\ at2[j].read = at[j + 1].read - 1 /\ at[j + 1].read \in Int
      BY <1>5
    <2>4. PICK p \in Int, q \in Int : p = at[i + 1].read /\ q = at[j + 1].read  BY <2>3
    <2>5. p < q /\ at2[i].read = p - 1 /\ at2[j].read = q - 1  BY <2>2, <2>3, <2>4
    <2>6. p - 1 < q - 1  BY <2>5
    <2> QED  BY <2>5, <2>6
  <1>11. at2[n - 1].read = m - 1 /\ at2[0].read = 0
    <2>1. n - 1 \in 0 .. n - 1 /\ (n - 1) + 1 = n /\ 0 \in 0 .. n - 1 /\ 0 + 1 = 1  OBVIOUS
    <2>2. at2[n - 1].read = at[n].read - 1 /\ at2[0].read = at[1].read - 1  BY <1>5, <2>1
    <2> QED  BY <1>2, <2>2
  <1> QED  BY <1>3, <1>7, <1>8, <1>9, <1>10, <1>11 DEF Story

-----------------------------------------------------------------------------
(* The inductive invariant.                                                *)

\* The bytes under way tell the story from what the driver has understood to what
\* the user holds now.
Tells(at) ==
    /\ Story(at, Len(expected), line, expected)
    /\ at[0].read = StartOf(ps2_kbd_state)
    /\ Follows(modifiers, at[0])
    /\ at[Len(expected)].down = down
    /\ at[Len(expected)].locks = locks

\* The inductive invariant of the driver.
DriverInv ==
    /\ BufferTypeOK
    /\ line \in Seq(Bytes)
    /\ expected \in Seq(Events)
    /\ ps2_kbd_state \in {"NORMAL", "E0"}
    /\ \E at : Tells(at)

\* What an append adds is the last event that can be read.
LEMMA LastAppended ==
    ASSUME BufferTypeOK, NEW e \in Events, AppendEvent(e)
    PROVE  Content'[size'] = e
  <1>1. Len(Content) = size /\ size \in Nat /\ Content \in Seq(Events)
    BY ContentLength DEF BufferTypeOK
  <1>2. SIZE \in Nat \ {0} /\ size <= SIZE  BY SizeAssumption DEF BufferTypeOK
  <1>3. CASE size < SIZE
    <2>1. Content' = Append(Content, e)  BY <1>3, AppendContent
    <2>2. size' = size + 1  BY <1>1, <1>2, <1>3 DEF AppendEvent
    <2>3. Append(Content, e)[size + 1] = e  BY <1>1, AppendFacts
    <2> QED  BY <2>1, <2>2, <2>3
  <1>4. CASE size >= SIZE
    <2>1. Content' = Append(Tail(Content), e)  BY <1>4, OverwriteContent
    <2>2. Tail(Content) \in Seq(Events) /\ Len(Tail(Content)) = size - 1
      BY <1>1, <1>2, <1>4, HeadTailProperties
    <2>3. Append(Tail(Content), e)[size - 1 + 1] = e
      <3>1. PICK s \in Seq(Events) : s = Tail(Content)  BY <2>2
      <3>2. Append(s, e)[Len(s) + 1] = e  BY AppendFacts
      <3> QED  BY <2>2, <3>1, <3>2
    <2>4. size' = size  BY <1>1, <1>2, <1>4 DEF AppendEvent
    <2>5. size - 1 + 1 = size  BY <1>1
    <2> QED  BY <2>1, <2>3, <2>4, <2>5
  <1> QED  BY <1>1, <1>2, <1>3, <1>4

\* At first nothing is under way.
LEMMA InitTells == Init => DriverInv
  <1> SUFFICES ASSUME Init PROVE DriverInv  OBVIOUS
  <1>1. PICK at : at = [i \in 0 .. 0 |-> [down |-> {}, locks |-> {}, read |-> 0]]  OBVIOUS
  <1>2. line = <<>> /\ expected = <<>> /\ Len(line) = 0 /\ Len(expected) = 0  BY DEF Init
  <1>3. at[0] = [down |-> {}, locks |-> {}, read |-> 0]  BY <1>1
  <1>4. at \in [0 .. 0 -> Moments]  BY <1>1 DEF Moments
  <1>5. Story(at, 0, line, expected)  BY <1>2, <1>3, <1>4 DEF Story
  <1>6. Meant({}, {}) = {}  BY DEF Meant
  <1>7. Follows(modifiers, at[0])
    <2>1. at[0].down = {} /\ at[0].locks = {}  BY <1>3
    <2>2. \A left, right : HeldOf({}, left, right) = 0  BY DEF HeldOf, Held
    <2>3. modifiers = [shift |-> 0, strg |-> 0, flags |-> {}]  BY DEF Init
    <2> QED  BY <1>6, <2>1, <2>2, <2>3 DEF Follows
  <1>8. Tells(at)  BY <1>2, <1>3, <1>5, <1>7 DEF Tells, Init, StartOf
  <1> QED  BY <1>2, <1>8, InitEmpty DEF Init, DriverInv

\* The user does something.
LEMMA SendStep ==
    ASSUME NoPrintScreen, DriverInv, NEW key \in Keys, NEW pressed \in BOOLEAN,
           Stroke([down |-> down, locks |-> locks], [down |-> down', locks |-> locks'], key, pressed),
           Send(key, pressed)
    PROVE  DriverInv'
  <1>1. PICK at : Tells(at)  BY DEF DriverInv
  <1>2. PICK n \in Nat : n = Len(expected)  BY DEF DriverInv
  <1>3. /\ line \in Seq(Bytes) /\ expected \in Seq(Events) /\ BufferTypeOK
        /\ ps2_kbd_state \in {"NORMAL", "E0"}
    BY DEF DriverInv
  <1>4. /\ Story(at, n, line, expected) /\ at[n].down = down /\ at[n].locks = locks
        /\ at[0].read = StartOf(ps2_kbd_state) /\ Follows(modifiers, at[0])
    BY <1>1, <1>2 DEF Tells
  <1>5. /\ line' = line \o ScanCode(key, pressed)
        /\ expected' = Append(expected, EventOf(key, pressed, Meant(down', locks')))
        /\ UNCHANGED <<bufferVars, driverVars>>
    BY DEF Send
  <1>6. at[n] \in Moments  BY <1>4 DEF Story
  <1>7. line' \in Seq(Bytes)
    <2>1. PICK byte \in Bytes : Short(key, pressed, byte) \/ Long(key, pressed, byte)
      BY CodeFacts
    <2>2. E0 \in Bytes  BY DEF E0, Bytes
    <2>3. <<byte>> \in Seq(Bytes) /\ <<E0, byte>> \in Seq(Bytes)  BY <2>2
    <2>4. ScanCode(key, pressed) \in Seq(Bytes)  BY <2>1, <2>3 DEF Short, Long
    <2> QED  BY <1>3, <1>5, <2>4
  <1>8. PICK b : b = [down |-> down', locks |-> locks', read |-> Len(line')]  OBVIOUS
  <1>9. /\ Stroke(at[n], b, key, pressed)
        /\ b.down = down' /\ b.locks = locks' /\ b.read = Len(line')
    BY <1>4, <1>8 DEF Stroke
  <1>10. b \in Moments
    <2>1. b.down \subseteq Keys  BY <1>6, <1>9 DEF Stroke, Moments
    <2>2. b.locks \subseteq Keys \cap LockKeys
      BY <1>6, <1>9 DEF Stroke, Moments, SymmetricDifference
    <2>3. b.read \in Int  BY <1>7, <1>9
    <2> QED  BY <1>8, <1>9, <2>1, <2>2, <2>3 DEF Moments
  <1>11. PICK event : event = EventOf(key, pressed, Meant(b.down, b.locks))  OBVIOUS
  <1>12. event \in Events  BY <1>10, <1>11, EventsAssumption DEF Moments
  <1>13. expected' = Append(expected, event)  BY <1>5, <1>9, <1>11
  <1>14. PICK at2 : at2 = Continued(at, n, b)  OBVIOUS
  <1>15. Story(at2, n + 1, line', expected')
    <2>1. PICK l2 : l2 = line'  OBVIOUS
    <2>2. l2 = line \o ScanCode(key, pressed) /\ b.read = Len(l2)  BY <1>5, <1>9, <2>1
    <2>3. Story(at, n, line, expected) /\ Len(expected) = n /\ Stroke(at[n], b, key, pressed)
      BY <1>2, <1>4, <1>9
    <2>4. Story(at2, n + 1, l2, Append(expected, event))
      BY <1>3, <1>10, <1>11, <1>14, <2>2, <2>3, StoryGoesOn
    <2> QED  BY <1>13, <2>1, <2>4
  <1>16. Len(expected') = n + 1 /\ expected' \in Seq(Events)  BY <1>2, <1>3, <1>12, <1>13, AppendFacts
  <1>17. at2[n + 1] = b /\ at2[0] = at[0]  BY <1>14 DEF Continued
  <1>18. modifiers' = modifiers /\ ps2_kbd_state' = ps2_kbd_state  BY <1>5 DEF driverVars
  <1>19. Tells(at2)'
    <2>1. Story(at2, Len(expected'), line', expected')  BY <1>15, <1>16
    <2>2. at2[0].read = StartOf(ps2_kbd_state') /\ Follows(modifiers', at2[0])  BY <1>4, <1>17, <1>18
    <2>3. at2[Len(expected')].down = down' /\ at2[Len(expected')].locks = locks'  BY <1>9, <1>16, <1>17
    <2> QED  BY <2>1, <2>2, <2>3 DEF Tells
  <1>20. BufferTypeOK'  BY <1>3, <1>5, TypeStep
  <1> QED  BY <1>3, <1>7, <1>16, <1>18, <1>19, <1>20 DEF DriverInv

\* What is read next.
LEMMA NextOf ==
    ASSUME NoPrintScreen, DriverInv, line # <<>>
    PROVE  \E at : /\ Tells(at)
                   /\ expected # <<>>
                   /\ \/ /\ PrefixNext(at, line) /\ ps2_kbd_state = "NORMAL"
                         /\ ~Completes(ps2_kbd_state, Head(line))
                      \/ /\ ScancodeNext(at, line, ps2_kbd_state, Head(expected))
                         /\ Completes(ps2_kbd_state, Head(line))
  <1>1. PICK at : Tells(at)  BY DEF DriverInv
  <1>2. PICK n \in Nat : n = Len(expected)  BY DEF DriverInv
  <1>3. line \in Seq(Bytes) /\ expected \in Seq(Events) /\ ps2_kbd_state \in {"NORMAL", "E0"}
    BY DEF DriverInv
  <1>4. Story(at, n, line, expected) /\ at[0].read = StartOf(ps2_kbd_state)  BY <1>1, <1>2 DEF Tells
  <1>5. /\ n > 0
        /\ \/ PrefixNext(at, line) /\ ps2_kbd_state = "NORMAL" /\ ~Completes(ps2_kbd_state, line[1])
           \/ ScancodeNext(at, line, ps2_kbd_state, expected[1])
    BY <1>3, <1>4, NextByte
  <1>6. expected # <<>> /\ Head(expected) = expected[1] /\ Head(line) = line[1]
    BY <1>2, <1>3, <1>5
  <1> QED  BY <1>1, <1>5, <1>6 DEF ScancodeNext

\* The driver reads a byte that completes nothing: it is a prefix.
LEMMA PrefixStep ==
    ASSUME NoPrintScreen, DriverInv, ReceiveByte
    PROVE  DriverInv'
  <1>1. line # <<>> /\ ~Completes(ps2_kbd_state, Head(line))  BY DEF ReceiveByte
  <1>2. PICK at : /\ Tells(at) /\ expected # <<>>
                  /\ PrefixNext(at, line) /\ ps2_kbd_state = "NORMAL"
    BY <1>1, NextOf
  <1>3. line \in Seq(Bytes) /\ expected \in Seq(Events) /\ BufferTypeOK  BY DEF DriverInv
  <1>4. PICK n \in Nat \ {0} : n = Len(expected)  BY <1>2, <1>3
  <1>5. PICK at2 : at2 = [i \in 0 .. n |-> Moved(at[i])]  OBVIOUS
  <1>6. Story(at, n, line, expected) /\ at \in [0 .. n -> Moments]  BY <1>2, <1>4 DEF Tells, Story
  <1>7. Story(at2, n, Tail(line), expected) /\ at2[0].read = -1
    BY <1>1, <1>2, <1>3, <1>5, <1>6, StoryAfterPrefix
  <1>8. /\ line' = Tail(line) /\ expected' = expected /\ modifiers' = modifiers
        /\ down' = down /\ locks' = locks /\ UNCHANGED bufferVars
    BY DEF ReceiveByte, userVars
  <1>9. ps2_kbd_state' = "E0"
    <2>1. Head(line) = E0  BY <1>1, <1>2, <1>3 DEF PrefixNext
    <2>2. E0 \in Bytes  BY DEF E0, Bytes
    <2> QED  BY <1>2, <2>1, <2>2, DecoderFacts DEF ReceiveByte
  <1>10. \A i \in {0, n} : at2[i].down = at[i].down /\ at2[i].locks = at[i].locks
    BY <1>5, <1>6, MovedIs DEF SameMoment
  <1>11. Follows(modifiers, at2[0])  BY <1>2, <1>10 DEF Tells, Follows
  <1>12. at2[n].down = down /\ at2[n].locks = locks  BY <1>2, <1>4, <1>10 DEF Tells
  <1>13. Tells(at2)'
    <2>1. Story(at2, Len(expected'), line', expected')  BY <1>4, <1>7, <1>8
    <2>2. at2[0].read = StartOf(ps2_kbd_state') /\ Follows(modifiers', at2[0])
      BY <1>7, <1>8, <1>9, <1>11 DEF StartOf
    <2>3. at2[Len(expected')].down = down' /\ at2[Len(expected')].locks = locks'  BY <1>4, <1>8, <1>12
    <2> QED  BY <2>1, <2>2, <2>3 DEF Tells
  <1>14. BufferTypeOK'  BY <1>3, <1>8, TypeStep
  <1>15. line' \in Seq(Bytes) /\ expected' \in Seq(Events)  BY <1>1, <1>3, <1>8, HeadTailProperties
  <1> QED  BY <1>9, <1>13, <1>14, <1>15 DEF DriverInv

\* The driver reads the last byte of a scan code and appends the event the user means.
LEMMA ScancodeStep ==
    ASSUME NoPrintScreen, DriverInv, ReceiveScancode
    PROVE  /\ DriverInv'
           /\ expected # <<>> /\ Head(expected) \in Events /\ AppendEvent(Head(expected))
  <1>1. line # <<>> /\ Completes(ps2_kbd_state, Head(line))  BY DEF ReceiveScancode
  <1>2. PICK at : /\ Tells(at) /\ expected # <<>>
                  /\ ScancodeNext(at, line, ps2_kbd_state, Head(expected))
    BY <1>1, NextOf
  <1>3. /\ line \in Seq(Bytes) /\ expected \in Seq(Events) /\ BufferTypeOK
        /\ Head(line) = line[1] /\ Head(expected) \in Events
    BY <1>1, <1>2 DEF DriverInv
  <1>4. PICK n \in Nat \ {0} : n = Len(expected)  BY <1>2, <1>3
  <1>5. Story(at, n, line, expected) /\ at \in [0 .. n -> Moments]  BY <1>2, <1>4 DEF Tells, Story
  <1>6. PICK key \in Keys, pressed \in BOOLEAN :
          /\ Stroke(at[0], at[1], key, pressed)
          /\ (line[1] < 128) = pressed
          /\ ScancodeToKeycode(line[1], ps2_kbd_state) = key
          /\ Head(expected) = EventOf(key, pressed, Meant(at[1].down, at[1].locks))
    BY <1>2 DEF ScancodeNext
  <1>7. /\ modifiers' = ModifiersAfter(modifiers, key, pressed)
        /\ AppendEvent(EventOf(key, pressed, modifiers'.flags))
    BY <1>3, <1>6 DEF ReceiveScancode
  <1>8. Follows(modifiers', at[1])
    <2>1. at[0] \in Moments /\ at[1] \in Moments  BY <1>5
    <2>2. Follows(modifiers, at[0])  BY <1>2 DEF Tells
    <2> QED  BY <1>6, <1>7, <2>1, <2>2, ModifiersFollow
  <1>9. AppendEvent(Head(expected))
    <2>1. modifiers'.flags = Meant(at[1].down, at[1].locks)  BY <1>8 DEF Follows
    <2> QED  BY <1>6, <1>7, <2>1
  <1>10. /\ line' = Tail(line) /\ expected' = Tail(expected) /\ ps2_kbd_state' = "NORMAL"
         /\ down' = down /\ locks' = locks
    BY <1>2 DEF ReceiveScancode, userVars
  <1>11. PICK at2 : at2 = [i \in 0 .. n - 1 |-> Moved(at[i + 1])]  OBVIOUS
  <1>12. Story(at2, n - 1, Tail(line), Tail(expected)) /\ at2[0].read = 0
    BY <1>1, <1>2, <1>3, <1>4, <1>5, <1>11, StoryAfterScancode DEF ScancodeNext
  <1>13. /\ at2[0].down = at[1].down /\ at2[0].locks = at[1].locks
         /\ at2[n - 1].down = at[n].down /\ at2[n - 1].locks = at[n].locks
    <2>1. at2[0] = Moved(at[1]) /\ at2[n - 1] = Moved(at[n])
      <3>1. 0 \in 0 .. n - 1 /\ n - 1 \in 0 .. n - 1 /\ 0 + 1 = 1 /\ (n - 1) + 1 = n  OBVIOUS
      <3> QED  BY <1>11, <3>1
    <2>2. at[1] \in Moments /\ at[n] \in Moments  BY <1>5
    <2> QED  BY <2>1, <2>2, MovedIs DEF SameMoment
  <1>14. /\ Len(Tail(expected)) = n - 1 /\ Tail(expected) \in Seq(Events) /\ Tail(line) \in Seq(Bytes)
    BY <1>1, <1>2, <1>3, <1>4, HeadTailProperties
  <1>15. Tells(at2)'
    <2>1. Story(at2, Len(expected'), line', expected')  BY <1>10, <1>12, <1>14
    <2>2. at2[0].read = StartOf(ps2_kbd_state')  BY <1>10, <1>12 DEF StartOf
    <2>3. Follows(modifiers', at2[0])  BY <1>8, <1>13 DEF Follows
    <2>4. at2[Len(expected')].down = down' /\ at2[Len(expected')].locks = locks'
      BY <1>2, <1>4, <1>10, <1>13, <1>14 DEF Tells
    <2> QED  BY <2>1, <2>2, <2>3, <2>4 DEF Tells
  <1>16. BufferTypeOK'
    <2>1. BufferNext  BY <1>3, <1>9 DEF BufferNext
    <2> QED  BY <1>3, <2>1, TypeStep
  <1> QED  BY <1>2, <1>3, <1>9, <1>10, <1>14, <1>15, <1>16 DEF DriverInv

\* The invariant holds throughout.
LEMMA DriverStep ==
    ASSUME NoPrintScreen, NoShiftRepeats, DriverInv, [Next]_vars
    PROVE  DriverInv'
  <1>u. down \subseteq Keys /\ locks \subseteq Keys \cap LockKeys
    <2>1. PICK at : Tells(at)  BY DEF DriverInv
    <2>2. Len(expected) \in Nat  BY DEF DriverInv
    <2>3. at[Len(expected)] \in Moments  BY <2>1, <2>2 DEF Tells, Story
    <2> QED  BY <2>1, <2>3 DEF Tells, Moments
  <1>1. CASE PressKey
    <2>1. PICK key \in Keys \ down :
            /\ down' = down \union {key}
            /\ locks' = IF key \in LockKeys THEN SymmetricDifference(locks, {key}) ELSE locks
            /\ Send(key, TRUE)
      BY <1>1 DEF PressKey, LocksAfter
    <2>2. Stroke([down |-> down, locks |-> locks], [down |-> down', locks |-> locks'], key, TRUE)
      BY <2>1 DEF Stroke
    <2> QED  BY <2>1, <2>2, SendStep
  <1>2. CASE ReleaseKey
    <2>1. PICK key \in down : down' = down \ {key} /\ UNCHANGED locks /\ Send(key, FALSE)
      BY <1>2 DEF ReleaseKey
    <2>2. Stroke([down |-> down, locks |-> locks], [down |-> down', locks |-> locks'], key, FALSE)
      BY <2>1 DEF Stroke
    <2>3. key \in Keys  BY <1>u, <2>1
    <2> QED  BY <2>1, <2>2, <2>3, SendStep
  <1>3. CASE RepeatKey
    <2>1. PICK key \in down \cap Repeating :
            /\ UNCHANGED down
            /\ locks' = IF key \in LockKeys THEN SymmetricDifference(locks, {key}) ELSE locks
            /\ Send(key, TRUE)
      BY <1>3 DEF RepeatKey, LocksAfter
    <2>2. key \notin ShiftKeys \union StrgKeys  BY <2>1 DEF NoShiftRepeats
    <2>3. Stroke([down |-> down, locks |-> locks], [down |-> down', locks |-> locks'], key, TRUE)
      BY <2>1, <2>2 DEF Stroke
    <2>4. key \in Keys  BY <1>u, <2>1
    <2> QED  BY <2>1, <2>3, <2>4, SendStep
  <1>4. CASE ReceiveByte  BY <1>4, PrefixStep
  <1>5. CASE ReceiveScancode  BY <1>5, ScancodeStep
  <1>6. CASE TimerInterrupt \/ UNCHANGED vars
    <2>1. /\ UNCHANGED <<driverVars, line, userVars, expected>>
          /\ BufferNext \/ UNCHANGED bufferVars
      BY <1>6 DEF TimerInterrupt, BufferNext, vars
    <2>2. BufferTypeOK'  BY <2>1, TypeStep DEF DriverInv
    <2>3. PICK at : Tells(at)  BY DEF DriverInv
    <2>4. Tells(at)'  BY <2>1, <2>3 DEF Tells, driverVars, userVars
    <2> QED  BY <2>1, <2>2, <2>4 DEF DriverInv, driverVars
  <1> QED  BY <1>1, <1>2, <1>3, <1>4, <1>5, <1>6 DEF Next

\* The bytes under way always tell the driver what the user did.
THEOREM DriverInvariant == NoPrintScreen /\ NoShiftRepeats => (Spec => []DriverInv)
  <1> SUFFICES ASSUME NoPrintScreen, NoShiftRepeats PROVE Spec => []DriverInv  OBVIOUS
  <1>1. Init => DriverInv  BY InitTells
  <1>2. DriverInv /\ [Next]_vars => DriverInv'  BY DriverStep
  <1> QED  BY <1>1, <1>2, PTL DEF Spec

-----------------------------------------------------------------------------
(* The properties.                                                         *)

\* When every byte is read, every event is.
LEMMA AllRead ==
    ASSUME DriverInv, line = <<>>
    PROVE  expected = <<>> /\ ps2_kbd_state = "NORMAL"
  <1>1. PICK at : Tells(at)  BY DEF DriverInv
  <1>2. PICK n \in Nat : n = Len(expected)  BY DEF DriverInv
  <1>3. /\ at[n].read = Len(line) /\ at[0].read = StartOf(ps2_kbd_state)
        /\ \A i \in 1 .. n : at[i].read \in 1 .. Len(line)
    BY <1>1, <1>2 DEF Tells, Story
  <1>4. Len(line) = 0 /\ expected \in Seq(Events) /\ ps2_kbd_state \in {"NORMAL", "E0"}
    BY DEF DriverInv
  <1>5. n = 0  BY <1>3, <1>4
  <1>6. expected = <<>>  BY <1>2, <1>4, <1>5, EmptySeq
  <1> QED  BY <1>3, <1>4, <1>5, <1>6 DEF StartOf

\* On every set of keys without Print Screen of which any repeat but Shift and Strg,
\* and however late the bytes are read, ps2_kbd_irq_callback appends exactly the user's
\* events, with the modifiers held at the moment of each, and is left in no prefix.  The
\* runs keyboard_print_screen and keyboard_repeat show that both conditions are needed.
THEOREM KeyboardDecodesFaithfully ==
    NoPrintScreen /\ NoShiftRepeats => (Spec => DecodesFaithfully)
  <1> SUFFICES ASSUME NoPrintScreen, NoShiftRepeats PROVE Spec => DecodesFaithfully  OBVIOUS
  <1>1. Spec => []DriverInv  BY DriverInvariant
  <1>2. DriverInv /\ [Next]_vars
          => [ReceiveScancode => expected # <<>> /\ Content'[size'] = Head(expected)]_vars
    <2> SUFFICES ASSUME DriverInv, ReceiveScancode
                 PROVE  expected # <<>> /\ Content'[size'] = Head(expected)
      OBVIOUS
    <2>1. expected # <<>> /\ Head(expected) \in Events /\ AppendEvent(Head(expected))
      BY ScancodeStep
    <2>2. BufferTypeOK  BY DEF DriverInv
    <2> QED  BY <2>1, <2>2, LastAppended
  <1>3. DriverInv => (line = <<>> => expected = <<>> /\ ps2_kbd_state = "NORMAL")  BY AllRead
  <1> QED  BY <1>1, <1>2, <1>3, PTL DEF Spec, DecodesFaithfully

\* The flags of an event.
Flags == {"SHIFT", "STRG"} \union LockKeys \union PlainModifiers

\* Everything the driver can report is an event.
EveryReportIsAnEvent ==
    \A key \in KnownKeys \union {"UNKNOWN"}, pressed \in BOOLEAN, flags \in SUBSET Flags :
      EventOf(key, pressed, flags) \in Events

\* What the driver makes of any byte is something it can report.
LEMMA ReportFacts ==
    ASSUME NEW byte, NEW state, NEW m, m.flags \subseteq Flags, NEW pressed \in BOOLEAN
    PROVE  /\ ScancodeToKeycode(byte, state) \in KnownKeys \union {"UNKNOWN"}
           /\ ModifiersAfter(m, ScancodeToKeycode(byte, state), pressed).flags \subseteq Flags
  <1>1. \A code : Keycode(code) \in KnownKeys \union {"UNKNOWN"}
    BY DEF Keycode, KnownKeys, ShiftKeys, StrgKeys, LockKeys, PlainModifiers
  <1>2. PICK key : key = ScancodeToKeycode(byte, state)  OBVIOUS
  <1>3. ModifiersAfter(m, key, pressed).flags \subseteq Flags
    BY DEF ModifiersAfter, SymmetricDifference, Flags
  <1> QED  BY <1>1, <1>2, <1>3 DEF ScancodeToKeycode

\* With the driver as its writer and the timer's handler as its reader, the ring buffer is
\* the bounded queue of key events, whatever the user types and whichever keys repeat.
THEOREM DriverKeepsQueue == EveryReportIsAnEvent => (Spec => ImplementsKeyQueue)
  <1> SUFFICES ASSUME EveryReportIsAnEvent PROVE Spec => ImplementsKeyQueue  OBVIOUS
  <1> DEFINE QueueInv == BufferTypeOK /\ modifiers.flags \subseteq Flags
  <1>1. Init => QueueInv
    <2>1. Init => BufferTypeOK  BY InitEmpty DEF Init
    <2>2. Init => modifiers.flags = {}  BY DEF Init
    <2> QED  BY <2>1, <2>2
  <1>2. QueueInv /\ [Next]_vars => [BufferNext]_bufferVars /\ (modifiers.flags \subseteq Flags)'
    <2> SUFFICES ASSUME QueueInv, [Next]_vars
                 PROVE  [BufferNext]_bufferVars /\ (modifiers.flags \subseteq Flags)'
      OBVIOUS
    <2>1. CASE ReceiveScancode
      <3> DEFINE key == ScancodeToKeycode(Head(line), ps2_kbd_state)
      <3>1. \E pressed \in BOOLEAN :
              /\ modifiers' = ModifiersAfter(modifiers, key, pressed)
              /\ AppendEvent(EventOf(key, pressed, modifiers'.flags))
        <4>1. CASE Head(line) < 128  BY <2>1, <4>1 DEF ReceiveScancode
        <4>2. CASE ~(Head(line) < 128)
          <5>1. (Head(line) < 128) = FALSE  BY <4>2
          <5> QED  BY <2>1, <5>1 DEF ReceiveScancode
        <4> QED  BY <4>1, <4>2
      <3> HIDE DEF key
      <3>2. PICK pressed \in BOOLEAN :
              /\ modifiers' = ModifiersAfter(modifiers, key, pressed)
              /\ AppendEvent(EventOf(key, pressed, modifiers'.flags))
        BY <3>1
      <3>3. key \in KnownKeys \union {"UNKNOWN"} /\ modifiers'.flags \subseteq Flags
        BY <3>2, ReportFacts DEF key
      <3>4. EventOf(key, pressed, modifiers'.flags) \in Events
        BY <3>3 DEF EveryReportIsAnEvent
      <3> QED  BY <3>2, <3>3, <3>4 DEF BufferNext
    <2>2. CASE TimerInterrupt  BY <2>2 DEF TimerInterrupt, BufferNext, driverVars
    <2>3. CASE PressKey \/ ReleaseKey \/ RepeatKey
      BY <2>3 DEF PressKey, ReleaseKey, RepeatKey, Send, driverVars
    <2>4. CASE ReceiveByte  BY <2>4 DEF ReceiveByte
    <2>5. CASE UNCHANGED vars  BY <2>5 DEF vars, driverVars
    <2> QED  BY <2>1, <2>2, <2>3, <2>4, <2>5 DEF Next
  <1>3. QueueInv /\ [Next]_vars => QueueInv'
    <2> SUFFICES ASSUME QueueInv, [Next]_vars PROVE QueueInv'  OBVIOUS
    <2>1. BufferTypeOK'  BY <1>2, TypeStep
    <2> QED  BY <1>2, <2>1
  <1>4. Init => Queue!Init  BY InitEmpty DEF Init, BufferInit, Queue!Init
  <1>5. QueueInv /\ [Next]_vars => [Queue!Next]_(Queue!vars)
    BY <1>2, StepSimulation
  <1> QED  BY <1>1, <1>3, <1>4, <1>5, PTL DEF Spec, ImplementsKeyQueue, Queue!Spec
==============================================================================
