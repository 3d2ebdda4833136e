----------------------- MODULE StreamSubscriber_proofs -----------------------
(***************************************************************************)
(* Theorems about StreamSubscriber, for every set of sessions, all lengths *)
(* of messages and every capacity of the rings: no fragment is cut off,    *)
(* what the consumer takes are the messages of each session, whole and in  *)
(* their order, and the loop never runs out of anything to do.             *)
(***************************************************************************)
EXTENDS StreamSubscriber, SequenceTheorems, Induction

Byte == Sessions \X Nat
Message == {m \in Byte : m[2] \in 1..Len(Published[m[1]])}
Size(m) == Published[m[1]][m[2]]

(* The messages of a session from one to another. *)
Run(s, first, last) == [i \in 1 .. last - first + 1 |-> <<s, first + i - 1>>]

-----------------------------------------------------------------------------
(* Messages laid out in a ring.                                             *)

(* The bytes are those of the messages in line, one after the other, and a   *)
(* rest of others; the j-th message ends at end[j].                          *)
Marks(bytes, line, rest, end) ==
  /\ end \in [0..Len(line) -> Nat]
  /\ end[0] = 0 /\ end[Len(line)] + rest = Len(bytes)
  /\ \A i, j \in 0..Len(line) : i <= j => end[i] <= end[j]
  /\ \A j \in 1..Len(line) : end[j] = end[j - 1] + Size(line[j])
  /\ \A j \in 1..Len(line) : \A p \in end[j - 1] + 1 .. end[j] : bytes[p] = line[j]

Laid(bytes, line, rest) == \E end : Marks(bytes, line, rest, end)

LEMMA LaidNone == Laid(<<>>, <<>>, 0)
<1> DEFINE end == [i \in 0..0 |-> 0]
<1>1. Marks(<<>>, <<>>, 0, end)
  BY DEF Marks
<1> QED
  BY <1>1 DEF Laid

LEMMA SizeIsNat ==
  ASSUME NEW m \in Message PROVE Size(m) \in 1..PayloadCapacity /\ Size(m) \in Nat
<1>1. m[1] \in Sessions /\ m[2] \in 1..Len(Published[m[1]])
  BY DEF Message, Byte
<1>2. Published[m[1]] \in Seq(1..PayloadCapacity)
  BY <1>1, SubscriberAssumption
<1>3. Published[m[1]][m[2]] \in 1..PayloadCapacity
  BY <1>1, <1>2, ElementOfSeq
<1> QED
  BY <1>3, SubscriberAssumption DEF Size

LEMMA EndsAreInRange ==
  ASSUME NEW bytes \in Seq(Byte), NEW line \in Seq(Message), NEW rest \in Nat, NEW end,
         Marks(bytes, line, rest, end)
  PROVE  /\ Len(line) \in Nat /\ Len(bytes) \in Nat /\ 0 \in 0..Len(line)
         /\ Len(line) \in 0..Len(line)
         /\ \A j \in 0..Len(line) : end[j] \in Nat /\ end[j] <= Len(bytes) - rest
<1>1. /\ Len(line) \in Nat /\ Len(bytes) \in Nat /\ Len(line) \in 0..Len(line)
      /\ 0 \in 0..Len(line)
  OBVIOUS
<1> DEFINE n == Len(line)
           b == Len(bytes)
<1>2. /\ end \in [0..n -> Nat] /\ end[n] + rest = b
      /\ \A i, j \in 0..n : i <= j => end[i] <= end[j]
  BY DEF Marks
<1>3. n \in Nat /\ b \in Nat /\ n \in 0..n
  BY <1>1
<1> HIDE DEF n, b
<1>4. ASSUME NEW j \in 0..n PROVE end[j] \in Nat /\ end[j] <= b - rest
  <2>1. end[j] \in Nat /\ end[n] \in Nat /\ end[j] <= end[n]
    BY <1>2, <1>3
  <2> QED
    BY <2>1, <1>2, <1>3
<1> QED
  BY <1>1, <1>4 DEF n, b

(* Bytes that belong to no whole message are added behind. *)
LEMMA MarksGrow ==
  ASSUME NEW bytes \in Seq(Byte), NEW more \in Seq(Byte), NEW line \in Seq(Message),
         NEW rest \in Nat, NEW end, Marks(bytes, line, rest, end)
  PROVE  Marks(bytes \o more, line, rest + Len(more), end)
<1>1. /\ Len(bytes \o more) = Len(bytes) + Len(more)
      /\ \A p \in 1..Len(bytes) : (bytes \o more)[p] = bytes[p]
      /\ Len(bytes) \in Nat /\ Len(more) \in Nat /\ Len(line) \in Nat
      /\ Len(line) \in 0..Len(line)
  BY ConcatProperties
<1>2. \A j \in 0..Len(line) : end[j] \in Nat /\ end[j] <= Len(bytes)
  <2>1. \A j \in 0..Len(line) : end[j] \in Nat /\ end[j] <= Len(bytes) - rest
    BY EndsAreInRange
  <2> QED
    BY <2>1, <1>1
<1>3. ASSUME NEW j \in 1..Len(line), NEW p \in end[j - 1] + 1 .. end[j]
      PROVE  (bytes \o more)[p] = line[j]
  <2>1. j - 1 \in 0..Len(line) /\ j \in 0..Len(line)
    BY <1>1
  <2>2. p \in 1..Len(bytes)
    <3>1. end[j - 1] \in Nat /\ end[j] \in Nat /\ end[j] <= Len(bytes)
      BY <2>1, <1>2
    <3>2. Len(bytes) \in Nat
      OBVIOUS
    <3> QED
      BY <3>1, <3>2
  <2> QED
    BY <2>2, <1>1 DEF Marks
<1>4. end[Len(line)] + (rest + Len(more)) = Len(bytes \o more)
  <2>1. end[Len(line)] + rest = Len(bytes) /\ end[Len(line)] \in Nat
    BY <1>1, <1>2 DEF Marks
  <2>2. \A a, b, c, d \in Nat : a + b = c => a + (b + d) = c + d
    OBVIOUS
  <2>n. rest \in Nat /\ Len(bytes) \in Nat /\ Len(more) \in Nat
    BY <1>1
  <2>3. end[Len(line)] + (rest + Len(more)) = Len(bytes) + Len(more)
    BY <2>1, <2>2, <2>n
  <2> QED
    BY <2>3, <1>1
<1> QED
  BY <1>3, <1>4 DEF Marks

(* A message that is whole now. *)
LEMMA MarksEnd ==
  ASSUME NEW bytes \in Seq(Byte), NEW line \in Seq(Message), NEW m \in Message, NEW end,
         Marks(bytes, line, Size(m), end),
         \A p \in Len(bytes) - Size(m) + 1 .. Len(bytes) : bytes[p] = m
  PROVE  Laid(bytes, Append(line, m), 0)
<1> DEFINE n == Len(line)
           last == [i \in 0 .. n + 1 |-> IF i = n + 1 THEN Len(bytes) ELSE end[i]]
<1>0. n \in Nat /\ Len(bytes) \in Nat /\ Size(m) \in Nat
  BY SizeIsNat
<1>1. /\ Len(Append(line, m)) = n + 1 /\ Append(line, m)[n + 1] = m
      /\ \A i \in 1..n : Append(line, m)[i] = line[i]
  BY AppendProperties
<1>e. \A i \in 0..n : end[i] \in Nat /\ end[i] <= Len(bytes)
  <2>1. \A i \in 0..n : end[i] \in Nat /\ end[i] <= Len(bytes) - Size(m)
    BY <1>0, EndsAreInRange
  <2> QED
    BY <2>1, <1>0
<1>m. /\ end[0] = 0 /\ end[n] + Size(m) = Len(bytes)
      /\ \A i, j \in 0..n : i <= j => end[i] <= end[j]
  BY DEF Marks
<1>2. \A i \in 0..n : end[i] \in Nat /\ end[i] <= Len(bytes) /\ last[i] = end[i]
  <2>1. \A i \in 0..n : i \in 0 .. n + 1 /\ i # n + 1
    BY <1>0
  <2> QED
    BY <2>1, <1>e
<1>3. last[n + 1] = Len(bytes) /\ last[n] + Size(m) = Len(bytes) /\ last[0] = 0
  BY <1>0, <1>2, <1>m
<1>4. last \in [0 .. n + 1 -> Nat]
  <2>1. \A i \in 0 .. n + 1 : last[i] \in Nat
    BY <1>0, <1>2, <1>3
  <2> QED
    BY <2>1
<1>5. \A i, j \in 0 .. n + 1 : i <= j => last[i] <= last[j]
  <2> TAKE i, j \in 0 .. n + 1
  <2>1. CASE j = n + 1
    BY <2>1, <1>0, <1>2, <1>3
  <2>2. CASE j \in 0..n
    BY <2>2, <1>0, <1>2, <1>m
  <2> QED
    BY <2>1, <2>2, <1>0
<1>6. ASSUME NEW j \in 1 .. n + 1
      PROVE  /\ last[j] = last[j - 1] + Size(Append(line, m)[j])
             /\ \A p \in last[j - 1] + 1 .. last[j] : bytes[p] = Append(line, m)[j]
  <2>1. CASE j = n + 1
    <3>0. j - 1 = n /\ n \in 0..n
      BY <2>1, <1>0
    <3>1. last[j - 1] = Len(bytes) - Size(m) /\ last[j] = Len(bytes)
      <4>1. last[n] + Size(m) = Len(bytes) /\ last[n] \in Nat
        BY <1>2, <1>3, <3>0
      <4> HIDE DEF last
      <4>2. last[n] = Len(bytes) - Size(m)
        BY <4>1, <1>0
      <4> QED
        BY <4>2, <3>0, <2>1, <1>3
    <3>2. Append(line, m)[j] = m
      BY <2>1, <1>1
    <3> HIDE DEF last
    <3>3. last[j - 1] + 1 = Len(bytes) - Size(m) + 1 /\ last[j] = last[j - 1] + Size(m)
      BY <3>1, <1>0
    <3> QED
      BY <3>1, <3>2, <3>3
  <2>2. CASE j \in 1..n
    <3>1. j - 1 \in 0..n /\ j \in 0..n
      BY <2>2, <1>0
    <3> QED
      BY <2>2, <3>1, <1>1, <1>2 DEF Marks
  <2>3. j = n + 1 \/ j \in 1..n
    BY <1>0
  <2> HIDE DEF last
  <2> QED
    BY <2>1, <2>2, <2>3
<1> HIDE DEF last
<1>7. Marks(bytes, Append(line, m), 0, last)
  BY <1>0, <1>1, <1>3, <1>4, <1>5, <1>6 DEF Marks
<1> QED
  BY <1>7 DEF Laid

(* The first n messages, cut off the ring. *)
LEMMA MarksFront ==
  ASSUME NEW bytes \in Seq(Byte), NEW line \in Seq(Message), NEW rest \in Nat, NEW end,
         Marks(bytes, line, rest, end), NEW n \in 0..Len(line)
  PROVE  /\ Laid(SubSeq(bytes, 1, end[n]), SubSeq(line, 1, n), 0)
         /\ SubSeq(bytes, 1, end[n]) \in Seq(Byte) /\ Len(SubSeq(bytes, 1, end[n])) = end[n]
         /\ SubSeq(line, 1, n) \in Seq(Message) /\ Len(SubSeq(line, 1, n)) = n
<1> DEFINE front == SubSeq(line, 1, n)
           head == SubSeq(bytes, 1, end[n])
           ends == [i \in 0..n |-> end[i]]
<1>0. Len(line) \in Nat /\ n \in Nat /\ n <= Len(line) /\ Len(bytes) \in Nat /\ 0 \in 0..n
  BY EndsAreInRange
<1>1. \A i \in 0..n : end[i] \in Nat /\ end[i] <= end[n] /\ ends[i] = end[i]
  <2>1. \A i \in 0..n : i \in 0..Len(line) /\ i <= n
    BY <1>0
  <2>2. \A i, j \in 0..Len(line) : i <= j => end[i] <= end[j]
    BY DEF Marks
  <2>3. \A i \in 0..Len(line) : end[i] \in Nat
    BY EndsAreInRange
  <2> QED
    BY <2>1, <2>2, <2>3
<1>2. end[n] \in Nat /\ end[n] <= Len(bytes)
  <2>1. end[n] \in Nat /\ end[n] <= Len(bytes) - rest
    BY EndsAreInRange
  <2> QED
    BY <2>1, <1>0
<1>3. front \in Seq(Message) /\ Len(front) = n /\ \A i \in 1..n : front[i] = line[i]
  <2>1. \A i \in 1..n : line[i] \in Message
    BY <1>0, ElementOfSeq
  <2> QED
    BY <2>1, <1>0, SubSeqProperties
<1>4. /\ head \in Seq(Byte) /\ Len(head) = end[n]
      /\ \A p \in 1..end[n] : head[p] = bytes[p]
  <2>1. \A p \in 1..end[n] : bytes[p] \in Byte
    BY <1>0, <1>2, ElementOfSeq
  <2> QED
    BY <2>1, <1>0, <1>2, SubSeqProperties
<1>5. ends \in [0..n -> Nat] /\ ends[0] = 0 /\ ends[n] + 0 = end[n]
  <2>1. end[0] = 0
    BY DEF Marks
  <2> QED
    BY <2>1, <1>1, <1>2, <1>0
<1>6. \A i, j \in 0..n : i <= j => ends[i] <= ends[j]
  <2>1. \A i, j \in 0..Len(line) : i <= j => end[i] <= end[j]
    BY DEF Marks
  <2>2. \A i \in 0..n : i \in 0..Len(line)
    BY <1>0
  <2> QED
    BY <2>1, <2>2, <1>1
<1>7. ASSUME NEW j \in 1..n
      PROVE  /\ ends[j] = ends[j - 1] + Size(front[j])
             /\ \A p \in ends[j - 1] + 1 .. ends[j] : head[p] = front[j]
  <2>1. j \in 1..Len(line) /\ j \in 0..n /\ j - 1 \in 0..n
    BY <1>0
  <2>2. end[j] = end[j - 1] + Size(line[j])
        /\ \A p \in end[j - 1] + 1 .. end[j] : bytes[p] = line[j]
    BY <2>1 DEF Marks
  <2>3. \A p \in end[j - 1] + 1 .. end[j] : p \in 1..end[n]
    BY <2>1, <1>1, <1>2
  <2>4. ends[j] = end[j] /\ ends[j - 1] = end[j - 1] /\ front[j] = line[j]
    BY <2>1, <1>1, <1>3
  <2> HIDE DEF ends, front, head
  <2> QED
    BY <2>2, <2>3, <2>4, <1>4
<1> HIDE DEF ends, front, head
<1>8. Marks(head, front, 0, ends)
  BY <1>3, <1>4, <1>5, <1>6, <1>7 DEF Marks
<1>9. Laid(head, front, 0)
  BY <1>8 DEF Laid
<1> QED
  BY <1>9, <1>3, <1>4 DEF head, front

(* What is left when they have been taken out. *)
LEMMA MarksBack ==
  ASSUME NEW bytes \in Seq(Byte), NEW line \in Seq(Message), NEW rest \in Nat, NEW end,
         Marks(bytes, line, rest, end), NEW n \in 0..Len(line)
  PROVE  /\ Laid(SubSeq(bytes, end[n] + 1, Len(bytes)), SubSeq(line, n + 1, Len(line)), rest)
         /\ SubSeq(bytes, end[n] + 1, Len(bytes)) \in Seq(Byte)
         /\ Len(SubSeq(bytes, end[n] + 1, Len(bytes))) = Len(bytes) - end[n]
         /\ SubSeq(line, n + 1, Len(line)) \in Seq(Message)
         /\ Len(SubSeq(line, n + 1, Len(line))) = Len(line) - n
<1> DEFINE l == Len(line)
           b == Len(bytes)
           cut == end[n]
           back == SubSeq(line, n + 1, l)
           tail == SubSeq(bytes, cut + 1, b)
           ends == [i \in 0 .. l - n |-> end[n + i] - cut]
<1>0. /\ l \in Nat /\ n \in Nat /\ n <= l /\ b \in Nat /\ 0 \in 0 .. l - n
      /\ l - n \in Nat /\ l - n \in 0 .. l - n /\ n + 0 = n /\ n + (l - n) = l
  BY EndsAreInRange
<1>m. /\ \A i, j \in 0..l : i <= j => end[i] <= end[j]
      /\ end[l] + rest = b
  BY DEF Marks
<1>1. \A i \in 0..l : end[i] \in Nat /\ end[i] <= b - rest
  BY EndsAreInRange
<1>2. cut \in Nat /\ cut <= b /\ b - cut \in Nat
  BY <1>0, <1>1
<1>3. back \in Seq(Message) /\ Len(back) = l - n /\ \A i \in 1 .. l - n : back[i] = line[n + i]
  <2>1. \A i \in n + 1 .. l : line[i] \in Message
    BY <1>0, ElementOfSeq
  <2>2. n + 1 \in Int /\ l \in Int
    BY <1>0
  <2>3. /\ SubSeq(line, n + 1, l) \in Seq(Message)
        /\ Len(SubSeq(line, n + 1, l)) = IF n + 1 <= l THEN l - (n + 1) + 1 ELSE 0
        /\ \A i \in 1 .. l - (n + 1) + 1 : SubSeq(line, n + 1, l)[i] = line[n + 1 + i - 1]
    BY <2>1, <2>2, SubSeqProperties
  <2>4. \A i \in 1 .. l - n : i \in 1 .. l - (n + 1) + 1 /\ n + 1 + i - 1 = n + i
    BY <1>0
  <2>5. (IF n + 1 <= l THEN l - (n + 1) + 1 ELSE 0) = l - n
    <3>1. l \in Nat /\ n \in Nat /\ n <= l
      BY <1>0
    <3> HIDE DEF l
    <3>2. ~(n + 1 <= l) => l - n = 0
      BY <3>1
    <3>3. l - (n + 1) + 1 = l - n
      BY <3>1
    <3> QED
      BY <3>2, <3>3
  <2> QED
    BY <2>3, <2>4, <2>5
<1>4. /\ tail \in Seq(Byte) /\ Len(tail) = b - cut
      /\ \A p \in 1 .. b - cut : tail[p] = bytes[cut + p]
  <2>1. \A p \in cut + 1 .. b : bytes[p] \in Byte
    BY <1>0, <1>2, ElementOfSeq
  <2>2. cut + 1 \in Int /\ b \in Int
    BY <1>0, <1>2
  <2>3. /\ SubSeq(bytes, cut + 1, b) \in Seq(Byte)
        /\ Len(SubSeq(bytes, cut + 1, b)) = IF cut + 1 <= b THEN b - (cut + 1) + 1 ELSE 0
        /\ \A i \in 1 .. b - (cut + 1) + 1 :
             SubSeq(bytes, cut + 1, b)[i] = bytes[cut + 1 + i - 1]
    BY <2>1, <2>2, SubSeqProperties
  <2>4. \A i \in 1 .. b - cut : i \in 1 .. b - (cut + 1) + 1 /\ cut + 1 + i - 1 = cut + i
    BY <1>0, <1>2
  <2>5. (IF cut + 1 <= b THEN b - (cut + 1) + 1 ELSE 0) = b - cut
    BY <1>0, <1>2
  <2> QED
    BY <2>3, <2>4, <2>5
<1>5. \A i \in 0 .. l - n : /\ n + i \in 0..l /\ cut <= end[n + i]
                            /\ end[n + i] - cut \in Nat /\ ends[i] = end[n + i] - cut
  <2> SUFFICES ASSUME NEW i \in 0 .. l - n
               PROVE  n + i \in 0..l /\ cut <= end[n + i] /\ end[n + i] - cut \in Nat
    OBVIOUS
  <2>1. n + i \in 0..l /\ n \in 0..l /\ n <= n + i
    BY <1>0
  <2>2. end[n] <= end[n + i] /\ end[n + i] \in Nat
    BY <2>1, <1>m, <1>1
  <2> QED
    BY <2>1, <2>2, <1>2
<1>6. ends \in [0 .. l - n -> Nat]
  BY <1>5
<1>7. ends[0] = 0 /\ ends[l - n] + rest = b - cut
  <2>1. ends[0] = end[n] - cut /\ ends[l - n] = end[l] - cut
    BY <1>5, <1>0
  <2>2. end[l] \in Nat
    BY <1>0, <1>1
  <2> HIDE DEF ends
  <2> QED
    BY <2>1, <2>2, <1>2, <1>0, <1>m
<1>8. ASSUME NEW i \in 0 .. l - n, NEW j \in 0 .. l - n, i <= j PROVE ends[i] <= ends[j]
  <2>1. n + i \in 0..l /\ n + j \in 0..l /\ n + i <= n + j
    BY <1>0, <1>8
  <2>2. end[n + i] <= end[n + j] /\ end[n + i] \in Nat /\ end[n + j] \in Nat
    BY <2>1, <1>m, <1>1
  <2>3. ends[i] = end[n + i] - cut /\ ends[j] = end[n + j] - cut
    BY <1>5
  <2> HIDE DEF ends
  <2> QED
    BY <2>2, <2>3, <1>2
<1>9. ASSUME NEW j \in 1 .. l - n
      PROVE  /\ ends[j] = ends[j - 1] + Size(back[j])
             /\ \A p \in ends[j - 1] + 1 .. ends[j] : tail[p] = back[j]
  <2>1. /\ n + j \in 1..l /\ j \in 0 .. l - n /\ j - 1 \in 0 .. l - n
        /\ n + (j - 1) = (n + j) - 1
    BY <1>0
  <2>2. /\ end[n + j] = end[(n + j) - 1] + Size(line[n + j])
        /\ \A p \in end[(n + j) - 1] + 1 .. end[n + j] : bytes[p] = line[n + j]
    BY <2>1 DEF Marks
  <2>3. ends[j] = end[n + j] - cut /\ ends[j - 1] = end[(n + j) - 1] - cut
    BY <2>1, <1>5
  <2>4. line[n + j] \in Message
    BY <2>1, ElementOfSeq
  <2>5. /\ Size(line[n + j]) \in Nat /\ end[n + j] \in Nat /\ end[(n + j) - 1] \in Nat
        /\ cut <= end[(n + j) - 1] /\ end[n + j] <= b
    <3>1. cut <= end[n + (j - 1)] /\ end[n + (j - 1)] \in Nat
      BY <2>1, <1>5, <1>1
    <3>2. end[n + j] \in Nat /\ end[n + j] <= b - rest
      BY <2>1, <1>1, <1>5
    <3> QED
      BY <2>1, <2>4, <3>1, <3>2, <1>0, SizeIsNat
  <2>6. back[j] = line[n + j]
    BY <1>3
  <2> HIDE DEF ends, back, tail
  <2>7. ends[j] = ends[j - 1] + Size(back[j])
    BY <2>2, <2>3, <2>5, <2>6, <1>2
  <2>8. ASSUME NEW p \in ends[j - 1] + 1 .. ends[j] PROVE tail[p] = back[j]
    <3> DEFINE from == end[(n + j) - 1]
               to == end[n + j]
    <3>0. from \in Nat /\ to \in Nat /\ cut <= from /\ to <= b
      BY <2>5
    <3>x. p \in (from - cut) + 1 .. to - cut
      BY <2>3
    <3> HIDE DEF from, to, l, b, cut
    <3>1. p \in 1 .. b - cut /\ cut + p \in from + 1 .. to
      BY <3>0, <3>x, <1>2, <1>0
    <3> USE DEF from, to
    <3> QED
      BY <3>1, <2>2, <2>6, <1>4
  <2> QED
    BY <2>7, <2>8
<1> HIDE DEF ends, back, tail
<1>10. Marks(tail, back, rest, ends)
  BY <1>3, <1>4, <1>6, <1>7, <1>8, <1>9 DEF Marks
<1>11. Laid(tail, back, rest)
  BY <1>10 DEF Laid
<1> QED
  BY <1>11, <1>3, <1>4 DEF tail, back

(* Two rings' worth of messages, one behind the other. *)
LEMMA LaidJoin ==
  ASSUME NEW first \in Seq(Byte), NEW fline \in Seq(Message), Laid(first, fline, 0),
         NEW second \in Seq(Byte), NEW sline \in Seq(Message), Laid(second, sline, 0)
  PROVE  Laid(first \o second, fline \o sline, 0)
<1>1. PICK f : Marks(first, fline, 0, f)
  BY DEF Laid
<1>2. PICK g : Marks(second, sline, 0, g)
  BY DEF Laid
<1> DEFINE m == Len(fline)
           n == Len(sline)
           a == Len(first)
           b == Len(second)
           ends == [i \in 0 .. m + n |-> IF i <= m THEN f[i] ELSE a + g[i - m]]
           bytes == first \o second
           line == fline \o sline
<1>0. /\ m \in Nat /\ n \in Nat /\ a \in Nat /\ b \in Nat /\ 0 \in 0..m /\ m \in 0..m
      /\ 0 \in 0..n /\ n \in 0..n
  OBVIOUS
<1>3. /\ line \in Seq(Message) /\ Len(line) = m + n
      /\ \A i \in 1 .. m + n : line[i] = IF i <= m THEN fline[i] ELSE sline[i - m]
  BY ConcatProperties
<1>4. /\ bytes \in Seq(Byte) /\ Len(bytes) = a + b
      /\ \A i \in 1 .. a + b : bytes[i] = IF i <= a THEN first[i] ELSE second[i - a]
  BY ConcatProperties
<1>f. /\ \A i \in 0..m : f[i] \in Nat /\ f[i] <= a
      /\ f[0] = 0 /\ f[m] = a /\ \A i, j \in 0..m : i <= j => f[i] <= f[j]
  <2>1. /\ \A i \in 0..m : f[i] \in Nat /\ f[i] <= a - 0
    BY <1>1, EndsAreInRange
  <2>2. f[0] = 0 /\ f[m] + 0 = a /\ \A i, j \in 0..m : i <= j => f[i] <= f[j]
    BY <1>1 DEF Marks
  <2>3. f[m] = a
    BY <2>1, <2>2, <1>0
  <2> QED
    BY <2>1, <2>2, <2>3, <1>0
<1>g. /\ \A i \in 0..n : g[i] \in Nat /\ g[i] <= b
      /\ g[0] = 0 /\ g[n] = b /\ \A i, j \in 0..n : i <= j => g[i] <= g[j]
  <2>1. /\ \A i \in 0..n : g[i] \in Nat /\ g[i] <= b - 0
    BY <1>2, EndsAreInRange
  <2>2. g[0] = 0 /\ g[n] + 0 = b /\ \A i, j \in 0..n : i <= j => g[i] <= g[j]
    BY <1>2 DEF Marks
  <2>3. g[n] = b
    BY <2>1, <2>2, <1>0
  <2> QED
    BY <2>1, <2>2, <2>3, <1>0
<1>x. /\ \A j \in 1..m : /\ f[j] = f[j - 1] + Size(fline[j])
                          /\ \A p \in f[j - 1] + 1 .. f[j] : first[p] = fline[j]
      /\ \A j \in 1..n : /\ g[j] = g[j - 1] + Size(sline[j])
                          /\ \A p \in g[j - 1] + 1 .. g[j] : second[p] = sline[j]
  BY <1>1, <1>2 DEF Marks
<1> HIDE DEF m, n, a, b, line, bytes
<1>5. /\ \A i \in 0..m : ends[i] = f[i]
      /\ \A i \in 0..n : ends[m + i] = a + g[i]
  <2>1. ASSUME NEW i \in 0..m PROVE ends[i] = f[i]
    <3>1. i \in 0 .. m + n /\ i <= m
      BY <1>0
    <3> QED
      BY <3>1
  <2>2. ASSUME NEW i \in 0..n PROVE ends[m + i] = a + g[i]
    <3>1. m + i \in 0 .. m + n /\ (m + i <= m => i = 0) /\ (m + i) - m = i
      BY <1>0
    <3>2. CASE i = 0
      <4>1. m + i = m /\ a + g[i] = a
        BY <3>2, <1>0, <1>g
      <4> QED
        BY <4>1, <1>f, <3>1, <1>0
    <3>3. CASE i # 0
      BY <3>1, <3>3
    <3> QED
      BY <3>2, <3>3
  <2> QED
    BY <2>1, <2>2
<1>6. ASSUME NEW i \in 0 .. m + n
      PROVE  i \in 0..m \/ (i >= m /\ i - m \in 0..n /\ i = m + (i - m))
  BY <1>0
<1>7. ends \in [0 .. m + n -> Nat]
  <2> SUFFICES ASSUME NEW i \in 0 .. m + n PROVE ends[i] \in Nat
    OBVIOUS
  <2> HIDE DEF ends
  <2>1. CASE i \in 0..m
    BY <2>1, <1>5, <1>f
  <2>2. CASE i >= m /\ i - m \in 0..n /\ i = m + (i - m)
    <3>1. ends[m + (i - m)] = a + g[i - m] /\ g[i - m] \in Nat
      BY <2>2, <1>5, <1>g
    <3> QED
      BY <3>1, <2>2, <1>0
  <2> QED
    BY <2>1, <2>2, <1>6
<1>e. DOMAIN ends = 0 .. m + n
  OBVIOUS
<1> HIDE DEF ends
<1>8. ends[0] = 0 /\ ends[m + n] + 0 = a + b
  BY <1>5, <1>f, <1>g, <1>0
<1>9. ASSUME NEW i \in 0 .. m + n, NEW j \in 0 .. m + n, i <= j PROVE ends[i] <= ends[j]
  <2>1. CASE i \in 0..m /\ j \in 0..m
    BY <2>1, <1>5, <1>f, <1>9
  <2>2. CASE i \in 0..m /\ j >= m
    <3>1. j - m \in 0..n /\ j = m + (j - m)
      BY <2>2, <1>0
    <3>2. ends[j] = a + g[j - m] /\ g[j - m] \in Nat /\ ends[i] = f[i] /\ f[i] \in Nat
          /\ f[i] <= a
      BY <3>1, <2>2, <1>5, <1>f, <1>g
    <3> QED
      BY <3>2, <1>0
  <2>3. CASE i >= m /\ j >= m
    <3>1. /\ j - m \in 0..n /\ j = m + (j - m) /\ i - m \in 0..n /\ i = m + (i - m)
          /\ i - m <= j - m
      BY <2>3, <1>0, <1>9
    <3>2. ends[j] = a + g[j - m] /\ ends[i] = a + g[i - m] /\ g[i - m] <= g[j - m]
          /\ g[j - m] \in Nat /\ g[i - m] \in Nat
      BY <3>1, <1>5, <1>g
    <3> QED
      BY <3>2, <1>0
  <2> QED
    BY <2>1, <2>2, <2>3, <1>0, <1>9
<1>10. ASSUME NEW j \in 1 .. m + n
       PROVE  /\ ends[j] = ends[j - 1] + Size(line[j])
              /\ \A p \in ends[j - 1] + 1 .. ends[j] : bytes[p] = line[j]
  <2>1. CASE j <= m
    <3>1. j \in 1..m /\ j \in 0..m /\ j - 1 \in 0..m
      BY <2>1, <1>0
    <3>2. ends[j] = f[j] /\ ends[j - 1] = f[j - 1] /\ line[j] = fline[j]
      BY <3>1, <1>5, <1>3, <2>1
    <3>3. ASSUME NEW p \in f[j - 1] + 1 .. f[j] PROVE bytes[p] = first[p]
      <4>1. f[j - 1] \in Nat /\ f[j] \in Nat /\ f[j] <= a
        BY <3>1, <1>f
      <4>2. p \in 1 .. a + b /\ p <= a
        BY <4>1, <1>0
      <4> QED
        BY <4>2, <1>4
    <3> QED
      BY <3>1, <3>2, <3>3, <1>x
  <2>2. CASE j > m
    <3> DEFINE k == j - m
    <3>1. /\ k \in 1..n /\ k \in 0..n /\ k - 1 \in 0..n /\ j = m + k /\ j - 1 = m + (k - 1)
          /\ ~(j <= m)
      BY <2>2, <1>0
    <3>2. line[j] = sline[k]
      BY <3>1, <1>3
    <3> HIDE DEF k
    <3>3. ends[j] = a + g[k] /\ ends[j - 1] = a + g[k - 1]
      BY <3>1, <1>5
    <3>4. g[k] = g[k - 1] + Size(sline[k])
          /\ \A p \in g[k - 1] + 1 .. g[k] : second[p] = sline[k]
      BY <3>1, <1>x
    <3>5. g[k] \in Nat /\ g[k - 1] \in Nat /\ g[k] <= b
      BY <3>1, <1>g
    <3>6. Size(sline[k]) = g[k] - g[k - 1]
      <4>1. sline[k] \in Message
        BY <3>1, ElementOfSeq DEF n
      <4>2. Size(sline[k]) \in Nat
        BY <4>1, SizeIsNat
      <4> QED
        BY <4>2, <3>4, <3>5
    <3>7. ends[j] = ends[j - 1] + Size(line[j])
      BY <3>2, <3>3, <3>5, <3>6, <1>0
    <3>8. ASSUME NEW p \in a + g[k - 1] + 1 .. a + g[k] PROVE bytes[p] = line[j]
      <4>1. p \in 1 .. a + b /\ ~(p <= a) /\ p - a \in g[k - 1] + 1 .. g[k]
        <5> DEFINE x == g[k - 1]
                   y == g[k]
        <5>1. x \in Nat /\ y \in Nat /\ y <= b /\ p \in a + x + 1 .. a + y /\ a \in Nat /\ b \in Nat
          BY <3>5, <1>0
        <5> HIDE DEF x, y, a, b
        <5>2. p \in 1 .. a + b /\ ~(p <= a) /\ p - a \in x + 1 .. y
          BY <5>1
        <5> QED
          BY <5>2 DEF x, y
      <4> QED
        BY <4>1, <1>4, <3>4, <3>2
    <3> QED
      BY <3>7, <3>8, <3>3
  <2> QED
    BY <2>1, <2>2, <1>0
<1>11. Marks(bytes, line, 0, ends)
  BY <1>3, <1>4, <1>7, <1>8, <1>9, <1>10 DEF Marks
<1>12. Laid(bytes, line, 0)
  BY <1>11 DEF Laid
<1> QED
  BY <1>12 DEF bytes, line

-----------------------------------------------------------------------------
(* The bytes of the first messages, as flush_defrag_messages counts them.   *)

LEMMA BytesRecursion ==
  ASSUME NEW l \in Seq(Nat)
  PROVE  Bytes(l) = [i \in 0..Len(l) |-> IF i = 0 THEN 0 ELSE Bytes(l)[i - 1] + l[i]]
<1> DEFINE Sums(n, f) == f = [i \in 0..n |-> IF i = 0 THEN 0 ELSE f[i - 1] + l[i]]
           P(n) == \E f : Sums(n, f)
           Bad == {n \in 0..Len(l) : ~P(n)}
<1>1. Bad = {}
  <2> SUFFICES ASSUME Bad # {} PROVE FALSE
    OBVIOUS
  <2>1. Bad \in SUBSET Nat
    OBVIOUS
  <2>2. P(0)
    <3>1. Sums(0, [i \in 0..0 |-> 0])
      OBVIOUS
    <3> QED
      BY <3>1
  <2> HIDE DEF Bad, P
  <2>3. PICK n \in Bad : \A m \in Bad : n <= m
    BY <2>1, LeastNatural
  <2>4. n \in 0..Len(l) /\ ~P(n)
    BY DEF Bad
  <2>5. n # 0
    BY <2>2, <2>4
  <2>6. P(n - 1)
    BY <2>3, <2>4, <2>5 DEF Bad
  <2>7. PICK f : Sums(n - 1, f)
    BY <2>6 DEF P
  <2> DEFINE g == [i \in 0..n |-> IF i = n THEN f[n - 1] + l[n] ELSE f[i]]
  <2>8. Sums(n, g)
    BY <2>4, <2>5, <2>7
  <2> QED
    BY <2>4, <2>8 DEF P
<1>2. \E f : Sums(Len(l), f)
  <2>1. Len(l) \in 0..Len(l)
    OBVIOUS
  <2> HIDE DEF P
  <2>2. P(Len(l))
    BY <1>1, <2>1
  <2> QED
    BY <2>2 DEF P
<1> QED
  BY <1>2 DEF Bytes

(* The marks are the sums of the lengths. *)
LEMMA MarksAreBytes ==
  ASSUME NEW bytes \in Seq(Byte), NEW line \in Seq(Message), NEW rest \in Nat, NEW end,
         Marks(bytes, line, rest, end),
         NEW lengths \in Seq(Nat), Len(lengths) = Len(line),
         \A i \in 1..Len(line) : lengths[i] = Size(line[i]),
         NEW n \in 0..Len(line)
  PROVE  Bytes(lengths)[n] = end[n]
<1> DEFINE Bad == {i \in 0..Len(line) : Bytes(lengths)[i] # end[i]}
<1> SUFFICES ASSUME Bad # {} PROVE FALSE
  OBVIOUS
<1>1. Bad \in SUBSET Nat
  OBVIOUS
<1> HIDE DEF Bad
<1>2. PICK i \in Bad : \A j \in Bad : i <= j
  BY <1>1, LeastNatural
<1>3. i \in 0..Len(line) /\ Bytes(lengths)[i] # end[i] /\ Len(line) \in Nat
  BY DEF Bad
<1>4. Bytes(lengths)[i] = IF i = 0 THEN 0 ELSE Bytes(lengths)[i - 1] + lengths[i]
  BY <1>3, BytesRecursion
<1>5. i # 0
  BY <1>3, <1>4 DEF Marks
<1>6. i \in 1..Len(line) /\ i - 1 \in 0..Len(line) /\ ~(i <= i - 1)
  BY <1>3, <1>5
<1>7. Bytes(lengths)[i - 1] = end[i - 1]
  BY <1>2, <1>6 DEF Bad
<1>8. end[i] = end[i - 1] + Size(line[i])
  BY <1>6 DEF Marks
<1> QED
  BY <1>3, <1>4, <1>5, <1>6, <1>7, <1>8

-----------------------------------------------------------------------------
(* The inductive invariant.                                                 *)

SubState ==
  [at : {"running", "ended", "polling", "reading", "flushing", "turn", "pushed"},
   left : Nat, got : BOOLEAN, count : Nat]

TypeOK ==
  /\ image \in [Sessions -> [k : Nat \ {0}, at : Nat]]
  /\ defrag \in [Sessions -> [lengths : Seq(Nat), bytes : Seq(Byte), running : Nat]]
  /\ known \subseteq Sessions /\ ready \in Seq(Sessions)
  /\ control \in Seq([session : Sessions, length : Nat]) /\ payload \in Seq(Byte)
  /\ sub \in SubState
  /\ stop \in BOOLEAN
  /\ received \in [Sessions -> Seq(Seq(Byte))]

(* Aeron is at a message, or at the end. *)
Placed ==
  \A s \in Sessions :
    /\ image[s].k <= Len(Published[s]) + 1
    /\ image[s].k <= Len(Published[s]) => image[s].at <= Size(<<s, image[s].k>>)

(* The fragments that have been asked for have room, whichever they are. *)
RoomLeft ==
  \A s \in Sessions :
    /\ Len(defrag[s].lengths) <= ControlCapacity /\ Len(defrag[s].bytes) <= PayloadCapacity
    /\ s \notin known => defrag[s].lengths = <<>> /\ defrag[s].bytes = <<>>
    /\ sub.at = "reading" => /\ sub.left <= ControlCapacity - Len(defrag[s].lengths)
                            /\ sub.left * Fragment <= PayloadCapacity - Len(defrag[s].bytes)

(* The items whose bytes are in the channel's ring already, of the session    *)
(* whose turn it is.                                                          *)
Pushed == IF sub.at = "pushed" THEN sub.count ELSE 0
Gone(s) == IF sub.at = "pushed" /\ s = Head(ready) THEN sub.count ELSE 0

ChannelFits ==
  Len(control) + Pushed <= ControlCapacity /\ Len(payload) <= PayloadCapacity

Turns == sub.at \in {"turn", "pushed"} => sub.left \in 1..Len(ready)

(* The first message of which no byte has been flushed. *)
Oldest(im, d) == im.k - Len(d.lengths)
Upcoming(s) == Oldest(image[s], defrag[s]) + Gone(s)

(* The rings of a session hold the lengths and the bytes of its messages     *)
(* before the one that Aeron is at, and the first bytes of this one.         *)
Reassembled(s, im, d, gone) ==
  /\ Oldest(im, d) >= 1 /\ gone \in 0..Len(d.lengths)
  /\ \A i \in 1..Len(d.lengths) : d.lengths[i] = Size(<<s, Oldest(im, d) + i - 1>>)
  /\ d.running = im.at
  /\ Laid(d.bytes, Run(s, Oldest(im, d) + gone, im.k - 1), d.running)
  /\ \A p \in Len(d.bytes) - d.running + 1 .. Len(d.bytes) : d.bytes[p] = <<s, im.k>>

RingsInOrder == \A s \in Sessions : Reassembled(s, image[s], defrag[s], Gone(s))

(* The messages on their way through the channel: all of each session that   *)
(* have been flushed and not been taken, in their order.                     *)
InTurn(line) ==
  /\ \A i, j \in 1..Len(line) :
       i < j /\ line[i][1] = line[j][1] => line[i][2] < line[j][2]
  /\ \A j \in 1..Len(line) :
       /\ line[j][2] > Len(received[line[j][1]])
       /\ line[j][2] < Upcoming(line[j][1])
  /\ \A s \in Sessions : \A k \in Len(received[s]) + 1 .. Upcoming(s) - 1 :
       \E j \in 1..Len(line) : line[j] = <<s, k>>

InFlight(line) ==
  /\ Len(line) = Len(control) + Pushed
  /\ \A j \in 1..Len(control) :
       control[j] = [session |-> line[j][1], length |-> Size(line[j])]
  /\ \A i \in 1..Pushed :
       line[Len(control) + i] = <<Head(ready), Oldest(image[Head(ready)], defrag[Head(ready)]) + i - 1>>
  /\ Laid(payload, line, 0)
  /\ InTurn(line)

Flows == \E line \in Seq(Message) : InFlight(line)

Delivered ==
  \A s \in Sessions :
    /\ Len(received[s]) < Upcoming(s)
    /\ \A k \in 1..Len(received[s]) : received[s][k] = Copies(Size(<<s, k>>), <<s, k>>)

Inv ==
  /\ TypeOK /\ Placed /\ RoomLeft /\ ChannelFits /\ Turns
  /\ RingsInOrder /\ Flows /\ Delivered

-----------------------------------------------------------------------------
LEMMA Capacities ==
  /\ ControlCapacity \in Nat /\ PayloadCapacity \in Nat /\ Fragment \in Nat
  /\ ControlCapacity > 0 /\ PayloadCapacity > 0 /\ Fragment > 0
BY SubscriberAssumption

LEMMA PublishedLengths ==
  ASSUME NEW s \in Sessions
  PROVE  /\ Len(Published[s]) \in Nat
         /\ \A k \in 1..Len(Published[s]) : <<s, k>> \in Message
         /\ \A k \in Nat \ {0} : k <= Len(Published[s]) =>
              <<s, k>> \in Message /\ Size(<<s, k>>) = Published[s][k]
<1>1. Published[s] \in Seq(1..PayloadCapacity)
  BY SubscriberAssumption
<1>2. Len(Published[s]) \in Nat
  BY <1>1
<1>3. \A k \in 1..Len(Published[s]) : <<s, k>> \in Message
  BY <1>2 DEF Message, Byte
<1>4. \A k \in Nat \ {0} : k <= Len(Published[s]) => k \in 1..Len(Published[s])
  BY <1>2
<1> QED
  BY <1>2, <1>3, <1>4 DEF Size

LEMMA SessionFields ==
  ASSUME TypeOK, NEW s \in Sessions
  PROVE  /\ image[s] \in [k : Nat \ {0}, at : Nat]
         /\ image[s].k \in Nat \ {0} /\ image[s].at \in Nat
         /\ defrag[s] \in [lengths : Seq(Nat), bytes : Seq(Byte), running : Nat]
         /\ defrag[s].lengths \in Seq(Nat) /\ defrag[s].bytes \in Seq(Byte)
         /\ defrag[s].running \in Nat
         /\ Len(defrag[s].lengths) \in Nat /\ Len(defrag[s].bytes) \in Nat
         /\ received[s] \in Seq(Seq(Byte)) /\ Len(received[s]) \in Nat
<1>1. /\ image[s] \in [k : Nat \ {0}, at : Nat]
      /\ defrag[s] \in [lengths : Seq(Nat), bytes : Seq(Byte), running : Nat]
      /\ received[s] \in Seq(Seq(Byte))
  BY DEF TypeOK
<1>2. defrag[s].lengths \in Seq(Nat) /\ defrag[s].bytes \in Seq(Byte)
  BY <1>1
<1> QED
  BY <1>1, <1>2

LEMMA SubFields ==
  ASSUME TypeOK
  PROVE  /\ sub.left \in Nat /\ sub.count \in Nat /\ Pushed \in Nat
         /\ \A s : Gone(s) \in Nat
         /\ Len(control) \in Nat /\ Len(payload) \in Nat /\ Len(ready) \in Nat
BY DEF TypeOK, SubState, Pushed, Gone

(* Messages that follow each other. *)
LEMMA RunIsSeq ==
  ASSUME NEW s \in Sessions, NEW a \in Nat \ {0}, NEW b \in Nat, a <= b + 1,
         b <= Len(Published[s])
  PROVE  /\ Run(s, a, b) \in Seq(Message) /\ Len(Run(s, a, b)) = b - a + 1
         /\ \A i \in 1 .. b - a + 1 : Run(s, a, b)[i] = <<s, a + i - 1>>
<1>1. b - a + 1 \in Nat /\ Len(Published[s]) \in Nat
  BY PublishedLengths
<1>2. \A i \in 1 .. b - a + 1 : a + i - 1 \in 1..Len(Published[s])
  BY <1>1
<1>3. \A i \in 1 .. b - a + 1 : <<s, a + i - 1>> \in Message
  BY <1>2, PublishedLengths
<1> DEFINE n == b - a + 1
           run == [i \in 1..n |-> <<s, a + i - 1>>]
<1>4. n \in Nat /\ \A i \in 1..n : <<s, a + i - 1>> \in Message
  BY <1>1, <1>3
<1>5. run \in [1..n -> Message] /\ run = Run(s, a, b)
  BY <1>4 DEF Run
<1>6. \A i \in 1..n : run[i] = <<s, a + i - 1>>
  OBVIOUS
<1> HIDE DEF n, run
<1>7. run \in Seq(Message) /\ Len(run) = n
  BY <1>4, <1>5
<1> QED
  BY <1>5, <1>6, <1>7 DEF n

LEMMA RunGrows ==
  ASSUME NEW s \in Sessions, NEW a \in Nat \ {0}, NEW b \in Nat, a <= b + 1,
         b + 1 <= Len(Published[s])
  PROVE  Append(Run(s, a, b), <<s, b + 1>>) = Run(s, a, b + 1)
<1> DEFINE n == b - a + 1
           run == Run(s, a, b)
           longer == Append(run, <<s, b + 1>>)
<1>1. /\ n \in Nat /\ b + 1 - a + 1 = n + 1 /\ a + (n + 1) - 1 = b + 1 /\ b + 1 \in Nat
      /\ a <= (b + 1) + 1 /\ b <= Len(Published[s]) /\ b + 1 \in 1..Len(Published[s])
  BY PublishedLengths
<1>2. /\ run \in Seq(Message) /\ Len(run) = n
      /\ \A i \in 1..n : run[i] = <<s, a + i - 1>>
  BY <1>1, RunIsSeq
<1>3. /\ Run(s, a, b + 1) \in Seq(Message) /\ Len(Run(s, a, b + 1)) = b + 1 - a + 1
      /\ \A i \in 1 .. b + 1 - a + 1 : Run(s, a, b + 1)[i] = <<s, a + i - 1>>
  <2> DEFINE c == b + 1
  <2>1. c \in Nat /\ a <= c + 1 /\ c <= Len(Published[s])
    BY <1>1
  <2> HIDE DEF c
  <2>2. /\ Run(s, a, c) \in Seq(Message) /\ Len(Run(s, a, c)) = c - a + 1
        /\ \A i \in 1 .. c - a + 1 : Run(s, a, c)[i] = <<s, a + i - 1>>
    BY <2>1, RunIsSeq
  <2> QED
    BY <2>2 DEF c
<1>4. <<s, b + 1>> \in Message
  BY <1>1, PublishedLengths
<1> HIDE DEF n, run
<1>5. /\ longer \in Seq(Message) /\ Len(longer) = n + 1 /\ longer[n + 1] = <<s, b + 1>>
      /\ \A i \in 1..n : longer[i] = run[i]
  BY <1>2, <1>4, AppendProperties
<1> HIDE DEF longer
<1>6. ASSUME NEW i \in 1 .. n + 1 PROVE longer[i] = Run(s, a, b + 1)[i]
  <2>0. i = n + 1 \/ i \in 1..n
    BY <1>1
  <2>e. Run(s, a, b + 1)[i] = <<s, a + i - 1>>
    BY <1>1, <1>3
  <2>1. CASE i = n + 1
    BY <2>1, <2>e, <1>1, <1>5
  <2>2. CASE i \in 1..n
    BY <2>2, <2>e, <1>2, <1>5
  <2> QED
    BY <2>0, <2>1, <2>2
<1>7. longer = Run(s, a, b + 1)
  BY <1>1, <1>3, <1>5, <1>6, SeqEqual
<1> QED
  BY <1>7 DEF longer, run

Splits(s, a, b, n) ==
  /\ SubSeq(Run(s, a, b), 1, n) = Run(s, a, a + n - 1)
  /\ SubSeq(Run(s, a, b), n + 1, Len(Run(s, a, b))) = Run(s, a + n, b)

LEMMA RunSplits ==
  ASSUME NEW s \in Sessions, NEW a \in Nat \ {0}, NEW b \in Nat, a <= b + 1,
         b <= Len(Published[s]), NEW n \in 0 .. b - a + 1
  PROVE  Splits(s, a, b, n)
<1> DEFINE line == Run(s, a, b)
           front == SubSeq(line, 1, n)
           back == SubSeq(line, n + 1, b - a + 1)
<1>1. /\ line \in Seq(Message) /\ Len(line) = b - a + 1
      /\ \A i \in 1 .. b - a + 1 : line[i] = <<s, a + i - 1>>
  BY RunIsSeq
<1>2. /\ n \in Nat /\ b - a + 1 \in Nat /\ n <= b - a + 1 /\ n + 1 \in Int
      /\ Len(Published[s]) \in Nat
  BY PublishedLengths
<1>3. \A i \in 1 .. b - a + 1 : line[i] \in Message
  BY <1>1, ElementOfSeq
<1>4. /\ front \in Seq(Message) /\ Len(front) = n /\ \A i \in 1..n : front[i] = line[i]
  BY <1>2, <1>3, SubSeqProperties
<1>5. /\ back \in Seq(Message) /\ Len(back) = b - a + 1 - n
      /\ \A i \in 1 .. b - a + 1 - n : back[i] = line[n + i]
  <2> DEFINE l == b - a + 1
  <2>1. \A i \in n + 1 .. l : line[i] \in Message
    BY <1>2, <1>3
  <2>2. l \in Int /\ l \in Nat /\ n <= l
    BY <1>2
  <2> HIDE DEF l, line
  <2>3. /\ SubSeq(line, n + 1, l) \in Seq(Message)
        /\ Len(SubSeq(line, n + 1, l)) = IF n + 1 <= l THEN l - (n + 1) + 1 ELSE 0
        /\ \A i \in 1 .. l - (n + 1) + 1 : SubSeq(line, n + 1, l)[i] = line[n + 1 + i - 1]
    BY <2>1, <2>2, <1>2, SubSeqProperties
  <2>4. \A i \in 1 .. l - n : i \in 1 .. l - (n + 1) + 1 /\ n + 1 + i - 1 = n + i
    BY <2>2, <1>2
  <2>5. ~(n + 1 <= l) => l - n = 0
    BY <2>2, <1>2
  <2>6. l - (n + 1) + 1 = l - n
    BY <2>2, <1>2
  <2>7. Len(SubSeq(line, n + 1, l)) = l - n
    BY <2>3, <2>5, <2>6
  <2> QED
    BY <2>3, <2>4, <2>7 DEF l
<1>6. front = Run(s, a, a + n - 1)
  <2>1. /\ Run(s, a, a + n - 1) \in Seq(Message) /\ Len(Run(s, a, a + n - 1)) = n
        /\ \A i \in 1..n : Run(s, a, a + n - 1)[i] = <<s, a + i - 1>>
    <3>1. a + n - 1 \in Nat /\ a <= (a + n - 1) + 1 /\ a + n - 1 <= Len(Published[s])
          /\ (a + n - 1) - a + 1 = n
      BY <1>2
    <3> QED
      BY <3>1, RunIsSeq
  <2>2. \A i \in 1..n : i \in 1 .. b - a + 1
    BY <1>2
  <2> HIDE DEF front, line
  <2> QED
    BY <2>1, <2>2, <1>1, <1>4, SeqEqual
<1>7. back = Run(s, a + n, b)
  <2> DEFINE l == b - a + 1 - n
  <2>1. /\ Run(s, a + n, b) \in Seq(Message) /\ Len(Run(s, a + n, b)) = l
        /\ \A i \in 1..l : Run(s, a + n, b)[i] = <<s, a + n + i - 1>>
    <3>1. a + n \in Nat \ {0} /\ a + n <= b + 1 /\ b - (a + n) + 1 = l
      BY <1>2
    <3> QED
      BY <3>1, RunIsSeq
  <2>2. \A i \in 1..l : n + i \in 1 .. b - a + 1 /\ a + (n + i) - 1 = a + n + i - 1
    BY <1>2
  <2>3. \A i \in 1..l : back[i] = <<s, a + n + i - 1>>
    <3> HIDE DEF back, line
    <3> TAKE i \in 1..l
    <3>1. back[i] = line[n + i]
      BY <1>5
    <3>2. line[n + i] = <<s, a + (n + i) - 1>>
      BY <1>1, <2>2
    <3> QED
      BY <3>1, <3>2, <2>2
  <2> HIDE DEF back, line
  <2> QED
    BY <2>1, <2>3, <1>5, SeqEqual
<1> QED
  BY <1>6, <1>7, <1>1 DEF Splits

-----------------------------------------------------------------------------
(* How many fragments are asked for.                                        *)

LEMMA TimesKeepsOrder ==
  /\ \A a, b, c \in Nat : a <= b => c * a <= c * b
  /\ \A a, b, c \in Nat : c > 0 /\ a * c <= b * c => a <= b
  /\ \A a, b, c \in Nat : (a * b) * c = a * (b * c)
  /\ \A a, b \in Nat : a * b \in Nat
<1>1. \A a, b \in Nat : a * b \in Nat
  OBVIOUS
<1>2. ASSUME NEW a \in Nat, NEW b \in Nat, NEW c \in Nat, a <= b PROVE c * a <= c * b
  <2> DEFINE d == b - a
  <2>1. d \in Nat /\ b = a + d
    BY <1>2
  <2>2. c * d \in Nat /\ c * a \in Nat
    BY <2>1, <1>1
  <2> HIDE DEF d
  <2>3. c * (a + d) = c * a + c * d
    BY <2>1
  <2> QED
    BY <2>1, <2>2, <2>3
<1>3. ASSUME NEW a \in Nat, NEW b \in Nat, NEW c \in Nat, c > 0, a * c <= b * c PROVE a <= b
  <2> SUFFICES ASSUME b < a PROVE FALSE
    OBVIOUS
  <2>1. b + 1 <= a
    OBVIOUS
  <2>2. c * (b + 1) <= c * a
    BY <2>1, <1>2
  <2>3. c * (b + 1) = b * c + c /\ c * a = a * c
    OBVIOUS
  <2>4. b * c \in Nat /\ a * c \in Nat
    BY <1>1
  <2> QED
    BY <2>2, <2>3, <2>4, <1>3
<1>4. ASSUME NEW a \in Nat, NEW b \in Nat, NEW c \in Nat PROVE (a * b) * c = a * (b * c)
  OBVIOUS
<1> QED
  BY <1>1, <1>2, <1>3, <1>4

(* The fragments expected to fit do fit. *)
LEMMA ExpectedFits ==
  ASSUME NEW v \in Nat
  PROVE  Expected(v) \in Nat /\ Expected(v) * Fragment <= v
<1> DEFINE e == Expected(v)
<1>1. v * ControlCapacity \in Nat
  BY Capacities, TimesKeepsOrder
<1>2. e \in Nat /\ e * PayloadCapacity <= v * ControlCapacity
  <2> DEFINE x == v * ControlCapacity
  <2>1. e = x \div PayloadCapacity
    BY DEF Expected
  <2>2. x \in Nat
    BY <1>1
  <2> HIDE DEF x
  <2>3. \A q \in Nat, r \in Nat \ {0} : q \div r \in Nat /\ (q \div r) * r <= q
    OBVIOUS
  <2>4. (x \div PayloadCapacity) \in Nat /\ (x \div PayloadCapacity) * PayloadCapacity <= x
    BY <2>2, <2>3, Capacities
  <2> QED
    BY <2>1, <2>4 DEF x
<1> HIDE DEF e
<1>3. e * (Fragment * ControlCapacity) <= e * PayloadCapacity
  BY <1>2, Capacities, FragmentsFit, TimesKeepsOrder
<1>4. (e * Fragment) * ControlCapacity = e * (Fragment * ControlCapacity)
  BY <1>2, Capacities, TimesKeepsOrder
<1>5. /\ e * (Fragment * ControlCapacity) \in Nat /\ e * PayloadCapacity \in Nat
      /\ e * Fragment \in Nat
  BY <1>2, Capacities, TimesKeepsOrder
<1>6. (e * Fragment) * ControlCapacity <= v * ControlCapacity
  BY <1>1, <1>2, <1>3, <1>4, <1>5
<1>7. e * Fragment <= v
  BY <1>5, <1>6, Capacities, TimesKeepsOrder
<1> QED
  BY <1>2, <1>7 DEF e

LEMMA LeastOfTwo ==
  ASSUME NEW a \in Nat, NEW b \in Nat
  PROVE  /\ Least(a, b) \in Nat /\ Least(a, b) <= a /\ Least(a, b) <= b
         /\ Least(a, b) \in {a, b} /\ (a <= b => Least(a, b) = a)
BY DEF Least

LEMMA MinOfNaturals ==
  ASSUME NEW S \in SUBSET Nat, S # {}
  PROVE  Min(S) \in S /\ \A n \in S : Min(S) <= n
BY LeastNatural DEF Min

(* As many fragments as are asked for have room, whichever sessions they are of. *)
LEMMA RoomIsThere ==
  ASSUME TypeOK, RoomLeft
  PROVE  /\ Room \in Nat
         /\ \A s \in Sessions :
              /\ Room <= ControlCapacity - Len(defrag[s].lengths)
              /\ Room * Fragment <= PayloadCapacity - Len(defrag[s].bytes)
<1> DEFINE Of(d) == Least(ControlCapacity - Len(d.lengths), Expected(PayloadCapacity - Len(d.bytes)))
           Rooms == {Of(defrag[s]) : s \in known} \cup {ControlCapacity}
<1>1. ASSUME NEW s \in Sessions
      PROVE  /\ Of(defrag[s]) \in Nat
             /\ Of(defrag[s]) <= ControlCapacity - Len(defrag[s].lengths)
             /\ Of(defrag[s]) <= Expected(PayloadCapacity - Len(defrag[s].bytes))
             /\ PayloadCapacity - Len(defrag[s].bytes) \in Nat
             /\ s \notin known => Len(defrag[s].lengths) = 0 /\ Len(defrag[s].bytes) = 0
  <2>1. Len(defrag[s].lengths) \in Nat /\ Len(defrag[s].bytes) \in Nat
    BY SessionFields
  <2>2. /\ Len(defrag[s].lengths) <= ControlCapacity /\ Len(defrag[s].bytes) <= PayloadCapacity
        /\ s \notin known => Len(defrag[s].lengths) = 0 /\ Len(defrag[s].bytes) = 0
    BY DEF RoomLeft
  <2>3. /\ ControlCapacity - Len(defrag[s].lengths) \in Nat
        /\ PayloadCapacity - Len(defrag[s].bytes) \in Nat
    BY <2>1, <2>2, Capacities
  <2>4. Expected(PayloadCapacity - Len(defrag[s].bytes)) \in Nat
    BY <2>3, ExpectedFits
  <2> DEFINE w == ControlCapacity - Len(defrag[s].lengths)
             e == Expected(PayloadCapacity - Len(defrag[s].bytes))
  <2>5. w \in Nat /\ e \in Nat
    BY <2>3, <2>4
  <2>6. Least(w, e) \in Nat /\ Least(w, e) <= w /\ Least(w, e) <= e
    <3> HIDE DEF w, e
    <3> QED
      BY <2>5, LeastOfTwo
  <2> QED
    BY <2>2, <2>3, <2>6
<1>2. Rooms \in SUBSET Nat /\ Rooms # {} /\ Room = Min(Rooms)
  <2>1. \A s \in known : Of(defrag[s]) \in Nat
    BY <1>1 DEF TypeOK
  <2> HIDE DEF Of
  <2>2. Rooms \in SUBSET Nat /\ Rooms # {}
    BY <2>1, Capacities
  <2> QED
    BY <2>2 DEF Room, Of
<1>3. /\ Room \in Nat /\ Room <= ControlCapacity
      /\ \A s \in known : Room <= Of(defrag[s])
  <2> HIDE DEF Of
  <2>1. ControlCapacity \in Rooms /\ \A s \in known : Of(defrag[s]) \in Rooms
    OBVIOUS
  <2> HIDE DEF Rooms
  <2> QED
    BY <2>1, <1>2, MinOfNaturals
<1> HIDE DEF Of
<1>4. ASSUME NEW s \in Sessions
      PROVE  /\ Room <= ControlCapacity - Len(defrag[s].lengths)
             /\ Room * Fragment <= PayloadCapacity - Len(defrag[s].bytes)
  <2> DEFINE v == PayloadCapacity - Len(defrag[s].bytes)
             w == ControlCapacity - Len(defrag[s].lengths)
  <2>1. CASE s \in known
    <3>1. Room <= w /\ Room <= Expected(v) /\ v \in Nat
      <4>1. Room <= Of(defrag[s]) /\ Of(defrag[s]) \in Nat
        BY <2>1, <1>1, <1>3
      <4>2. Of(defrag[s]) <= w /\ Of(defrag[s]) <= Expected(v) /\ v \in Nat
        BY <1>1
      <4>3. w \in Int
        BY SessionFields, Capacities
      <4>4. Expected(v) \in Nat
        BY <4>2, ExpectedFits
      <4> HIDE DEF v, w
      <4> QED
        BY <4>1, <4>2, <4>3, <4>4, <1>3
    <3> HIDE DEF v
    <3>2. Expected(v) \in Nat /\ Expected(v) * Fragment <= v
      BY <3>1, ExpectedFits
    <3>3. Fragment * Room <= Fragment * Expected(v)
      BY <3>1, <3>2, <1>3, Capacities, TimesKeepsOrder
    <3>4. Fragment * Room = Room * Fragment /\ Fragment * Expected(v) = Expected(v) * Fragment
      BY <3>2, <1>3, Capacities
    <3>5. Room * Fragment \in Nat /\ Expected(v) * Fragment \in Nat
      BY <3>2, <1>3, Capacities, TimesKeepsOrder
    <3>6. Room * Fragment <= v
      BY <3>1, <3>2, <3>3, <3>4, <3>5
    <3> QED
      BY <3>1, <3>6 DEF v
  <2>2. CASE s \notin known
    <3>1. w = ControlCapacity /\ v = PayloadCapacity
      BY <2>2, <1>1, Capacities
    <3>2. Fragment * Room <= Fragment * ControlCapacity
      BY <1>3, Capacities, TimesKeepsOrder
    <3>3. Fragment * Room = Room * Fragment /\ Fragment * Room \in Nat
          /\ Fragment * ControlCapacity \in Nat
      BY <1>3, Capacities, TimesKeepsOrder
    <3>4. Room * Fragment <= PayloadCapacity
      BY <3>2, <3>3, FragmentsFit, Capacities
    <3> QED
      BY <3>1, <3>4, <1>3
  <2> QED
    BY <2>1, <2>2
<1> QED
  BY <1>3, <1>4

-----------------------------------------------------------------------------
(* Steps of the loop that move nothing. *)

LEMMA InitInv == Init => Inv
<1> SUFFICES ASSUME Init PROVE Inv
  OBVIOUS
<1> USE DEF Init
<1>s. /\ sub.at = "running" /\ sub.left = 0 /\ sub.got = FALSE /\ sub.count = 0
      /\ sub \in SubState
  BY DEF At, Sub, SubState
<1>g. Pushed = 0 /\ \A s : Gone(s) = 0
  BY <1>s DEF Pushed, Gone
<1>1. TypeOK
  <2>1. image \in [Sessions -> [k : Nat \ {0}, at : Nat]]
    BY DEF Image
  <2>2. defrag \in [Sessions -> [lengths : Seq(Nat), bytes : Seq(Byte), running : Nat]]
    BY DEF Rings
  <2>3. received \in [Sessions -> Seq(Seq(Byte))]
    OBVIOUS
  <2>4. /\ known \subseteq Sessions /\ ready \in Seq(Sessions)
        /\ control \in Seq([session : Sessions, length : Nat]) /\ payload \in Seq(Byte)
        /\ stop \in BOOLEAN
    BY EmptySeq
  <2> QED
    BY <1>s, <2>1, <2>2, <2>3, <2>4 DEF TypeOK
<1>f. \A s \in Sessions : /\ image[s].k = 1 /\ image[s].at = 0 /\ received[s] = <<>>
                          /\ defrag[s].lengths = <<>> /\ defrag[s].bytes = <<>>
                          /\ defrag[s].running = 0
  BY DEF Image, Rings
<1>2. Placed
  <2> SUFFICES ASSUME NEW s \in Sessions
               PROVE  /\ image[s].k <= Len(Published[s]) + 1
                      /\ image[s].k <= Len(Published[s]) => image[s].at <= Size(<<s, image[s].k>>)
    BY DEF Placed
  <2>1. 1 <= Len(Published[s]) => Size(<<s, 1>>) \in Nat
    BY PublishedLengths, SizeIsNat
  <2> QED
    BY <2>1, <1>f, PublishedLengths
<1>3. RoomLeft /\ ChannelFits /\ Turns
  BY <1>f, <1>g, <1>s, Capacities DEF RoomLeft, ChannelFits, Turns
<1>u. \A s \in Sessions : Upcoming(s) = 1 /\ Oldest(image[s], defrag[s]) = 1
  BY <1>f, <1>g DEF Upcoming, Oldest
<1>4. RingsInOrder
  <2> SUFFICES ASSUME NEW s \in Sessions
               PROVE  Reassembled(s, image[s], defrag[s], Gone(s))
    BY DEF RingsInOrder
  <2>1. Run(s, 1, 0) = <<>>
    BY DEF Run
  <2>2. Run(s, Oldest(image[s], defrag[s]) + Gone(s), image[s].k - 1) = <<>>
    BY <2>1, <1>u, <1>f, <1>g
  <2> QED
    BY <2>2, <1>u, <1>f, <1>g, LaidNone DEF Reassembled
<1>5. Flows
  <2>1. InTurn(<<>>)
    BY <1>u, <1>f DEF InTurn
  <2>2. InFlight(<<>>)
    BY <2>1, <1>g, LaidNone DEF InFlight
  <2>3. <<>> \in Seq(Message)
    OBVIOUS
  <2> QED
    BY <2>2, <2>3 DEF Flows
<1>6. Delivered
  BY <1>u, <1>f DEF Delivered
<1> QED
  BY <1>1, <1>2, <1>3, <1>4, <1>5, <1>6 DEF Inv

(* The actor moves on, with nothing pushed that is still to be accounted for. *)
LEMMA QuietStep ==
  ASSUME Inv, UNCHANGED <<image, defrag, known, control, payload, received>>,
         sub.at # "pushed", sub'.at # "pushed", sub' \in SubState,
         ready' \in Seq(Sessions), stop' \in BOOLEAN, Turns',
         sub'.at = "reading" =>
           \A s \in Sessions :
             /\ sub'.left <= ControlCapacity - Len(defrag[s].lengths)
             /\ sub'.left * Fragment <= PayloadCapacity - Len(defrag[s].bytes)
  PROVE  Inv'
<1>u. /\ image' = image /\ defrag' = defrag /\ known' = known /\ control' = control
      /\ payload' = payload /\ received' = received
  OBVIOUS
<1>1. TypeOK'
  BY <1>u DEF Inv, TypeOK
<1>2. Placed'
  BY <1>u DEF Inv, Placed
<1>3. RoomLeft'
  BY <1>u DEF Inv, RoomLeft
<1>g. Pushed = 0 /\ Pushed' = 0 /\ \A s : Gone(s) = 0 /\ Gone(s)' = 0
  BY DEF Pushed, Gone
<1>4. ChannelFits'
  BY <1>u, <1>g DEF Inv, ChannelFits
<1>w. \A s : Upcoming(s)' = Upcoming(s)
  BY <1>u, <1>g DEF Upcoming, Oldest
<1>5. RingsInOrder'
  BY <1>u, <1>g DEF Inv, RingsInOrder
<1>6. Flows'
  <2>1. PICK line \in Seq(Message) : InFlight(line)
    BY DEF Inv, Flows
  <2>2. InTurn(line)'
    BY <2>1, <1>u, <1>w DEF InFlight, InTurn
  <2>3. InFlight(line)'
    BY <2>1, <2>2, <1>u, <1>g DEF InFlight
  <2> QED
    BY <2>3 DEF Flows
<1>7. Delivered'
  BY <1>u, <1>w DEF Inv, Delivered
<1> QED
  BY <1>1, <1>2, <1>3, <1>4, <1>5, <1>6, <1>7 DEF Inv

LEMMA LoopMovesOn ==
  ASSUME Inv, Leave \/ StartPolling \/ Poll \/ PollReturns \/ StartFlushing \/ FlushNone
  PROVE  Inv'
<1>t. TypeOK /\ RoomLeft /\ Turns /\ stop \in BOOLEAN /\ ready \in Seq(Sessions)
  BY DEF Inv, TypeOK
<1>p. 0 \in Nat /\ FALSE \in BOOLEAN
  OBVIOUS
<1>q. ASSUME NEW at \in {"running", "ended", "polling", "flushing"},
             sub' = At(at), sub.at # "pushed", ready' \in Seq(Sessions), stop' = stop,
             UNCHANGED <<image, defrag, known, control, payload, received>>
      PROVE  Inv'
  <2>1. sub' = Sub(at, 0, FALSE, 0)
    BY <1>q DEF At
  <2>2. sub'.at = at /\ sub' \in SubState
    BY <2>1, <1>p DEF Sub, SubState
  <2>3. Turns'
    BY <2>2 DEF Turns
  <2> QED
    BY <1>q, <1>t, <2>2, <2>3, QuietStep
<1>1. CASE Leave \/ StartPolling
  BY <1>1, <1>t, <1>q DEF Leave, StartPolling, Reassembly, Channel
<1>2. CASE Poll
  <2>u. /\ UNCHANGED <<image, defrag, known, control, payload, received>>
        /\ ready' = ready /\ stop' = stop /\ sub.at # "pushed"
    BY <1>2 DEF Poll, Reassembly, Channel
  <2>1. CASE Room = 0
    <3>1. sub' = At("flushing")
      BY <2>1, <1>2 DEF Poll
    <3> QED
      BY <3>1, <2>u, <1>t, <1>q
  <2>2. CASE Room # 0
    <3>1. sub' = Sub("reading", Room, FALSE, 0)
      BY <2>2, <1>2 DEF Poll
    <3>2. /\ Room \in Nat
          /\ \A s \in Sessions :
               /\ Room <= ControlCapacity - Len(defrag[s].lengths)
               /\ Room * Fragment <= PayloadCapacity - Len(defrag[s].bytes)
      BY <1>t, RoomIsThere
    <3>3. sub'.at = "reading" /\ sub'.left = Room /\ sub' \in SubState
      BY <3>1, <3>2, <1>p DEF Sub, SubState
    <3>4. Turns'
      BY <3>3 DEF Turns
    <3> QED
      BY <3>2, <3>3, <3>4, <2>u, <1>t, QuietStep
  <2> QED
    BY <2>1, <2>2
<1>3. CASE PollReturns
  <2>1. sub' = At("polling") \/ sub' = At("flushing")
    BY <1>3 DEF PollReturns
  <2>2. /\ UNCHANGED <<image, defrag, known, control, payload, received>>
        /\ ready' = ready /\ stop' = stop /\ sub.at # "pushed"
    BY <1>3 DEF PollReturns, Reassembly, Channel
  <2> QED
    BY <2>1, <2>2, <1>t, <1>q
<1>4. CASE StartFlushing
  <2>u. /\ UNCHANGED <<image, defrag, known, control, payload, received>>
        /\ ready' = ready /\ stop' = stop /\ sub.at # "pushed"
    BY <1>4 DEF StartFlushing, Reassembly, Channel
  <2>1. CASE ready = <<>>
    <3>1. sub' = At("running")
      BY <2>1, <1>4 DEF StartFlushing
    <3> QED
      BY <3>1, <2>u, <1>t, <1>q
  <2>2. CASE ready # <<>>
    <3>1. sub' = Sub("turn", Len(ready), FALSE, 0)
      BY <2>2, <1>4 DEF StartFlushing
    <3>2. Len(ready) \in Nat /\ Len(ready) \in 1..Len(ready)
      BY <2>2, <1>t
    <3>3. sub'.at = "turn" /\ sub'.left = Len(ready) /\ sub' \in SubState
      BY <3>1, <3>2, <1>p DEF Sub, SubState
    <3>4. Turns'
      BY <3>2, <3>3, <2>u DEF Turns
    <3> QED
      BY <3>3, <3>4, <2>u, <1>t, QuietStep
  <2> QED
    BY <2>1, <2>2
<1>5. CASE FlushNone
  <2>u. /\ UNCHANGED <<image, defrag, known, control, payload, received>>
        /\ ready' = Append(Tail(ready), Head(ready)) /\ stop' = stop /\ sub.at = "turn"
        /\ sub' = Turn(sub.left - 1)
    BY <1>5 DEF FlushNone, Channel
  <2>1. sub.left \in 1..Len(ready) /\ Len(ready) \in Nat /\ ready # <<>>
    BY <2>u, <1>t DEF Turns
  <2>2. ready' \in Seq(Sessions) /\ Len(ready') = Len(ready)
    BY <2>u, <2>1, <1>t
  <2>3. CASE sub.left - 1 = 0
    <3>1. sub' = At("running")
      BY <2>3, <2>u DEF Turn
    <3> QED
      BY <3>1, <2>u, <2>2, <1>t, <1>q
  <2>4. CASE sub.left - 1 # 0
    <3>1. sub' = Sub("turn", sub.left - 1, FALSE, 0)
      BY <2>4, <2>u DEF Turn
    <3>2. sub.left - 1 \in 1..Len(ready') /\ sub.left - 1 \in Nat
      BY <2>1, <2>2, <2>4
    <3>3. sub'.at = "turn" /\ sub'.left = sub.left - 1 /\ sub' \in SubState
      BY <3>1, <3>2, <1>p DEF Sub, SubState
    <3>4. Turns'
      BY <3>2, <3>3 DEF Turns
    <3> QED
      BY <3>3, <3>4, <2>u, <2>2, <1>t, QuietStep
  <2> QED
    BY <2>3, <2>4
<1> QED
  BY <1>1, <1>2, <1>3, <1>4, <1>5

LEMMA ShutdownStep ==
  ASSUME Inv, UNCHANGED <<image, defrag, known, ready, control, payload, sub, received>>,
         stop' \in BOOLEAN
  PROVE  Inv'
<1>u. /\ image' = image /\ defrag' = defrag /\ known' = known /\ ready' = ready
      /\ control' = control /\ payload' = payload /\ sub' = sub /\ received' = received
  OBVIOUS
<1>g. Pushed' = Pushed /\ \A s : Gone(s)' = Gone(s)
  BY <1>u DEF Pushed, Gone
<1>w. \A s : Upcoming(s)' = Upcoming(s)
  BY <1>u, <1>g DEF Upcoming
<1>1. TypeOK'
  BY <1>u DEF Inv, TypeOK
<1>2. Placed' /\ RoomLeft' /\ Turns'
  BY <1>u DEF Inv, Placed, RoomLeft, Turns
<1>3. ChannelFits' /\ RingsInOrder' /\ Delivered'
  BY <1>u, <1>g, <1>w DEF Inv, ChannelFits, RingsInOrder, Delivered
<1>4. Flows'
  <2>1. PICK line \in Seq(Message) : InFlight(line)
    BY DEF Inv, Flows
  <2>2. InTurn(line)'
    BY <2>1, <1>u, <1>w DEF InFlight, InTurn
  <2>3. InFlight(line)'
    BY <2>1, <2>2, <1>u, <1>g DEF InFlight
  <2> QED
    BY <2>3 DEF Flows
<1> QED
  BY <1>1, <1>2, <1>3, <1>4 DEF Inv

-----------------------------------------------------------------------------
(* A fragment is consumed.                                                  *)

LEMMA PushFits ==
  ASSUME NEW S, NEW ring \in Seq(S), NEW elems \in Seq(S), NEW capacity \in Nat,
         Len(ring) + Len(elems) <= capacity
  PROVE  Push(ring, elems, capacity) = ring \o elems
<1>1. Len(ring) \in Nat /\ Len(elems) \in Nat
  OBVIOUS
<1>2. Len(elems) <= capacity - Len(ring) /\ capacity - Len(ring) \in Nat
  BY <1>1
<1>3. Least(Len(elems), capacity - Len(ring)) = Len(elems)
  BY <1>1, <1>2 DEF Least
<1>4. SubSeq(elems, 1, Len(elems)) = elems
  BY SubSeqFull
<1> QED
  BY <1>3, <1>4 DEF Push

LEMMA CopiesAreSeq ==
  ASSUME NEW n \in Nat, NEW b \in Byte
  PROVE  /\ Copies(n, b) \in Seq(Byte) /\ Len(Copies(n, b)) = n
         /\ \A i \in 1..n : Copies(n, b)[i] = b
BY DEF Copies

(* More bytes of the message that Aeron is at. *)
Extended(s, im, d, n) == d.bytes \o Copies(n, <<s, im.k>>)

Grown(s, im, d, n, bytes) ==
  /\ bytes \in Seq(Byte) /\ Len(bytes) = Len(d.bytes) + n
  /\ Laid(bytes, Run(s, Oldest(im, d), im.k - 1), d.running + n)
  /\ \A p \in Len(bytes) - (d.running + n) + 1 .. Len(bytes) : bytes[p] = <<s, im.k>>

LEMMA MoreOfAMessage ==
  ASSUME NEW s \in Sessions, NEW im \in [k : Nat \ {0}, at : Nat],
         NEW d \in [lengths : Seq(Nat), bytes : Seq(Byte), running : Nat],
         Reassembled(s, im, d, 0), NEW n \in Nat,
         <<s, im.k>> \in Message, im.k <= Len(Published[s])
  PROVE  Grown(s, im, d, n, Extended(s, im, d, n))
<1> DEFINE bytes == Extended(s, im, d, n)
           more == Copies(n, <<s, im.k>>)
           line == Run(s, Oldest(im, d), im.k - 1)
<1>1. /\ im.k \in Nat /\ im.k > 0 /\ d.lengths \in Seq(Nat) /\ Len(d.lengths) \in Nat
      /\ d.bytes \in Seq(Byte) /\ d.running \in Nat /\ Len(d.bytes) \in Nat
      /\ <<s, im.k>> \in Byte
  BY DEF Message
<1>2. more \in Seq(Byte) /\ Len(more) = n /\ \A i \in 1..n : more[i] = <<s, im.k>>
  BY <1>1, CopiesAreSeq
<1>3. /\ bytes \in Seq(Byte) /\ Len(bytes) = Len(d.bytes) + n
      /\ \A p \in 1 .. Len(d.bytes) + n :
           bytes[p] = IF p <= Len(d.bytes) THEN d.bytes[p] ELSE more[p - Len(d.bytes)]
  <2> HIDE DEF more
  <2>1. bytes = d.bytes \o more
    BY DEF more, Extended
  <2> DEFINE old == d.bytes
  <2>2. old \in Seq(Byte) /\ more \in Seq(Byte) /\ Len(more) = n
    BY <1>1, <1>2
  <2> HIDE DEF old
  <2>3. /\ old \o more \in Seq(Byte) /\ Len(old \o more) = Len(old) + Len(more)
        /\ \A p \in 1 .. Len(old) + Len(more) :
             (old \o more)[p] = IF p <= Len(old) THEN old[p] ELSE more[p - Len(old)]
    <3>1. \A a, b \in Seq(Byte) :
            /\ a \o b \in Seq(Byte) /\ Len(a \o b) = Len(a) + Len(b)
            /\ \A p \in 1 .. Len(a) + Len(b) :
                 (a \o b)[p] = IF p <= Len(a) THEN a[p] ELSE b[p - Len(a)]
      BY ConcatProperties
    <3> QED
      BY <2>2, <3>1
  <2> HIDE DEF bytes
  <2> QED
    BY <2>1, <2>2, <2>3 DEF old
<1> HIDE DEF bytes
<1>4. line \in Seq(Message)
  <2>1. Oldest(im, d) \in Nat \ {0} /\ Oldest(im, d) <= im.k /\ im.k - 1 \in Nat
    BY <1>1 DEF Reassembled, Oldest
  <2>2. im.k = (im.k - 1) + 1 /\ im.k - 1 <= Len(Published[s])
    BY <1>1, PublishedLengths
  <2> QED
    BY <2>1, <2>2, RunIsSeq
<1>5. PICK end : Marks(d.bytes, line, d.running, end)
  <2>1. Oldest(im, d) + 0 = Oldest(im, d)
    BY <1>1 DEF Oldest
  <2> QED
    BY <2>1 DEF Reassembled, Laid
<1> HIDE DEF line
<1>6. Marks(bytes, line, d.running + n, end)
  <2> HIDE DEF more
  <2>1. Marks(d.bytes \o more, line, d.running + Len(more), end)
    BY <1>1, <1>2, <1>4, <1>5, MarksGrow
  <2>2. d.bytes \o more = bytes /\ Len(more) = n
    BY <1>2 DEF more, bytes, Extended
  <2> QED
    BY <2>1, <2>2
<1>7. ASSUME NEW p \in Len(bytes) - (d.running + n) + 1 .. Len(bytes)
      PROVE  bytes[p] = <<s, im.k>>
  <2>0. Len(bytes) - (d.running + n) = Len(d.bytes) - d.running /\ d.running <= Len(d.bytes)
    <3>1. end[Len(line)] \in Nat /\ end[Len(line)] <= Len(d.bytes) - d.running
      BY <1>1, <1>4, <1>5, EndsAreInRange
    <3> DEFINE e == end[Len(line)]
               b == Len(d.bytes)
               r == d.running
    <3>2. e \in Nat /\ e <= b - r /\ b \in Nat /\ r \in Nat /\ Len(bytes) = b + n
      BY <3>1, <1>1, <1>3
    <3> HIDE DEF e, b, r
    <3>3. Len(bytes) - (r + n) = b - r /\ r <= b
      BY <3>2
    <3> QED
      BY <3>3 DEF b, r
  <2>1. CASE p <= Len(d.bytes)
    <3>1. p \in Len(d.bytes) - d.running + 1 .. Len(d.bytes) /\ p \in 1 .. Len(d.bytes) + n
      BY <2>0, <2>1, <1>1, <1>3
    <3>2. d.bytes[p] = <<s, im.k>>
      BY <3>1 DEF Reassembled
    <3> QED
      BY <3>1, <3>2, <2>1, <1>3
  <2>2. CASE ~(p <= Len(d.bytes))
    <3>1. p - Len(d.bytes) \in 1..n /\ p \in 1 .. Len(d.bytes) + n
      BY <2>0, <2>2, <1>1, <1>3
    <3> HIDE DEF more
    <3>2. bytes[p] = more[p - Len(d.bytes)]
      BY <3>1, <2>2, <1>3
    <3> QED
      BY <3>1, <3>2, <1>2
  <2> QED
    BY <2>1, <2>2
<1> QED
  BY <1>3, <1>6, <1>7 DEF line, bytes, Laid, Grown

(* What a fragment does to its session. *)
LEMMA ConsumeSession ==
  ASSUME Inv, NEW s \in Sessions, Consume(s)
  PROVE  /\ image' \in [Sessions -> [k : Nat \ {0}, at : Nat]]
         /\ defrag' \in [Sessions -> [lengths : Seq(Nat), bytes : Seq(Byte), running : Nat]]
         /\ \A r \in Sessions \ {s} : image'[r] = image[r] /\ defrag'[r] = defrag[r]
         /\ Oldest(image'[s], defrag'[s]) = Oldest(image[s], defrag[s])
         /\ Reassembled(s, image'[s], defrag'[s], 0)
         /\ Len(defrag'[s].lengths) <= Len(defrag[s].lengths) + 1
         /\ Len(defrag'[s].bytes) <= Len(defrag[s].bytes) + Fragment
         /\ image'[s].k <= Len(Published[s]) + 1
         /\ image'[s].k <= Len(Published[s]) => image'[s].at <= Size(<<s, image'[s].k>>)
<1> DEFINE im == image[s]
           k == image[s].k
           d == defrag[s]
           size == Published[s][k]
           n == Least(Fragment, size - im.at)
           bytes == Push(d.bytes, Copies(n, <<s, k>>), PayloadCapacity)
           more == Rings(d.lengths, bytes, d.running + Len(bytes) - Len(d.bytes))
           isEnd == im.at + n = size
           im2 == IF isEnd THEN Image(k + 1, 0) ELSE Image(k, im.at + n)
           d2 == IF isEnd THEN Ends(more) ELSE more
<1>0. /\ image \in [Sessions -> [k : Nat \ {0}, at : Nat]]
      /\ defrag \in [Sessions -> [lengths : Seq(Nat), bytes : Seq(Byte), running : Nat]]
      /\ TypeOK /\ Placed /\ RoomLeft /\ Reassembled(s, im, d, Gone(s))
  BY DEF Inv, TypeOK, RingsInOrder
<1>1. /\ sub.at = "reading" /\ sub.left > 0 /\ k <= Len(Published[s])
      /\ image' = [image EXCEPT ![s] = im2] /\ defrag' = [defrag EXCEPT ![s] = d2]
  BY DEF Consume
<1>2. /\ im \in [k : Nat \ {0}, at : Nat] /\ k \in Nat /\ k > 0 /\ im.at \in Nat
      /\ d \in [lengths : Seq(Nat), bytes : Seq(Byte), running : Nat]
      /\ d.lengths \in Seq(Nat) /\ d.bytes \in Seq(Byte) /\ d.running \in Nat
      /\ Len(d.lengths) \in Nat /\ Len(d.bytes) \in Nat
  BY <1>0, SessionFields
<1>3. /\ <<s, k>> \in Message /\ <<s, k>> \in Byte /\ size = Size(<<s, k>>) /\ size \in Nat
      /\ im.at <= size /\ size - im.at \in Nat
  <2>1. <<s, k>> \in Message /\ Size(<<s, k>>) = Published[s][k]
    BY <1>1, <1>2, PublishedLengths
  <2>2. im.at <= Size(<<s, k>>)
    BY <1>0, <1>1 DEF Placed
  <2>3. Size(<<s, k>>) \in Nat
    BY <2>1, SizeIsNat
  <2> QED
    BY <2>1, <2>2, <2>3, <1>2 DEF Message
<1>4. n \in Nat /\ n <= Fragment /\ n <= size - im.at
  <2> DEFINE w == size - im.at
  <2>1. w \in Nat /\ Fragment \in Nat
    BY <1>3, Capacities
  <2> HIDE DEF w
  <2>2. Least(Fragment, w) \in Nat /\ Least(Fragment, w) <= Fragment /\ Least(Fragment, w) <= w
    BY <2>1, LeastOfTwo
  <2> QED
    BY <2>2 DEF w
<1>5. Len(d.bytes) + n <= PayloadCapacity /\ Len(d.lengths) + 1 <= ControlCapacity
  <2> DEFINE left == sub.left
             vacant == PayloadCapacity - Len(d.bytes)
  <2>1. left \in Nat /\ left > 0 /\ left <= ControlCapacity - Len(d.lengths)
        /\ left * Fragment <= vacant
    BY <1>0, <1>1, SubFields DEF RoomLeft
  <2>2. vacant \in Int
    BY <1>2, Capacities
  <2> HIDE DEF left, vacant
  <2>3. Fragment * 1 <= Fragment * left
    BY <2>1, Capacities, TimesKeepsOrder
  <2>4. Fragment * 1 = Fragment /\ Fragment * left = left * Fragment /\ Fragment * left \in Nat
    BY <2>1, Capacities, TimesKeepsOrder
  <2>5. Fragment <= vacant
    BY <2>1, <2>2, <2>3, <2>4, Capacities
  <2>6. n <= vacant
    <3> HIDE DEF n
    <3> QED
      BY <2>2, <2>5, <1>4, Capacities
  <2> HIDE DEF n
  <2> QED
    BY <2>1, <2>6, <1>2, <1>4, Capacities DEF vacant
<1> HIDE DEF n
<1>6. bytes = d.bytes \o Copies(n, <<s, k>>)
  <2>1. Copies(n, <<s, k>>) \in Seq(Byte) /\ Len(Copies(n, <<s, k>>)) = n
    BY <1>3, <1>4, CopiesAreSeq
  <2> QED
    BY <2>1, <1>2, <1>5, Capacities, PushFits
<1> HIDE DEF bytes
<1>g. Gone(s) = 0
  BY <1>1 DEF Gone
<1>7. /\ bytes \in Seq(Byte) /\ Len(bytes) = Len(d.bytes) + n
      /\ \E end : Marks(bytes, Run(s, Oldest(im, d), k - 1), d.running + n, end)
      /\ \A p \in Len(bytes) - (d.running + n) + 1 .. Len(bytes) : bytes[p] = <<s, k>>
  <2>1. Reassembled(s, im, d, 0)
    BY <1>0, <1>g
  <2>2. k = im.k
    OBVIOUS
  <2> HIDE DEF im, d, k, size
  <2>3. /\ <<s, im.k>> \in Message /\ im.k <= Len(Published[s])
        /\ bytes = Extended(s, im, d, n)
    BY <2>2, <1>1, <1>3, <1>6 DEF Extended
  <2>4. /\ bytes \in Seq(Byte) /\ Len(bytes) = Len(d.bytes) + n
        /\ \E end : Marks(bytes, Run(s, Oldest(im, d), im.k - 1), d.running + n, end)
        /\ \A p \in Len(bytes) - (d.running + n) + 1 .. Len(bytes) : bytes[p] = <<s, im.k>>
    <3>1. /\ im \in [k : Nat \ {0}, at : Nat] /\ n \in Nat
          /\ d \in [lengths : Seq(Nat), bytes : Seq(Byte), running : Nat]
      BY <1>2, <1>4
    <3>2. Grown(s, im, d, n, Extended(s, im, d, n))
      BY <2>1, <2>3, <3>1, MoreOfAMessage
    <3>3. Grown(s, im, d, n, bytes)
      BY <2>3, <3>2
    <3> QED
      BY <3>3 DEF Grown, Laid
  <2> QED
    BY <2>2, <2>4
<1>8. /\ more = [lengths |-> d.lengths, bytes |-> bytes, running |-> d.running + n]
      /\ d.running + n \in Nat /\ d.running = im.at
  <2>1. d.running + Len(bytes) - Len(d.bytes) = d.running + n
    BY <1>2, <1>4, <1>7
  <2>2. d.running = im.at
    BY <1>0 DEF Reassembled
  <2> QED
    BY <2>1, <2>2, <1>2, <1>4 DEF Rings
<1> HIDE DEF more
<1>9. Oldest(im, d) = k - Len(d.lengths) /\ Oldest(im, d) >= 1
  BY <1>0 DEF Oldest, Reassembled
<1>10. /\ im2 \in [k : Nat \ {0}, at : Nat]
       /\ d2 \in [lengths : Seq(Nat), bytes : Seq(Byte), running : Nat]
       /\ Oldest(im2, d2) = Oldest(im, d) /\ Reassembled(s, im2, d2, 0)
       /\ Len(d2.lengths) <= Len(d.lengths) + 1 /\ Len(d2.bytes) <= Len(d.bytes) + Fragment
       /\ im2.k <= Len(Published[s]) + 1
       /\ im2.k <= Len(Published[s]) => im2.at <= Size(<<s, im2.k>>)
  <2>1. CASE ~isEnd
    <3>1. im2.k = k /\ im2.at = im.at + n /\ im2 \in [k : Nat \ {0}, at : Nat]
      BY <2>1, <1>2, <1>4 DEF Image
    <3>2. /\ d2.lengths = d.lengths /\ d2.bytes = bytes /\ d2.running = d.running + n
          /\ d2 \in [lengths : Seq(Nat), bytes : Seq(Byte), running : Nat]
      BY <2>1, <1>2, <1>7, <1>8
    <3> HIDE DEF im2, d2
    <3>3. Oldest(im2, d2) = Oldest(im, d) /\ Oldest(im2, d2) + 0 = Oldest(im, d)
      BY <3>1, <3>2, <1>2 DEF Oldest
    <3>4. Reassembled(s, im2, d2, 0)
      <4>1. 0 \in 0..Len(d2.lengths)
        BY <3>2, <1>2
      <4>2. Laid(d2.bytes, Run(s, Oldest(im2, d2) + 0, im2.k - 1), d2.running)
        BY <3>1, <3>2, <3>3, <1>7 DEF Laid
      <4>3. \A i \in 1..Len(d2.lengths) : d2.lengths[i] = Size(<<s, Oldest(im2, d2) + i - 1>>)
        BY <3>2, <3>3, <1>0 DEF Reassembled
      <4> QED
        BY <4>1, <4>2, <4>3, <3>1, <3>2, <3>3, <1>7, <1>8, <1>9 DEF Reassembled
    <3>5. im2.at <= Size(<<s, im2.k>>)
      BY <3>1, <1>2, <1>3, <1>4
    <3>6. Len(d2.bytes) <= Len(d.bytes) + Fragment
      BY <3>2, <1>2, <1>4, <1>7, Capacities
    <3>7. im2.k <= Len(Published[s]) + 1
      BY <3>1, <1>1, <1>2, PublishedLengths
    <3>8. Len(d2.lengths) <= Len(d.lengths) + 1
      BY <3>2, <1>2
    <3> QED
      BY <3>1, <3>2, <3>3, <3>4, <3>5, <3>6, <3>7, <3>8
  <2>2. CASE isEnd
    <3>1. im2.k = k + 1 /\ im2.at = 0 /\ im2 \in [k : Nat \ {0}, at : Nat]
      BY <2>2, <1>2 DEF Image
    <3>s. d.running + n = size
      BY <2>2, <1>8
    <3>2. /\ d2.lengths = Append(d.lengths, size) /\ d2.bytes = bytes /\ d2.running = 0
          /\ d2 \in [lengths : Seq(Nat), bytes : Seq(Byte), running : Nat]
      <4>1. /\ more.lengths = d.lengths /\ more.bytes = bytes /\ more.running = size
        BY <1>8, <3>s
      <4>2. Push(d.lengths, <<size>>, ControlCapacity) = d.lengths \o <<size>>
        <5> HIDE DEF size
        <5>1. <<size>> \in Seq(Nat) /\ Len(<<size>>) = 1
          BY <1>3
        <5> QED
          BY <5>1, <1>2, <1>5, Capacities, PushFits
      <4>3. d.lengths \o <<size>> = Append(d.lengths, size)
        BY <1>2, <1>3, AppendIsConcat
      <4>4. d2 = [lengths |-> Append(d.lengths, size), bytes |-> bytes, running |-> 0]
        BY <2>2, <4>1, <4>2, <4>3 DEF Ends, Rings
      <4>5. Append(d.lengths, size) \in Seq(Nat)
        BY <1>2, <1>3
      <4> HIDE DEF d2
      <4> QED
        BY <4>4, <4>5, <1>7
    <3> HIDE DEF im2, d2, size
    <3>l. /\ Len(d2.lengths) = Len(d.lengths) + 1 /\ d2.lengths[Len(d.lengths) + 1] = size
          /\ \A i \in 1..Len(d.lengths) : d2.lengths[i] = d.lengths[i]
      BY <3>2, <1>2, <1>3, AppendProperties
    <3>3. /\ Oldest(im2, d2) = Oldest(im, d) /\ Oldest(im2, d2) + 0 = Oldest(im, d)
          /\ Oldest(im, d) \in Nat \ {0} /\ im2.k - 1 = k
          /\ Oldest(im, d) + (Len(d.lengths) + 1) - 1 = k
      <4> DEFINE l == Len(d.lengths)
      <4>1. Oldest(im2, d2) = (k + 1) - (l + 1)
        BY <3>1, <3>l DEF Oldest
      <4>2. l \in Nat /\ k \in Nat /\ Oldest(im, d) = k - l /\ k - l >= 1 /\ im2.k = k + 1
        BY <3>1, <1>2, <1>9
      <4> HIDE DEF l, k, d, im
      <4> QED
        BY <4>1, <4>2 DEF l
    <3>4. Reassembled(s, im2, d2, 0)
      <4>1. 0 \in 0..Len(d2.lengths)
        BY <3>l, <1>2
      <4> DEFINE line == Run(s, Oldest(im, d), k - 1)
      <4>2. /\ line \in Seq(Message) /\ Append(line, <<s, k>>) = Run(s, Oldest(im, d), k)
        <5> DEFINE b == k - 1
        <5>1. /\ b \in Nat /\ k = b + 1 /\ Oldest(im, d) <= b + 1
              /\ b + 1 <= Len(Published[s]) /\ b <= Len(Published[s])
          BY <1>1, <1>2, <1>9, PublishedLengths
        <5> HIDE DEF b
        <5>2. /\ Run(s, Oldest(im, d), b) \in Seq(Message)
              /\ Append(Run(s, Oldest(im, d), b), <<s, b + 1>>) = Run(s, Oldest(im, d), b + 1)
          BY <5>1, <3>3, RunIsSeq, RunGrows
        <5> QED
          BY <5>1, <5>2 DEF b
      <4>3. PICK end : Marks(bytes, line, Size(<<s, k>>), end)
        BY <1>3, <1>7, <3>s
      <4>4. Laid(bytes, Append(line, <<s, k>>), 0)
        <5>1. \A p \in Len(bytes) - Size(<<s, k>>) + 1 .. Len(bytes) : bytes[p] = <<s, k>>
          BY <1>3, <1>7, <3>s
        <5> HIDE DEF line
        <5> QED
          BY <5>1, <4>2, <4>3, <1>3, <1>7, MarksEnd
      <4>5. Laid(d2.bytes, Run(s, Oldest(im2, d2) + 0, im2.k - 1), d2.running)
        BY <4>2, <4>4, <3>2, <3>3
      <4>6. ASSUME NEW i \in 1..Len(d2.lengths)
            PROVE  d2.lengths[i] = Size(<<s, Oldest(im2, d2) + i - 1>>)
        <5>1. CASE i = Len(d.lengths) + 1
          <6>1. Oldest(im2, d2) + i - 1 = k
            BY <5>1, <3>3
          <6> QED
            BY <6>1, <5>1, <3>l, <1>3
        <5>2. CASE i \in 1..Len(d.lengths)
          <6>1. d.lengths[i] = Size(<<s, Oldest(im, d) + i - 1>>)
            BY <5>2, <1>0 DEF Reassembled
          <6> QED
            BY <6>1, <5>2, <3>l, <3>3
        <5> QED
          BY <5>1, <5>2, <3>l, <1>2
      <4>7. \A p \in Len(d2.bytes) - d2.running + 1 .. Len(d2.bytes) : d2.bytes[p] = <<s, im2.k>>
        BY <3>2, <1>7, <1>2
      <4> QED
        BY <4>1, <4>5, <4>6, <4>7, <3>1, <3>2, <3>3, <1>9 DEF Reassembled
    <3>5. im2.k <= Len(Published[s]) => im2.at <= Size(<<s, im2.k>>)
      <4> SUFFICES ASSUME im2.k <= Len(Published[s]) PROVE 0 <= Size(<<s, im2.k>>)
        BY <3>1
      <4>1. <<s, im2.k>> \in Message
        BY <3>1, PublishedLengths
      <4>2. Size(<<s, im2.k>>) \in Nat
        BY <4>1, SizeIsNat
      <4> QED
        BY <4>2
    <3>6. Len(d2.bytes) <= Len(d.bytes) + Fragment
      BY <3>2, <1>2, <1>4, <1>7, Capacities
    <3>7. im2.k <= Len(Published[s]) + 1
      BY <3>1, <1>1, <1>2, PublishedLengths
    <3>8. Len(d2.lengths) <= Len(d.lengths) + 1
      BY <3>l, <1>2
    <3> QED
      BY <3>1, <3>2, <3>3, <3>4, <3>5, <3>6, <3>7, <3>8
  <2> QED
    BY <2>1, <2>2
<1> HIDE DEF im2, d2
<1>11. image'[s] = im2 /\ defrag'[s] = d2
  BY <1>0, <1>1
<1>12. \A r \in Sessions \ {s} : image'[r] = image[r] /\ defrag'[r] = defrag[r]
  BY <1>0, <1>1
<1>13. /\ image' \in [Sessions -> [k : Nat \ {0}, at : Nat]]
       /\ defrag' \in [Sessions -> [lengths : Seq(Nat), bytes : Seq(Byte), running : Nat]]
  BY <1>0, <1>1, <1>10
<1> QED
  BY <1>10, <1>11, <1>12, <1>13

LEMMA ConsumeStep == ASSUME Inv, NEW s \in Sessions, Consume(s) PROVE Inv'
<1>c. /\ image' \in [Sessions -> [k : Nat \ {0}, at : Nat]]
      /\ defrag' \in [Sessions -> [lengths : Seq(Nat), bytes : Seq(Byte), running : Nat]]
      /\ \A r \in Sessions \ {s} : image'[r] = image[r] /\ defrag'[r] = defrag[r]
      /\ Oldest(image'[s], defrag'[s]) = Oldest(image[s], defrag[s])
      /\ Reassembled(s, image'[s], defrag'[s], 0)
      /\ Len(defrag'[s].lengths) <= Len(defrag[s].lengths) + 1
      /\ Len(defrag'[s].bytes) <= Len(defrag[s].bytes) + Fragment
      /\ image'[s].k <= Len(Published[s]) + 1
      /\ image'[s].k <= Len(Published[s]) => image'[s].at <= Size(<<s, image'[s].k>>)
  BY ConsumeSession
<1>u. /\ control' = control /\ payload' = payload /\ received' = received /\ stop' = stop
      /\ known' = known \cup {s} /\ sub' = Sub("reading", sub.left - 1, TRUE, 0)
      /\ (ready' = ready \/ ready' = Append(ready, s))
      /\ sub.at = "reading" /\ sub.left > 0
  BY DEF Consume, Channel, Ready
<1>t. TypeOK /\ RoomLeft /\ Placed /\ Flows /\ RingsInOrder /\ Delivered /\ ChannelFits
  BY DEF Inv
<1>s. /\ sub.left \in Nat /\ sub.left - 1 \in Nat
      /\ sub'.at = "reading" /\ sub'.left = sub.left - 1 /\ sub' \in SubState
  <2>1. sub.left \in Nat /\ sub.left - 1 \in Nat
    BY <1>t, <1>u, SubFields
  <2> QED
    BY <2>1, <1>u DEF Sub, SubState
<1>g. Pushed = 0 /\ Pushed' = 0 /\ \A r : Gone(r) = 0 /\ Gone(r)' = 0
  BY <1>u, <1>s DEF Pushed, Gone
<1>w. \A r \in Sessions : Upcoming(r)' = Upcoming(r)
  BY <1>c, <1>g DEF Upcoming
<1>1. TypeOK'
  <2>1. ready' \in Seq(Sessions)
    <3>1. ready \in Seq(Sessions)
      BY <1>t DEF TypeOK
    <3>2. Append(ready, s) \in Seq(Sessions)
      BY <3>1, AppendProperties
    <3> QED
      BY <3>1, <3>2, <1>u
  <2> QED
    BY <2>1, <1>c, <1>u, <1>s, <1>t DEF TypeOK
<1>2. Placed'
  BY <1>c, <1>t DEF Placed
<1>3. RoomLeft'
  <2> SUFFICES ASSUME NEW r \in Sessions
               PROVE  /\ Len(defrag'[r].lengths) <= ControlCapacity
                      /\ Len(defrag'[r].bytes) <= PayloadCapacity
                      /\ r \notin known' => defrag'[r].lengths = <<>> /\ defrag'[r].bytes = <<>>
                      /\ sub'.left <= ControlCapacity - Len(defrag'[r].lengths)
                      /\ sub'.left * Fragment <= PayloadCapacity - Len(defrag'[r].bytes)
    BY DEF RoomLeft
  <2>1. /\ Len(defrag[r].lengths) <= ControlCapacity /\ Len(defrag[r].bytes) <= PayloadCapacity
        /\ r \notin known => defrag[r].lengths = <<>> /\ defrag[r].bytes = <<>>
        /\ sub.left <= ControlCapacity - Len(defrag[r].lengths)
        /\ sub.left * Fragment <= PayloadCapacity - Len(defrag[r].bytes)
    BY <1>t, <1>u DEF RoomLeft
  <2>2. /\ Len(defrag'[r].lengths) <= Len(defrag[r].lengths) + 1
        /\ Len(defrag'[r].bytes) <= Len(defrag[r].bytes) + Fragment
    <3>1. CASE r = s
      BY <3>1, <1>c
    <3>2. CASE r # s
      <4>1. defrag'[r] = defrag[r]
        BY <3>2, <1>c
      <4> QED
        BY <4>1, <1>t, SessionFields, Capacities
    <3> QED
      BY <3>1, <3>2
  <2>3. r \notin known' => defrag'[r].lengths = <<>> /\ defrag'[r].bytes = <<>>
    <3>1. r \notin known' => r # s /\ r \notin known
      BY <1>u
    <3> QED
      BY <3>1, <2>1, <1>c
  <2> DEFINE l == Len(defrag[r].lengths)
             b == Len(defrag[r].bytes)
             l2 == Len(defrag'[r].lengths)
             b2 == Len(defrag'[r].bytes)
             left == sub.left
  <2>4. l \in Nat /\ b \in Nat /\ l2 \in Nat /\ b2 \in Nat /\ left \in Nat /\ left > 0
    <3>1. /\ defrag'[r] \in [lengths : Seq(Nat), bytes : Seq(Byte), running : Nat]
      BY <1>c
    <3>2. defrag'[r].lengths \in Seq(Nat) /\ defrag'[r].bytes \in Seq(Byte)
      BY <3>1
    <3> QED
      BY <3>2, <1>t, <1>s, <1>u, SessionFields
  <2>5. (left - 1) * Fragment = left * Fragment - Fragment /\ left * Fragment \in Nat
    <3> HIDE DEF left
    <3> QED
      BY <2>4, Capacities, TimesKeepsOrder
  <2>6. Fragment * 1 <= Fragment * left /\ Fragment * 1 = Fragment
        /\ Fragment * left = left * Fragment
    <3> HIDE DEF left
    <3> QED
      BY <2>4, Capacities, TimesKeepsOrder
  <2>7. /\ l2 <= l + 1 /\ b2 <= b + Fragment /\ left <= ControlCapacity - l
        /\ left * Fragment <= PayloadCapacity - b
    BY <2>1, <2>2
  <2>8. /\ l2 <= ControlCapacity /\ b2 <= PayloadCapacity /\ left - 1 <= ControlCapacity - l2
        /\ (left - 1) * Fragment <= PayloadCapacity - b2
    <3> DEFINE x == left * Fragment
    <3>1. /\ x \in Nat /\ (left - 1) * Fragment = x - Fragment /\ x >= Fragment
          /\ x <= PayloadCapacity - b
      BY <2>5, <2>6, <2>7, Capacities
    <3> HIDE DEF x, l, b, l2, b2, left
    <3>2. l2 <= ControlCapacity /\ left - 1 <= ControlCapacity - l2
      BY <2>4, <2>7, Capacities
    <3>3. b2 <= PayloadCapacity /\ x - Fragment <= PayloadCapacity - b2
      BY <2>4, <2>7, <3>1, Capacities
    <3> QED
      BY <3>1, <3>2, <3>3
  <2> QED
    BY <2>3, <2>8, <1>s
<1>4. ChannelFits' /\ Turns'
  BY <1>u, <1>g, <1>t, <1>s DEF ChannelFits, Turns
<1>5. RingsInOrder'
  <2> SUFFICES ASSUME NEW r \in Sessions PROVE Reassembled(r, image'[r], defrag'[r], 0)
    BY <1>g DEF RingsInOrder
  <2>1. CASE r = s
    BY <2>1, <1>c
  <2>2. CASE r # s
    BY <2>2, <1>c, <1>t, <1>g DEF RingsInOrder
  <2> QED
    BY <2>1, <2>2
<1>6. Flows'
  <2>1. PICK line \in Seq(Message) : InFlight(line)
    BY <1>t DEF Flows
  <2>2. \A j \in 1..Len(line) : line[j][1] \in Sessions
    <3>1. \A j \in 1..Len(line) : line[j] \in Message
      BY ElementOfSeq
    <3> QED
      BY <3>1 DEF Message, Byte
  <2>3. InTurn(line)'
    BY <2>1, <2>2, <1>u, <1>w DEF InFlight, InTurn
  <2>4. InFlight(line)'
    BY <2>1, <2>3, <1>u, <1>g DEF InFlight
  <2> QED
    BY <2>4 DEF Flows
<1>7. Delivered'
  BY <1>u, <1>w, <1>t DEF Delivered
<1> QED
  BY <1>1, <1>2, <1>3, <1>4, <1>5, <1>6, <1>7 DEF Inv

-----------------------------------------------------------------------------
(* A session has its turn.                                                  *)

(* As many messages are flushed as fit into both rings of the channel. *)
LEMMA WholeFits ==
  ASSUME NEW lengths \in Seq(Nat), Len(control) \in Nat, Len(control) <= ControlCapacity,
         Len(payload) \in Nat, Len(payload) <= PayloadCapacity
  PROVE  /\ Whole(lengths) \in 0..Len(lengths)
         /\ Len(control) + Whole(lengths) <= ControlCapacity
         /\ Bytes(lengths)[Whole(lengths)] <= PayloadCapacity - Len(payload)
<1> DEFINE most == Least(Len(lengths), ControlCapacity - Len(control))
           S == {n \in 0..most : Bytes(lengths)[n] <= PayloadCapacity - Len(payload)}
<1>1. /\ Len(lengths) \in Nat /\ ControlCapacity - Len(control) \in Nat
      /\ 0 <= PayloadCapacity - Len(payload)
  BY Capacities
<1>2. most \in Nat /\ most <= Len(lengths) /\ most <= ControlCapacity - Len(control)
  <2> DEFINE c == ControlCapacity - Len(control)
  <2>1. c \in Nat
    BY <1>1
  <2> HIDE DEF c
  <2>2. /\ Least(Len(lengths), c) \in Nat /\ Least(Len(lengths), c) <= Len(lengths)
        /\ Least(Len(lengths), c) <= c
    BY <2>1, <1>1, LeastOfTwo
  <2> QED
    BY <2>2 DEF c
<1>3. Bytes(lengths)[0] = 0
  BY <1>1, BytesRecursion
<1>4. Whole(lengths) = Max(S)
  BY DEF Whole
<1> HIDE DEF most
<1>5. S \in SUBSET (0..most) /\ S # {}
  <2>1. 0 \in 0..most
    BY <1>2
  <2>2. 0 \in S
    BY <2>1, <1>1, <1>3
  <2> QED
    BY <2>2
<1> HIDE DEF S
<1>6. Max(S) \in S
  <2>1. \E n \in S : \A m \in S : m <= n
    BY <1>2, <1>5, GreatestNatural
  <2>2. \A n, m \in S : m <= n => n >= m
    BY <1>2, <1>5
  <2>3. \E n \in S : \A m \in S : n >= m
    BY <2>1, <2>2
  <2> QED
    BY <2>3 DEF Max
<1>7. Whole(lengths) \in 0..most /\ Bytes(lengths)[Whole(lengths)] <= PayloadCapacity - Len(payload)
  BY <1>4, <1>6 DEF S
<1> QED
  BY <1>1, <1>2, <1>7, Capacities

(* The bytes of the first n messages of a session, and the bytes after them. *)
FrontBytes(d, n) == SubSeq(d.bytes, 1, Bytes(d.lengths)[n])
BackBytes(d, n) == SubSeq(d.bytes, Bytes(d.lengths)[n] + 1, Len(d.bytes))

(* The first n messages of a session are taken out of its bytes. *)
LEMMA TakeFromRing ==
  ASSUME NEW s \in Sessions, NEW im \in [k : Nat \ {0}, at : Nat],
         NEW d \in [lengths : Seq(Nat), bytes : Seq(Byte), running : Nat],
         Reassembled(s, im, d, 0), im.k <= Len(Published[s]) + 1,
         NEW n \in 0..Len(d.lengths)
  PROVE  /\ FrontBytes(d, n) \in Seq(Byte) /\ Len(FrontBytes(d, n)) = Bytes(d.lengths)[n]
         /\ Laid(FrontBytes(d, n), Run(s, Oldest(im, d), Oldest(im, d) + n - 1), 0)
         /\ Run(s, Oldest(im, d), Oldest(im, d) + n - 1) \in Seq(Message)
         /\ Len(Run(s, Oldest(im, d), Oldest(im, d) + n - 1)) = n
         /\ BackBytes(d, n) \in Seq(Byte)
         /\ Len(BackBytes(d, n)) \in Nat /\ Len(BackBytes(d, n)) <= Len(d.bytes)
         /\ Reassembled(s, im, Rings(d.lengths, BackBytes(d, n), d.running), n)
<1> DEFINE old == Oldest(im, d)
           line == Run(s, old, im.k - 1)
           l == Len(d.lengths)
           b == Bytes(d.lengths)[n]
           front == SubSeq(d.bytes, 1, b)
           back == SubSeq(d.bytes, b + 1, Len(d.bytes))
           first == Run(s, old, old + n - 1)
           d2 == Rings(d.lengths, back, d.running)
<1>1. /\ im.k \in Nat /\ d.lengths \in Seq(Nat) /\ l \in Nat /\ d.bytes \in Seq(Byte)
      /\ d.running \in Nat /\ Len(d.bytes) \in Nat /\ n \in Nat /\ n <= l
  OBVIOUS
<1>2. /\ old = im.k - l /\ old \in Nat \ {0} /\ im.k - 1 \in Nat /\ old <= (im.k - 1) + 1
      /\ im.k - 1 <= Len(Published[s]) /\ (im.k - 1) - old + 1 = l /\ old + 0 = old
  <2>1. old = im.k - l
    BY DEF Oldest
  <2>2. old >= 1 /\ Len(Published[s]) \in Nat
    BY PublishedLengths DEF Reassembled
  <2> DEFINE k == im.k
             last == Len(Published[s])
  <2>3. k \in Nat /\ l \in Nat /\ old = k - l /\ old >= 1 /\ last \in Nat /\ k <= last + 1
    BY <1>1, <2>1, <2>2
  <2> HIDE DEF old, l, k, last
  <2>4. /\ old \in Nat \ {0} /\ k - 1 \in Nat /\ old <= (k - 1) + 1 /\ k - 1 <= last
        /\ (k - 1) - old + 1 = l /\ old + 0 = old
    BY <2>3
  <2> QED
    BY <2>3, <2>4 DEF k, last
<1>3. /\ line \in Seq(Message) /\ Len(line) = l
      /\ \A i \in 1..l : line[i] = <<s, old + i - 1>>
  <2> DEFINE last == im.k - 1
  <2>1. last \in Nat /\ old <= last + 1 /\ last <= Len(Published[s]) /\ last - old + 1 = l
    BY <1>2
  <2>3. old \in Nat \ {0}
    BY <1>2
  <2> HIDE DEF last, old, l
  <2>2. /\ Run(s, old, last) \in Seq(Message) /\ Len(Run(s, old, last)) = l
        /\ \A i \in 1..l : Run(s, old, last)[i] = <<s, old + i - 1>>
    <3>1. /\ Run(s, old, last) \in Seq(Message) /\ Len(Run(s, old, last)) = last - old + 1
          /\ \A i \in 1 .. last - old + 1 : Run(s, old, last)[i] = <<s, old + i - 1>>
      BY <2>1, <2>3, RunIsSeq
    <3> QED
      BY <3>1, <2>1
  <2> QED
    BY <2>2 DEF last
<1>4. /\ SubSeq(line, 1, n) = first /\ SubSeq(line, n + 1, Len(line)) = Run(s, old + n, im.k - 1)
  <2> DEFINE last == im.k - 1
  <2>1. /\ last \in Nat /\ old <= last + 1 /\ last <= Len(Published[s])
        /\ n \in 0 .. last - old + 1
    BY <1>2
  <2>3. old \in Nat \ {0}
    BY <1>2
  <2> HIDE DEF last, old, l
  <2>2. Splits(s, old, last, n)
    BY <2>1, <2>3, RunSplits
  <2> QED
    BY <2>2 DEF last, Splits
<1>5. PICK end : Marks(d.bytes, line, d.running, end)
  BY <1>2 DEF Reassembled, Laid
<1>6. b = end[n]
  <2>1. \A i \in 1..Len(line) : d.lengths[i] = Size(line[i])
    BY <1>3 DEF Reassembled
  <2>2. n \in 0..Len(line) /\ Len(d.lengths) = Len(line)
    BY <1>1, <1>3
  <2> HIDE DEF line
  <2>3. /\ d.lengths \in Seq(Nat) /\ d.bytes \in Seq(Byte) /\ line \in Seq(Message)
        /\ d.running \in Nat
    BY <1>1, <1>3
  <2> QED
    BY <2>1, <2>2, <2>3, <1>5, MarksAreBytes
<1> HIDE DEF line, old
<1>7. /\ Laid(front, first, 0) /\ front \in Seq(Byte) /\ Len(front) = b
      /\ first \in Seq(Message) /\ Len(first) = n
  <2>1. /\ Laid(SubSeq(d.bytes, 1, end[n]), SubSeq(line, 1, n), 0)
        /\ SubSeq(d.bytes, 1, end[n]) \in Seq(Byte) /\ Len(SubSeq(d.bytes, 1, end[n])) = end[n]
        /\ SubSeq(line, 1, n) \in Seq(Message) /\ Len(SubSeq(line, 1, n)) = n
    BY <1>1, <1>3, <1>5, MarksFront
  <2> QED
    BY <2>1, <1>4, <1>6
<1>8. /\ Laid(back, Run(s, old + n, im.k - 1), d.running)
      /\ back \in Seq(Byte) /\ Len(back) = Len(d.bytes) - b
  <2>1. /\ Laid(SubSeq(d.bytes, end[n] + 1, Len(d.bytes)), SubSeq(line, n + 1, Len(line)), d.running)
        /\ SubSeq(d.bytes, end[n] + 1, Len(d.bytes)) \in Seq(Byte)
        /\ Len(SubSeq(d.bytes, end[n] + 1, Len(d.bytes))) = Len(d.bytes) - end[n]
    BY <1>1, <1>3, <1>5, MarksBack
  <2> QED
    BY <2>1, <1>4, <1>6
<1>9. b \in Nat /\ b <= Len(d.bytes) - d.running
  BY <1>1, <1>3, <1>5, <1>6, EndsAreInRange
<1>10. /\ d2.lengths = d.lengths /\ d2.bytes = back /\ d2.running = d.running
  BY DEF Rings
<1> HIDE DEF d2
<1>11. Reassembled(s, im, d2, n)
  <2>1. Oldest(im, d2) = old
    BY <1>10 DEF Oldest, old
  <2>2. /\ Oldest(im, d2) >= 1 /\ n \in 0..Len(d2.lengths) /\ d2.running = im.at
        /\ \A i \in 1..Len(d2.lengths) : d2.lengths[i] = Size(<<s, Oldest(im, d2) + i - 1>>)
    BY <2>1, <1>10 DEF Reassembled, old
  <2>3. Laid(d2.bytes, Run(s, Oldest(im, d2) + n, im.k - 1), d2.running)
    BY <2>1, <1>8, <1>10
  <2>4. ASSUME NEW p \in Len(d2.bytes) - d2.running + 1 .. Len(d2.bytes)
        PROVE  d2.bytes[p] = <<s, im.k>>
    <3> DEFINE all == Len(d.bytes)
    <3> HIDE DEF b
    <3>1. p \in all - b - d.running + 1 .. all - b /\ all \in Nat
      BY <1>1, <1>8, <1>10
    <3>2. b + p \in all - d.running + 1 .. all /\ p \in 1 .. all - (b + 1) + 1
          /\ b + 1 + p - 1 = b + p /\ b + 1 \in Int
      <4> DEFINE r == d.running
      <4>1. /\ p \in all - b - r + 1 .. all - b /\ all \in Nat /\ r \in Nat
            /\ b \in Nat /\ b <= all - r
        BY <3>1, <1>9, <1>1
      <4> HIDE DEF all, r
      <4>2. b + p \in all - r + 1 .. all /\ p \in 1 .. all - (b + 1) + 1
            /\ b + 1 + p - 1 = b + p /\ b + 1 \in Int
        BY <4>1
      <4> QED
        BY <4>2 DEF r
    <3>3. back[p] = d.bytes[b + p]
      <4>1. \A i \in b + 1 .. all : d.bytes[i] \in Byte
        BY <1>1, <1>9, ElementOfSeq
      <4>2. \A i \in 1 .. all - (b + 1) + 1 : SubSeq(d.bytes, b + 1, all)[i] = d.bytes[b + 1 + i - 1]
        <5> DEFINE c == b + 1
        <5>1. c \in Int /\ all \in Int /\ \A i \in c .. all : d.bytes[i] \in Byte
          BY <4>1, <3>1, <3>2
        <5> HIDE DEF all, c
        <5>2. \A i \in 1 .. all - c + 1 : SubSeq(d.bytes, c, all)[i] = d.bytes[c + i - 1]
          BY <5>1, SubSeqProperties
        <5> QED
          BY <5>2 DEF c
      <4> QED
        BY <4>2, <3>2 DEF b
    <3>4. d.bytes[b + p] = <<s, im.k>>
      BY <3>2 DEF Reassembled
    <3> QED
      BY <3>3, <3>4, <1>10
  <2> QED
    BY <2>2, <2>3, <2>4 DEF Reassembled
<1>12. Len(back) \in Nat /\ Len(back) <= Len(d.bytes)
  <2> HIDE DEF back, b
  <2> QED
    BY <1>1, <1>8, <1>9
<1> QED
  BY <1>7, <1>8, <1>11, <1>12 DEF d2, old, FrontBytes, BackBytes

LEMMA LineOfSessions ==
  ASSUME NEW line \in Seq(Message)
  PROVE  /\ Len(line) \in Nat
         /\ \A j \in 1..Len(line) :
              /\ line[j] \in Message /\ line[j][1] \in Sessions /\ line[j][2] \in Nat
              /\ line[j] = <<line[j][1], line[j][2]>> /\ line[j][2] > 0
<1>1. \A j \in 1..Len(line) : line[j] \in Message
  BY ElementOfSeq
<1>2. \A m \in Message : /\ m[1] \in Sessions /\ m[2] \in Nat /\ m = <<m[1], m[2]>>
                         /\ m[2] \in 1..Len(Published[m[1]])
  BY DEF Message, Byte
<1>3. \A m \in Message : m[2] > 0
  BY <1>2, PublishedLengths
<1> QED
  BY <1>1, <1>2, <1>3

LEMMA FlushPayloadStep == ASSUME Inv, FlushPayload PROVE Inv'
<1>t. /\ TypeOK /\ Placed /\ RoomLeft /\ ChannelFits /\ Turns /\ RingsInOrder /\ Flows
      /\ Delivered
  BY DEF Inv
<1>v. sub.at = "turn"
  BY DEF FlushPayload
<1>y. /\ ready \in Seq(Sessions) /\ sub.left \in Nat /\ Len(ready) \in Nat
      /\ control \in Seq([session : Sessions, length : Nat]) /\ Len(control) \in Nat
      /\ payload \in Seq(Byte) /\ Len(payload) \in Nat
  BY <1>t, SubFields DEF TypeOK
<1>x. sub.left \in 1..Len(ready) /\ Head(ready) \in Sessions
  <2>1. sub.left \in 1..Len(ready)
    BY <1>t, <1>v DEF Turns
  <2>2. ready # <<>>
    BY <2>1, <1>y
  <2> QED
    BY <2>1, <2>2, <1>y, HeadTailProperties
<1>1. PICK s \in Sessions : s = Head(ready)
  BY <1>x
<1>d. PICK im, d : im = image[s] /\ d = defrag[s]
  OBVIOUS
<1>n. PICK n, old : n = Whole(d.lengths) /\ old = Oldest(im, d)
  OBVIOUS
<1>b. PICK b : b = Bytes(d.lengths)[n]
  OBVIOUS
<1>e. PICK front, back, first : /\ front = SubSeq(d.bytes, 1, b)
                                /\ back = SubSeq(d.bytes, b + 1, Len(d.bytes))
                                /\ first = Run(s, old, old + n - 1)
  OBVIOUS
<1>k. PICK d2 : d2 = Rings(d.lengths, back, d.running)
  OBVIOUS
<1>u. /\ sub.at = "turn" /\ n > 0 /\ payload' = Push(payload, front, PayloadCapacity)
      /\ defrag' = [defrag EXCEPT ![s] = d2] /\ sub' = Sub("pushed", sub.left, FALSE, n)
      /\ image' = image /\ known' = known /\ ready' = ready /\ control' = control
      /\ received' = received /\ stop' = stop
  BY <1>1, <1>d, <1>n, <1>b, <1>e, <1>k DEF FlushPayload
<1>g. Pushed = 0 /\ \A r : Gone(r) = 0
  BY <1>u DEF Pushed, Gone
<1>2. /\ im \in [k : Nat \ {0}, at : Nat]
      /\ d \in [lengths : Seq(Nat), bytes : Seq(Byte), running : Nat]
      /\ d.lengths \in Seq(Nat) /\ d.bytes \in Seq(Byte) /\ Len(d.lengths) \in Nat
      /\ Len(d.bytes) \in Nat /\ d.running \in Nat /\ im.k \in Nat
  BY <1>d, <1>t, SessionFields
<1>3. /\ Reassembled(s, im, d, 0) /\ im.k <= Len(Published[s]) + 1
      /\ Len(d.lengths) <= ControlCapacity /\ Len(d.bytes) <= PayloadCapacity
      /\ s \notin known => d.lengths = <<>>
  <2>1. Reassembled(s, im, d, 0)
    BY <1>d, <1>t, <1>g DEF RingsInOrder
  <2>2. im.k <= Len(Published[s]) + 1
    BY <1>d, <1>t DEF Placed
  <2> QED
    BY <2>1, <2>2, <1>d, <1>t DEF RoomLeft
<1>4. /\ n \in 0..Len(d.lengths) /\ Len(control) + n <= ControlCapacity
      /\ b <= PayloadCapacity - Len(payload)
  <2>1. Len(control) <= ControlCapacity /\ Len(payload) <= PayloadCapacity
    BY <1>t, <1>g, <1>y DEF ChannelFits
  <2> DEFINE lengths == d.lengths
  <2>2. lengths \in Seq(Nat)
    BY <1>2
  <2> HIDE DEF lengths
  <2>3. /\ Whole(lengths) \in 0..Len(lengths)
        /\ Len(control) + Whole(lengths) <= ControlCapacity
        /\ Bytes(lengths)[Whole(lengths)] <= PayloadCapacity - Len(payload)
    BY <2>1, <2>2, <1>y, WholeFits
  <2> QED
    BY <2>3, <1>n, <1>b DEF lengths
<1>o. old \in Nat \ {0} /\ old = im.k - Len(d.lengths)
  <2>1. old = im.k - Len(d.lengths) /\ old >= 1
    BY <1>n, <1>3 DEF Reassembled, Oldest
  <2> QED
    BY <2>1, <1>2
<1>5. /\ front \in Seq(Byte) /\ Len(front) = b /\ Laid(front, first, 0)
      /\ first \in Seq(Message) /\ Len(first) = n
      /\ back \in Seq(Byte) /\ Len(back) \in Nat /\ Len(back) <= Len(d.bytes)
      /\ Reassembled(s, im, d2, n)
  <2>1. /\ im \in [k : Nat \ {0}, at : Nat] /\ Reassembled(s, im, d, 0)
        /\ d \in [lengths : Seq(Nat), bytes : Seq(Byte), running : Nat]
        /\ im.k <= Len(Published[s]) + 1 /\ n \in 0..Len(d.lengths)
    BY <1>2, <1>3, <1>4
  <2>2. front = FrontBytes(d, n) /\ back = BackBytes(d, n)
    BY <1>b, <1>e DEF FrontBytes, BackBytes
  <2>3. /\ FrontBytes(d, n) \in Seq(Byte) /\ Len(FrontBytes(d, n)) = Bytes(d.lengths)[n]
         /\ Laid(FrontBytes(d, n), Run(s, Oldest(im, d), Oldest(im, d) + n - 1), 0)
         /\ Run(s, Oldest(im, d), Oldest(im, d) + n - 1) \in Seq(Message)
         /\ Len(Run(s, Oldest(im, d), Oldest(im, d) + n - 1)) = n
         /\ BackBytes(d, n) \in Seq(Byte)
         /\ Len(BackBytes(d, n)) \in Nat /\ Len(BackBytes(d, n)) <= Len(d.bytes)
         /\ Reassembled(s, im, Rings(d.lengths, BackBytes(d, n), d.running), n)
    BY <2>1, TakeFromRing
  <2> QED
    BY <2>3, <2>2, <1>b, <1>e, <1>k, <1>n
<1>f. \A i \in 1..n : first[i] = <<s, old + i - 1>>
  <2>1. (old + n - 1) - old + 1 = n
    BY <1>o, <1>4, <1>2
  <2> QED
    BY <2>1, <1>e DEF Run
<1>6. payload' = payload \o front /\ Len(payload) + Len(front) <= PayloadCapacity
  <2>1. Len(front) \in Nat
    BY <1>5
  <2>2. Len(payload) + Len(front) <= PayloadCapacity
    BY <2>1, <1>4, <1>5, <1>y, Capacities
  <2> QED
    BY <2>2, <1>u, <1>5, <1>y, Capacities, PushFits
<1>7. /\ payload' \in Seq(Byte) /\ Len(payload') = Len(payload) + Len(front)
  BY <1>5, <1>6, <1>y, ConcatProperties
<1>8. /\ d2.lengths = d.lengths /\ d2.bytes = back /\ d2.running = d.running
      /\ d2 \in [lengths : Seq(Nat), bytes : Seq(Byte), running : Nat]
  BY <1>2, <1>5, <1>k DEF Rings
<1>9. /\ defrag'[s] = d2 /\ \A r \in Sessions \ {s} : defrag'[r] = defrag[r]
      /\ defrag' \in [Sessions -> [lengths : Seq(Nat), bytes : Seq(Byte), running : Nat]]
      /\ \A r \in Sessions : defrag'[r].lengths = defrag[r].lengths
  <2>1. defrag \in [Sessions -> [lengths : Seq(Nat), bytes : Seq(Byte), running : Nat]]
    BY <1>t DEF TypeOK
  <2>2. /\ defrag'[s] = d2 /\ \A r \in Sessions \ {s} : defrag'[r] = defrag[r]
        /\ defrag' \in [Sessions -> [lengths : Seq(Nat), bytes : Seq(Byte), running : Nat]]
    BY <2>1, <1>8, <1>u
  <2> QED
    BY <2>2, <1>8, <1>d
<1>10. /\ sub'.at = "pushed" /\ sub'.left = sub.left /\ sub'.count = n /\ sub' \in SubState
       /\ n \in Nat
  <2>1. n \in Nat
    BY <1>4, <1>2
  <2> QED
    BY <2>1, <1>u, <1>y DEF Sub, SubState
<1>p. Pushed' = n /\ Gone(s)' = n /\ \A r : r # s => Gone(r)' = 0
  BY <1>1, <1>10, <1>u DEF Pushed, Gone
<1>w. /\ Upcoming(s) = old /\ Upcoming(s)' = old + n
      /\ \A r \in Sessions : r # s => Upcoming(r)' = Upcoming(r)
      /\ \A r \in Sessions : Oldest(image'[r], defrag'[r]) = Oldest(image[r], defrag[r])
      /\ \A r \in Sessions : Upcoming(r) \in Int
  <2>1. \A r \in Sessions : Oldest(image'[r], defrag'[r]) = Oldest(image[r], defrag[r])
    BY <1>9, <1>u DEF Oldest
  <2>2. \A r \in Sessions : Oldest(image[r], defrag[r]) \in Int
    BY <1>t, SessionFields DEF Oldest
  <2>3. Oldest(image[s], defrag[s]) = old
    BY <1>d, <1>n
  <2>4. \A r \in Sessions : Upcoming(r) = Oldest(image[r], defrag[r])
    BY <2>2, <1>g DEF Upcoming
  <2>5. \A r \in Sessions : Upcoming(r)' = Oldest(image'[r], defrag'[r]) + Gone(r)'
    BY DEF Upcoming
  <2>6. \A r \in Sessions : r # s => Upcoming(r)' = Upcoming(r)
    BY <2>1, <2>2, <2>4, <2>5, <1>p
  <2> QED
    BY <2>1, <2>2, <2>3, <2>4, <2>5, <2>6, <1>p
<1>11. TypeOK'
  BY <1>t, <1>u, <1>7, <1>9, <1>10 DEF TypeOK
<1>12. Placed' /\ Turns'
  BY <1>t, <1>u, <1>x, <1>10 DEF Placed, Turns
<1>13. RoomLeft'
  <2> SUFFICES ASSUME NEW r \in Sessions
               PROVE  /\ Len(defrag'[r].lengths) <= ControlCapacity
                      /\ Len(defrag'[r].bytes) <= PayloadCapacity
                      /\ r \notin known => defrag'[r].lengths = <<>> /\ defrag'[r].bytes = <<>>
    BY <1>10, <1>u DEF RoomLeft
  <2>1. CASE r = s
    <3>1. s \in known
      <4>1. Len(d.lengths) # 0
        BY <1>4, <1>u, <1>2
      <4>2. d.lengths # <<>>
        BY <4>1
      <4> QED
        BY <4>2, <1>3
    <3>2. Len(back) <= PayloadCapacity
      BY <1>2, <1>3, <1>5, Capacities
    <3> QED
      BY <2>1, <3>1, <3>2, <1>3, <1>8, <1>9
  <2>2. CASE r # s
    BY <2>2, <1>9, <1>t DEF RoomLeft
  <2> QED
    BY <2>1, <2>2
<1>14. ChannelFits'
  BY <1>4, <1>6, <1>7, <1>p, <1>u, <1>y DEF ChannelFits
<1>15. RingsInOrder'
  <2> SUFFICES ASSUME NEW r \in Sessions
               PROVE  Reassembled(r, image'[r], defrag'[r], Gone(r)')
    BY DEF RingsInOrder
  <2>1. CASE r = s
    BY <2>1, <1>5, <1>9, <1>p, <1>u, <1>d
  <2>2. CASE r # s
    BY <2>2, <1>9, <1>p, <1>u, <1>g, <1>t DEF RingsInOrder
  <2> QED
    BY <2>1, <2>2
<1>16. Flows'
  <2>1. PICK line \in Seq(Message) : InFlight(line)
    BY <1>t DEF Flows
  <2> DEFINE more == line \o first
             m == Len(line)
  <2>2. /\ more \in Seq(Message) /\ Len(more) = m + n /\ m \in Nat /\ m = Len(control)
        /\ \A j \in 1..m : more[j] = line[j]
        /\ \A i \in 1..n : more[m + i] = <<s, old + i - 1>>
    <3>1. m \in Nat /\ m = Len(control)
      BY <2>1, <1>g, <1>y DEF InFlight
    <3>2. /\ more \in Seq(Message) /\ Len(more) = m + n
          /\ \A j \in 1 .. m + n : more[j] = IF j <= m THEN line[j] ELSE first[j - m]
      <4>1. \A x, y \in Seq(Message) :
              /\ x \o y \in Seq(Message) /\ Len(x \o y) = Len(x) + Len(y)
              /\ \A j \in 1 .. Len(x) + Len(y) : (x \o y)[j] = IF j <= Len(x) THEN x[j] ELSE y[j - Len(x)]
        BY ConcatProperties
      <4>2. line \in Seq(Message) /\ first \in Seq(Message) /\ Len(first) = n
        BY <2>1, <1>5
      <4>3. /\ line \o first \in Seq(Message) /\ Len(line \o first) = Len(line) + Len(first)
            /\ \A j \in 1 .. Len(line) + Len(first) :
                 (line \o first)[j] = IF j <= Len(line) THEN line[j] ELSE first[j - Len(line)]
        BY <4>1, <4>2
      <4> QED
        BY <4>2, <4>3
    <3> HIDE DEF more, m
    <3>3. \A j \in 1..m : j \in 1 .. m + n /\ j <= m
      BY <3>1, <1>10
    <3>4. \A i \in 1..n : m + i \in 1 .. m + n /\ ~(m + i <= m) /\ (m + i) - m = i
      BY <3>1, <1>10
    <3>5. \A j \in 1..m : more[j] = line[j]
      BY <3>2, <3>3
    <3>6. \A i \in 1..n : more[m + i] = first[i]
      BY <3>2, <3>4
    <3> QED
      BY <3>1, <3>2, <3>5, <3>6, <1>f
  <2>3. Laid(payload', more, 0)
    BY <2>1, <1>5, <1>6, <1>y, LaidJoin DEF InFlight
  <2>l. \A j \in 1..m : /\ line[j] \in Message /\ line[j][1] \in Sessions /\ line[j][2] \in Nat
                        /\ line[j][2] > Len(received[line[j][1]])
                        /\ line[j][2] < Upcoming(line[j][1])
    BY <2>1, LineOfSessions DEF InFlight, InTurn
  <2>i. \A j \in 1 .. m + n : j \in 1..m \/ (j - m \in 1..n /\ j = m + (j - m))
    BY <2>2, <1>10
  <2>r. Len(received[s]) \in Nat /\ Len(received[s]) < old
    BY <1>t, <1>w, SessionFields DEF Delivered
  <2> HIDE DEF more, m
  <2>n. \A i \in 1..n : more[m + i][1] = s /\ more[m + i][2] = old + i - 1 /\ old + i - 1 \in Nat
    <3>1. \A i \in 1..n : old + i - 1 \in Nat
      BY <1>o, <1>10
    <3>2. \A i \in 1..n : more[m + i] = <<s, old + i - 1>>
      BY <2>2
    <3> QED
      BY <3>1, <3>2
  <2>4. ASSUME NEW i \in 1 .. m + n, NEW j \in 1 .. m + n, i < j, more[i][1] = more[j][1]
        PROVE  more[i][2] < more[j][2]
    <3>1. CASE i \in 1..m /\ j \in 1..m
      BY <3>1, <2>4, <2>1, <2>2 DEF InFlight, InTurn, m
    <3>2. CASE i \in 1..m /\ j - m \in 1..n
      <4>1. more[i] = line[i] /\ line[i][2] \in Nat /\ line[i][2] < Upcoming(line[i][1])
        BY <3>2, <2>2, <2>l
      <4>2. more[j][1] = s /\ more[j][2] = old + (j - m) - 1
        BY <3>2, <2>i, <2>n, <2>2
      <4>3. line[i][2] < old
        BY <4>1, <4>2, <2>4, <1>w
      <4> QED
        BY <4>1, <4>2, <4>3, <3>2, <1>o
    <3>3. CASE i - m \in 1..n /\ j - m \in 1..n
      <4>1. /\ more[i][2] = old + (i - m) - 1 /\ more[j][2] = old + (j - m) - 1
        <5>1. i = m + (i - m) /\ j = m + (j - m)
          BY <2>2
        <5> QED
          BY <5>1, <3>3, <2>n
      <4> QED
        BY <4>1, <2>4, <2>2, <1>o
    <3>4. i \in 1..m \/ j - m \in 1..n
      BY <2>i, <2>4, <2>2
    <3>5. ~(i - m \in 1..n /\ j \in 1..m)
      BY <2>4, <2>2, <1>10
    <3> QED
      BY <3>1, <3>2, <3>3, <3>5, <2>i
  <2>5. ASSUME NEW j \in 1 .. m + n
        PROVE  /\ more[j][2] > Len(received'[more[j][1]])
               /\ more[j][2] < Upcoming(more[j][1])'
    <3>1. CASE j \in 1..m
      <4>1. /\ more[j] = line[j] /\ line[j][1] \in Sessions /\ line[j][2] \in Nat
            /\ line[j][2] > Len(received[line[j][1]]) /\ line[j][2] < Upcoming(line[j][1])
        BY <3>1, <2>2, <2>l
      <4>2. line[j][2] < Upcoming(line[j][1])'
        <5>1. CASE line[j][1] = s
          BY <5>1, <4>1, <1>w, <1>o, <1>10
        <5>2. CASE line[j][1] # s
          BY <5>2, <4>1, <1>w
        <5> QED
          BY <5>1, <5>2
      <4> QED
        BY <4>1, <4>2, <1>u
    <3>2. CASE j - m \in 1..n
      <4>1. more[j][1] = s /\ more[j][2] = old + (j - m) - 1
        BY <3>2, <2>i, <2>n, <2>2
      <4>2. /\ old + (j - m) - 1 > Len(received[s]) /\ old + (j - m) - 1 < old + n
        BY <3>2, <2>r, <1>o, <1>10
      <4> QED
        BY <4>1, <4>2, <1>w, <1>u
    <3> QED
      BY <3>1, <3>2, <2>i
  <2>6. ASSUME NEW r \in Sessions, NEW k \in Len(received'[r]) + 1 .. Upcoming(r)' - 1
        PROVE  \E j \in 1 .. m + n : more[j] = <<r, k>>
    <3>1. CASE k \in Len(received[r]) + 1 .. Upcoming(r) - 1
      <4>1. PICK j \in 1..m : line[j] = <<r, k>>
        BY <3>1, <2>1 DEF InFlight, InTurn, m
      <4>2. j \in 1 .. m + n /\ more[j] = <<r, k>>
        BY <4>1, <2>2, <1>10
      <4> QED
        BY <4>2
    <3>2. CASE r = s /\ k >= old
      <4> DEFINE i == k - old + 1
      <4>1. i \in 1..n /\ old + i - 1 = k
        <5>1. k \in Int /\ k >= old /\ k <= (old + n) - 1
          BY <3>2, <1>w, <1>u, <2>r
        <5> QED
          BY <5>1, <1>o, <1>10
      <4> HIDE DEF i
      <4>2. more[m + i] = <<r, k>> /\ m + i \in 1 .. m + n
        BY <4>1, <3>2, <2>2, <1>10
      <4> QED
        BY <4>2
    <3>3. k \in Len(received[r]) + 1 .. Upcoming(r) - 1 \/ (r = s /\ k >= old)
      <4>1. Len(received[r]) \in Nat /\ received' = received
        BY <1>t, <1>u, SessionFields
      <4>2. CASE r # s
        BY <4>1, <4>2, <1>w
      <4>3. CASE r = s
        <5>1. k \in Len(received[s]) + 1 .. (old + n) - 1
          BY <4>1, <4>3, <1>w
        <5> QED
          BY <5>1, <4>1, <4>3, <1>w, <1>o, <1>10
      <4> QED
        BY <4>2, <4>3
    <3> QED
      BY <3>1, <3>2, <3>3
  <2>7. InTurn(more)'
    BY <2>2, <2>4, <2>5, <2>6 DEF InTurn
  <2>8. InFlight(more)'
    <3>1. Len(more) = Len(control') + Pushed'
      BY <2>2, <1>u, <1>p
    <3>2. \A j \in 1..Len(control') :
            control'[j] = [session |-> more[j][1], length |-> Size(more[j])]
      BY <2>1, <2>2, <1>u DEF InFlight
    <3>3. \A i \in 1..Pushed' :
            more[Len(control') + i] = <<Head(ready'), Oldest(image'[Head(ready')], defrag'[Head(ready')]) + i - 1>>
      <4>1. Oldest(image'[s], defrag'[s]) = old
        BY <1>w, <1>d, <1>n
      <4> QED
        BY <4>1, <2>2, <1>u, <1>p, <1>1
    <3> QED
      BY <3>1, <3>2, <3>3, <2>3, <2>7 DEF InFlight
  <2> QED
    BY <2>2, <2>8 DEF Flows
<1>17. Delivered'
  <2> SUFFICES ASSUME NEW r \in Sessions PROVE Len(received[r]) < Upcoming(r)'
    BY <1>t, <1>u DEF Delivered
  <2>1. Len(received[r]) < Upcoming(r) /\ Len(received[r]) \in Nat
    BY <1>t, SessionFields DEF Delivered
  <2>2. CASE r = s
    BY <2>1, <2>2, <1>w, <1>o, <1>10
  <2>3. CASE r # s
    BY <2>1, <2>3, <1>w
  <2> QED
    BY <2>2, <2>3
<1> QED
  BY <1>11, <1>12, <1>13, <1>14, <1>15, <1>16, <1>17 DEF Inv

(* The lengths after those of the first n messages. *)
Rest(d, n) == SubSeq(d.lengths, n + 1, Len(d.lengths))

(* The first n messages of a session are taken out of its lengths. *)
LEMMA LengthsGo ==
  ASSUME NEW s \in Sessions, NEW im \in [k : Nat \ {0}, at : Nat],
         NEW d \in [lengths : Seq(Nat), bytes : Seq(Byte), running : Nat],
         NEW n \in 0..Len(d.lengths), Reassembled(s, im, d, n)
  PROVE  /\ Rest(d, n) \in Seq(Nat) /\ Len(Rest(d, n)) = Len(d.lengths) - n
         /\ Oldest(im, Rings(Rest(d, n), d.bytes, d.running)) = Oldest(im, d) + n
         /\ Reassembled(s, im, Rings(Rest(d, n), d.bytes, d.running), 0)
<1> DEFINE left == Rest(d, n)
           d2 == Rings(left, d.bytes, d.running)
           l == Len(d.lengths)
           old == Oldest(im, d)
<1>1. /\ im.k \in Nat /\ d.lengths \in Seq(Nat) /\ l \in Nat /\ n \in Nat /\ n <= l
  OBVIOUS
<1>2. /\ d2.lengths = left /\ d2.bytes = d.bytes /\ d2.running = d.running
  BY DEF Rings
<1>3. /\ left \in Seq(Nat) /\ Len(left) = l - n
      /\ \A i \in 1 .. l - n : left[i] = d.lengths[n + i]
  <2>1. \A i \in 1..l : d.lengths[i] \in Nat
    BY <1>1, ElementOfSeq
  <2> HIDE DEF l
  <2>2. \A i \in n + 1 .. l : d.lengths[i] \in Nat
    BY <2>1, <1>1
  <2> DEFINE c == n + 1
  <2>3. c \in Int /\ l \in Int /\ \A i \in c .. l : d.lengths[i] \in Nat
    BY <2>2, <1>1
  <2>4. left = SubSeq(d.lengths, c, l)
    BY DEF l, Rest
  <2>5. (IF c <= l THEN l - c + 1 ELSE 0) = l - n /\ l - c + 1 = l - n
    BY <1>1
  <2>c. \A i \in 1 .. l - n : c + i - 1 = n + i
    BY <1>1
  <2> HIDE DEF c
  <2>6. /\ SubSeq(d.lengths, c, l) \in Seq(Nat)
        /\ Len(SubSeq(d.lengths, c, l)) = IF c <= l THEN l - c + 1 ELSE 0
        /\ \A i \in 1 .. l - c + 1 : SubSeq(d.lengths, c, l)[i] = d.lengths[c + i - 1]
    BY <2>3, <2>5, SubSeqProperties
  <2> HIDE DEF left
  <2> QED
    BY <2>4, <2>5, <2>6, <2>c
<1> HIDE DEF left
<1>4. Oldest(im, d2) = old + n /\ old \in Int /\ old >= 1 /\ old = im.k - l
  <2>1. old = im.k - l /\ old >= 1 /\ Oldest(im, d2) = im.k - Len(left)
    BY <1>2 DEF Oldest, Reassembled
  <2> HIDE DEF old, l, d2
  <2> QED
    BY <2>1, <1>1, <1>3
<1>5. Reassembled(s, im, d2, 0)
  <2>1. Oldest(im, d2) >= 1 /\ 0 \in 0..Len(d2.lengths) /\ d2.running = im.at
    <3>1. d2.running = im.at
      BY <1>2 DEF Reassembled
    <3> HIDE DEF old, l, d2
    <3>2. Oldest(im, d2) >= 1
      BY <1>1, <1>4
    <3>3. Len(d2.lengths) \in Nat
      BY <1>2, <1>3
    <3> QED
      BY <3>1, <3>2, <3>3
  <2>2. ASSUME NEW i \in 1..Len(d2.lengths)
        PROVE  d2.lengths[i] = Size(<<s, Oldest(im, d2) + i - 1>>)
    <3>1. \A j \in 1..l : d.lengths[j] = Size(<<s, old + j - 1>>)
      BY DEF Reassembled
    <3> HIDE DEF old, l, d2
    <3>2. n + i \in 1..l /\ i \in 1 .. l - n /\ old + (n + i) - 1 = (old + n) + i - 1
      <4>1. Len(d2.lengths) = l - n /\ l \in Nat /\ n \in Nat /\ n <= l /\ old \in Int
        BY <1>1, <1>2, <1>3, <1>4
      <4>2. i \in 1 .. l - n
        BY <4>1
      <4> QED
        BY <4>1, <4>2
    <3>3. d2.lengths[i] = d.lengths[n + i]
      BY <3>2, <1>2, <1>3
    <3>4. d.lengths[n + i] = Size(<<s, old + (n + i) - 1>>)
      BY <3>1, <3>2
    <3>5. Oldest(im, d2) = old + n
      BY <1>4
    <3> QED
      BY <3>2, <3>3, <3>4, <3>5
  <2>3. Laid(d2.bytes, Run(s, Oldest(im, d2) + 0, im.k - 1), d2.running)
    <3>1. Laid(d.bytes, Run(s, old + n, im.k - 1), d.running)
      BY DEF Reassembled
    <3> HIDE DEF old, d2
    <3>2. Oldest(im, d2) + 0 = old + n
      BY <1>4, <1>1
    <3> QED
      BY <3>1, <3>2, <1>2
  <2>4. \A p \in Len(d2.bytes) - d2.running + 1 .. Len(d2.bytes) : d2.bytes[p] = <<s, im.k>>
    BY <1>2 DEF Reassembled
  <2> HIDE DEF d2
  <2> QED
    BY <2>1, <2>2, <2>3, <2>4 DEF Reassembled
<1> QED
  BY <1>3, <1>4, <1>5 DEF left

LEMMA FlushItemsStep == ASSUME Inv, FlushItems PROVE Inv'
<1>t. /\ TypeOK /\ Placed /\ RoomLeft /\ ChannelFits /\ Turns /\ RingsInOrder /\ Flows
      /\ Delivered
  BY DEF Inv
<1>v. sub.at = "pushed"
  BY DEF FlushItems
<1>y. /\ ready \in Seq(Sessions) /\ sub.left \in Nat /\ Len(ready) \in Nat /\ sub.count \in Nat
      /\ control \in Seq([session : Sessions, length : Nat]) /\ Len(control) \in Nat
  BY <1>t, SubFields DEF TypeOK
<1>x. sub.left \in 1..Len(ready) /\ Head(ready) \in Sessions /\ ready # <<>>
  <2>1. sub.left \in 1..Len(ready)
    BY <1>t, <1>v DEF Turns
  <2>2. ready # <<>>
    BY <2>1, <1>y
  <2> QED
    BY <2>1, <2>2, <1>y, HeadTailProperties
<1>1. PICK s \in Sessions : s = Head(ready)
  BY <1>x
<1>d. PICK im, d, n : im = image[s] /\ d = defrag[s] /\ n = sub.count
  OBVIOUS
<1>e. PICK left : left = SubSeq(d.lengths, n + 1, Len(d.lengths))
  OBVIOUS
<1>k. PICK d2, items : /\ d2 = Rings(left, d.bytes, d.running)
                       /\ items = [i \in 1..n |-> [session |-> s, length |-> d.lengths[i]]]
  OBVIOUS
<1>u. /\ control' = control \o items /\ defrag' = [defrag EXCEPT ![s] = d2]
      /\ ready' = Requeued(s, left) /\ sub' = Turn(sub.left - 1)
      /\ image' = image /\ known' = known /\ payload' = payload
      /\ received' = received /\ stop' = stop
  BY <1>1, <1>d, <1>e, <1>k DEF FlushItems
<1>g. Pushed = n /\ Gone(s) = n /\ \A r : r # s => Gone(r) = 0
  BY <1>v, <1>1, <1>d DEF Pushed, Gone
<1>2. /\ im \in [k : Nat \ {0}, at : Nat]
      /\ d \in [lengths : Seq(Nat), bytes : Seq(Byte), running : Nat]
      /\ d.lengths \in Seq(Nat) /\ d.bytes \in Seq(Byte) /\ Len(d.lengths) \in Nat
      /\ Len(d.bytes) \in Nat /\ d.running \in Nat /\ im.k \in Nat /\ n \in Nat
  BY <1>d, <1>t, <1>y, SessionFields
<1>3. /\ Reassembled(s, im, d, n) /\ n \in 0..Len(d.lengths)
      /\ Len(d.lengths) <= ControlCapacity /\ Len(d.bytes) <= PayloadCapacity
      /\ s \notin known => d.lengths = <<>> /\ d.bytes = <<>>
  <2>1. Reassembled(s, im, d, n)
    BY <1>d, <1>t, <1>g DEF RingsInOrder
  <2> QED
    BY <2>1, <1>d, <1>t DEF RoomLeft, Reassembled
<1>o. PICK old : old = Oldest(im, d) /\ old \in Nat
  <2>1. Oldest(im, d) = im.k - Len(d.lengths) /\ Oldest(im, d) >= 1
    BY <1>3 DEF Reassembled, Oldest
  <2>2. Oldest(im, d) \in Nat
    BY <2>1, <1>2
  <2> QED
    BY <2>2
<1>4. /\ left \in Seq(Nat) /\ Len(left) = Len(d.lengths) - n
      /\ Oldest(im, d2) = old + n /\ Reassembled(s, im, d2, 0)
  <2>1. /\ Rest(d, n) \in Seq(Nat) /\ Len(Rest(d, n)) = Len(d.lengths) - n
        /\ Oldest(im, Rings(Rest(d, n), d.bytes, d.running)) = Oldest(im, d) + n
        /\ Reassembled(s, im, Rings(Rest(d, n), d.bytes, d.running), 0)
    <3>1. /\ im \in [k : Nat \ {0}, at : Nat] /\ n \in 0..Len(d.lengths)
          /\ d \in [lengths : Seq(Nat), bytes : Seq(Byte), running : Nat]
          /\ Reassembled(s, im, d, n)
      BY <1>2, <1>3
    <3> QED
      BY <3>1, LengthsGo
  <2>2. left = Rest(d, n)
    BY <1>e DEF Rest
  <2> QED
    BY <2>1, <2>2, <1>k, <1>o
<1>5. /\ items \in Seq([session : Sessions, length : Nat]) /\ Len(items) = n
      /\ \A i \in 1..n : items[i] = [session |-> s, length |-> d.lengths[i]]
  <2>1. \A i \in 1..n : i \in 1..Len(d.lengths)
    BY <1>3, <1>2
  <2>2. \A i \in 1..n : d.lengths[i] \in Nat
    BY <2>1, <1>2, ElementOfSeq
  <2>3. \A i \in 1..n : [session |-> s, length |-> d.lengths[i]] \in [session : Sessions, length : Nat]
    BY <2>2
  <2>4. items \in [1..n -> [session : Sessions, length : Nat]]
    BY <2>3, <1>k
  <2> QED
    BY <2>4, <1>2, <1>k
<1>6. /\ control' \in Seq([session : Sessions, length : Nat])
      /\ Len(control') = Len(control) + n
      /\ \A j \in 1..Len(control) : control'[j] = control[j]
      /\ \A i \in 1..n : control'[Len(control) + i] = [session |-> s, length |-> d.lengths[i]]
  <2> DEFINE Item == [session : Sessions, length : Nat]
             c == Len(control)
  <2>1. \A x, y \in Seq(Item) :
          /\ x \o y \in Seq(Item) /\ Len(x \o y) = Len(x) + Len(y)
          /\ \A j \in 1 .. Len(x) + Len(y) : (x \o y)[j] = IF j <= Len(x) THEN x[j] ELSE y[j - Len(x)]
    BY ConcatProperties
  <2>2. control \in Seq(Item) /\ items \in Seq(Item)
    BY <1>5, <1>y
  <2>3. /\ control' \in Seq(Item) /\ Len(control') = c + n
        /\ \A j \in 1 .. c + n : control'[j] = IF j <= c THEN control[j] ELSE items[j - c]
    BY <2>1, <2>2, <1>5, <1>u
  <2>4. c \in Nat
    BY <1>y
  <2> HIDE DEF Item, c
  <2>5. \A j \in 1..c : j \in 1 .. c + n /\ j <= c
    BY <2>4, <1>2
  <2>6. \A i \in 1..n : c + i \in 1 .. c + n /\ ~(c + i <= c) /\ (c + i) - c = i
    BY <2>4, <1>2
  <2>7. /\ \A j \in 1..c : control'[j] = control[j]
        /\ \A i \in 1..n : control'[c + i] = [session |-> s, length |-> d.lengths[i]]
    <3>1. \A j \in 1..c : control'[j] = control[j]
      BY <2>3, <2>5
    <3>2. \A i \in 1..n : control'[c + i] = items[i]
      BY <2>3, <2>6
    <3> QED
      BY <3>1, <3>2, <1>5
  <2> QED
    BY <2>3, <2>7 DEF c, Item
<1>8. /\ d2.lengths = left /\ d2.bytes = d.bytes /\ d2.running = d.running
      /\ d2 \in [lengths : Seq(Nat), bytes : Seq(Byte), running : Nat]
  BY <1>2, <1>4, <1>k DEF Rings
<1>9. /\ defrag'[s] = d2 /\ \A r \in Sessions \ {s} : defrag'[r] = defrag[r]
      /\ defrag' \in [Sessions -> [lengths : Seq(Nat), bytes : Seq(Byte), running : Nat]]
  <2>1. defrag \in [Sessions -> [lengths : Seq(Nat), bytes : Seq(Byte), running : Nat]]
    BY <1>t DEF TypeOK
  <2> QED
    BY <2>1, <1>8, <1>u
<1>10. /\ ready' \in Seq(Sessions) /\ Len(ready') \in Nat /\ Len(ready') >= Len(ready) - 1
  <2>1. Tail(ready) \in Seq(Sessions) /\ Len(Tail(ready)) = Len(ready) - 1
    BY <1>x, <1>y, HeadTailProperties
  <2>2. CASE left = <<>>
    BY <2>1, <2>2, <1>u, <1>y DEF Requeued
  <2>3. CASE left # <<>>
    <3>1. ready' = Append(Tail(ready), s)
      BY <2>3, <1>u DEF Requeued
    <3>2. ready' \in Seq(Sessions) /\ Len(ready') = Len(ready)
      BY <3>1, <2>1, <1>x, <1>y
    <3> QED
      BY <3>2, <1>y
  <2> QED
    BY <2>2, <2>3
<1>11. sub' \in SubState /\ sub'.at # "pushed" /\ sub'.at # "reading" /\ Turns'
  <2>1. CASE sub.left - 1 = 0
    <3>1. sub' = Sub("running", 0, FALSE, 0)
      BY <2>1, <1>u DEF Turn, At
    <3> QED
      BY <3>1 DEF Sub, SubState, Turns
  <2>2. CASE sub.left - 1 # 0
    <3>1. sub' = Sub("turn", sub.left - 1, FALSE, 0)
      BY <2>2, <1>u DEF Turn
    <3>2. sub.left - 1 \in 1..Len(ready') /\ sub.left - 1 \in Nat
      BY <1>x, <1>y, <1>10, <2>2
    <3>3. sub'.at = "turn" /\ sub'.left = sub.left - 1 /\ sub' \in SubState
      BY <3>1, <3>2 DEF Sub, SubState
    <3> QED
      BY <3>2, <3>3 DEF Turns
  <2> QED
    BY <2>1, <2>2
<1>p. Pushed' = 0 /\ \A r : Gone(r)' = 0
  BY <1>11 DEF Pushed, Gone
<1>w. \A r \in Sessions : Upcoming(r)' = Upcoming(r)
  <2>1. \A r \in Sessions : /\ Upcoming(r) = Oldest(image[r], defrag[r]) + Gone(r)
                            /\ Upcoming(r)' = Oldest(image'[r], defrag'[r]) + Gone(r)'
    BY DEF Upcoming
  <2>2. Upcoming(s) = old + n /\ Upcoming(s)' = (old + n) + 0
    BY <2>1, <1>4, <1>9, <1>d, <1>g, <1>o, <1>p, <1>u
  <2>3. \A r \in Sessions : r # s => Upcoming(r)' = Upcoming(r)
    BY <2>1, <1>9, <1>g, <1>p, <1>u
  <2> QED
    BY <2>2, <2>3, <1>2, <1>o
<1>12. TypeOK'
  BY <1>t, <1>u, <1>6, <1>9, <1>10, <1>11 DEF TypeOK
<1>13. Placed'
  BY <1>t, <1>u DEF Placed
<1>14. RoomLeft'
  <2> SUFFICES ASSUME NEW r \in Sessions
               PROVE  /\ Len(defrag'[r].lengths) <= ControlCapacity
                      /\ Len(defrag'[r].bytes) <= PayloadCapacity
                      /\ r \notin known => defrag'[r].lengths = <<>> /\ defrag'[r].bytes = <<>>
    BY <1>11, <1>u DEF RoomLeft
  <2>1. CASE r = s
    <3>1. Len(left) <= ControlCapacity
      BY <1>2, <1>3, <1>4, Capacities
    <3>2. s \notin known => left = <<>>
      <4>1. d.lengths = <<>> => Len(left) = 0
        BY <1>2, <1>3, <1>4
      <4> QED
        BY <4>1, <1>3, <1>4
    <3> QED
      BY <2>1, <3>1, <3>2, <1>3, <1>8, <1>9
  <2>2. CASE r # s
    BY <2>2, <1>9, <1>t DEF RoomLeft
  <2> QED
    BY <2>1, <2>2
<1>15. ChannelFits'
  BY <1>6, <1>p, <1>g, <1>u, <1>y, <1>2, <1>t DEF ChannelFits
<1>16. RingsInOrder'
  <2> SUFFICES ASSUME NEW r \in Sessions
               PROVE  Reassembled(r, image'[r], defrag'[r], Gone(r)')
    BY DEF RingsInOrder
  <2>1. CASE r = s
    BY <2>1, <1>4, <1>9, <1>p, <1>u, <1>d
  <2>2. CASE r # s
    BY <2>2, <1>9, <1>p, <1>u, <1>g, <1>t DEF RingsInOrder
  <2> QED
    BY <2>1, <2>2
<1>17. Flows'
  <2>1. PICK line \in Seq(Message) : InFlight(line)
    BY <1>t DEF Flows
  <2>2. InTurn(line)'
    BY <2>1, <1>u, <1>w, LineOfSessions DEF InFlight, InTurn
  <2>3. /\ Len(line) = Len(control) + n
        /\ \A j \in 1..Len(control) :
             control[j] = [session |-> line[j][1], length |-> Size(line[j])]
        /\ \A i \in 1..n : line[Len(control) + i] = <<s, old + i - 1>>
        /\ Laid(payload, line, 0)
    BY <2>1, <1>g, <1>1, <1>d, <1>o DEF InFlight
  <2>4. \A i \in 1..n : d.lengths[i] = Size(<<s, old + i - 1>>)
    <3>1. \A i \in 1..n : i \in 1..Len(d.lengths)
      BY <1>2, <1>3
    <3> QED
      BY <3>1, <1>3, <1>o DEF Reassembled
  <2>5. ASSUME NEW j \in 1..Len(control')
        PROVE  control'[j] = [session |-> line[j][1], length |-> Size(line[j])]
    <3> DEFINE c == Len(control)
    <3>1. j \in 1..c \/ (j - c \in 1..n /\ j = c + (j - c))
      <4>1. Len(control') = c + n /\ c \in Nat /\ n \in Nat
        BY <1>6, <1>y, <1>2
      <4>2. j \in 1 .. c + n
        BY <4>1
      <4> HIDE DEF c
      <4> QED
        BY <4>1, <4>2
    <3>2. CASE j \in 1..c
      BY <3>2, <2>3, <1>6
    <3>3. CASE j - c \in 1..n /\ j = c + (j - c)
      <4>1. PICK i \in 1..n : j = c + i
        BY <3>3
      <4>2. control'[j] = [session |-> s, length |-> d.lengths[i]] /\ line[j] = <<s, old + i - 1>>
        BY <4>1, <1>6, <2>3
      <4> QED
        BY <4>2, <2>4
    <3> QED
      BY <3>1, <3>2, <3>3
  <2>6. InFlight(line)'
    <3>1. Len(line) = Len(control') + Pushed'
      BY <2>3, <1>6, <1>p, <1>y, <1>2
    <3>2. \A i \in 1..Pushed' :
            line[Len(control') + i] = <<Head(ready'), Oldest(image'[Head(ready')], defrag'[Head(ready')]) + i - 1>>
      BY <1>p
    <3> QED
      BY <3>1, <3>2, <2>2, <2>3, <2>5, <1>u DEF InFlight
  <2> QED
    BY <2>6 DEF Flows
<1>18. Delivered'
  BY <1>t, <1>u, <1>w DEF Delivered
<1> QED
  BY <1>11, <1>12, <1>13, <1>14, <1>15, <1>16, <1>17, <1>18 DEF Inv

-----------------------------------------------------------------------------
(* The consumer takes an item and its bytes.                                *)

(* The bytes of the first message are at the front of the ring. *)
LEMMA FirstOfLine ==
  ASSUME NEW bytes \in Seq(Byte), NEW line \in Seq(Message), line # <<>>, Laid(bytes, line, 0)
  PROVE  /\ SubSeq(bytes, 1, Size(line[1])) = Copies(Size(line[1]), line[1])
         /\ Copies(Size(line[1]), line[1]) \in Seq(Byte)
         /\ SubSeq(bytes, Size(line[1]) + 1, Len(bytes)) \in Seq(Byte)
         /\ Len(SubSeq(bytes, Size(line[1]) + 1, Len(bytes))) <= Len(bytes)
         /\ Laid(SubSeq(bytes, Size(line[1]) + 1, Len(bytes)), Tail(line), 0)
<1> DEFINE z == Size(line[1])
           b == Len(bytes)
<1>1. PICK end : Marks(bytes, line, 0, end)
  BY DEF Laid
<1>2. Len(line) \in Nat /\ Len(line) > 0 /\ 1 \in 1..Len(line) /\ 1 \in 0..Len(line)
  OBVIOUS
<1>3. line[1] \in Message /\ line[1] \in Byte /\ z \in Nat
  <2>1. line[1] \in Message
    BY <1>2, ElementOfSeq
  <2> QED
    BY <2>1, SizeIsNat DEF Message
<1>4. end[1] = z /\ \A p \in 1..z : bytes[p] = line[1]
  <2>1. end[0] = 0 /\ end[1] = end[0] + z /\ \A p \in end[0] + 1 .. end[1] : bytes[p] = line[1]
    <3>1. \A j \in 1..Len(line) : end[j] = end[j - 1] + Size(line[j])
      BY <1>1 DEF Marks
    <3>2. \A j \in 1..Len(line) : \A p \in end[j - 1] + 1 .. end[j] : bytes[p] = line[j]
      BY <1>1 DEF Marks
    <3>3. end[0] = 0
      BY <1>1 DEF Marks
    <3>4. 1 - 1 = 0
      OBVIOUS
    <3> HIDE DEF z
    <3>5. end[1] = end[0] + z
      BY <3>1, <3>4, <1>2 DEF z
    <3>6. \A p \in end[0] + 1 .. end[1] : bytes[p] = line[1]
      BY <3>2, <3>4, <1>2
    <3> QED
      BY <3>3, <3>5, <3>6
  <2> HIDE DEF z
  <2> QED
    BY <2>1, <1>3
<1>5. b \in Nat /\ z <= b
  <2>1. b \in Nat /\ end[1] <= b - 0
    BY <1>1, <1>2, EndsAreInRange
  <2> QED
    BY <2>1, <1>3, <1>4
<1>6. /\ Laid(SubSeq(bytes, z + 1, b), SubSeq(line, 2, Len(line)), 0)
      /\ SubSeq(bytes, z + 1, b) \in Seq(Byte) /\ Len(SubSeq(bytes, z + 1, b)) = b - z
  <2>1. /\ Laid(SubSeq(bytes, end[1] + 1, Len(bytes)), SubSeq(line, 1 + 1, Len(line)), 0)
        /\ SubSeq(bytes, end[1] + 1, Len(bytes)) \in Seq(Byte)
        /\ Len(SubSeq(bytes, end[1] + 1, Len(bytes))) = Len(bytes) - end[1]
    BY <1>1, <1>2, MarksBack
  <2>2. 1 + 1 = 2
    OBVIOUS
  <2> HIDE DEF z
  <2> QED
    BY <2>1, <2>2, <1>4
<1>7. SubSeq(line, 2, Len(line)) = Tail(line)
  BY TailIsSubSeq
<1>8. Copies(z, line[1]) \in Seq(Byte) /\ Copies(z, line[1]) = [i \in 1..z |-> line[1]]
  BY <1>3, CopiesAreSeq DEF Copies
<1>9. SubSeq(bytes, 1, z) = Copies(z, line[1])
  <2> DEFINE front == SubSeq(bytes, 1, z)
  <2>1. front = [i \in 1..z |-> bytes[i]]
    BY <1>3, <1>5
  <2> HIDE DEF front
  <2>2. front = [i \in 1..z |-> line[1]]
    BY <2>1, <1>4
  <2> QED
    BY <2>2, <1>8 DEF front
<1>10. b - z <= b
  BY <1>3, <1>5
<1> QED
  BY <1>6, <1>7, <1>8, <1>9, <1>10

(* The message at the front of the channel is the next of its session. *)
LEMMA NextOfSession ==
  ASSUME Inv, NEW line \in Seq(Message), InFlight(line), line # <<>>
  PROVE  line[1][2] = Len(received[line[1][1]]) + 1
<1> DEFINE r == line[1][1]
           k == line[1][2]
           q == Len(received[r]) + 1
<1>1. 1 \in 1..Len(line) /\ Len(line) \in Nat
  OBVIOUS
<1>2. r \in Sessions /\ k \in Nat
  BY <1>1, LineOfSessions
<1>3. k > Len(received[r]) /\ k < Upcoming(r) /\ Len(received[r]) \in Nat
  BY <1>1, <1>2, SessionFields DEF InFlight, InTurn, Inv
<1>4. Upcoming(r) \in Int
  <2>1. TypeOK
    BY DEF Inv
  <2> HIDE DEF r
  <2>2. /\ image[r].k \in Nat /\ Len(defrag[r].lengths) \in Nat /\ Gone(r) \in Nat
        /\ Upcoming(r) = (image[r].k - Len(defrag[r].lengths)) + Gone(r)
    BY <1>2, <2>1, SessionFields, SubFields DEF Upcoming, Oldest
  <2> QED
    BY <2>2
<1>5. q \in Len(received[r]) + 1 .. Upcoming(r) - 1
  BY <1>2, <1>3, <1>4
<1>6. PICK j \in 1..Len(line) : line[j] = <<r, q>>
  BY <1>5, <1>2 DEF InFlight, InTurn
<1>7. CASE j = 1
  BY <1>6, <1>7
<1>8. CASE j # 1
  <2>1. 1 < j /\ line[1][1] = line[j][1] /\ line[j][2] = q
    BY <1>6, <1>8, <1>1
  <2>2. k < q
    BY <2>1, <1>1, <1>6 DEF InFlight, InTurn
  <2> QED
    BY <2>2, <1>2, <1>3
<1> QED
  BY <1>7, <1>8

LEMMA TakeStep == ASSUME Inv, Take PROVE Inv'
<1>t. /\ TypeOK /\ Placed /\ RoomLeft /\ ChannelFits /\ Turns /\ RingsInOrder /\ Flows
      /\ Delivered
  BY DEF Inv
<1>1. PICK line \in Seq(Message) : InFlight(line)
  BY <1>t DEF Flows
<1>y. /\ control \in Seq([session : Sessions, length : Nat]) /\ Len(control) \in Nat
      /\ payload \in Seq(Byte) /\ Len(payload) \in Nat /\ Pushed \in Nat /\ control # <<>>
      /\ Len(control) > 0 /\ received \in [Sessions -> Seq(Seq(Byte))]
  <2>1. /\ control \in Seq([session : Sessions, length : Nat]) /\ Len(control) \in Nat
        /\ payload \in Seq(Byte) /\ Len(payload) \in Nat /\ Pushed \in Nat
        /\ received \in [Sessions -> Seq(Seq(Byte))]
    BY <1>t, SubFields DEF TypeOK
  <2>2. control # <<>>
    BY DEF Take
  <2> QED
    BY <2>1, <2>2
<1>2. /\ Len(line) \in Nat /\ Len(line) = Len(control) + Pushed /\ line # <<>>
      /\ 1 \in 1..Len(line) /\ 1 \in 1..Len(control)
  <2>1. Len(line) \in Nat /\ Len(line) = Len(control) + Pushed
    BY <1>1 DEF InFlight
  <2> QED
    BY <2>1, <1>y
<1>3. PICK s, k : s = line[1][1] /\ k = line[1][2]
  OBVIOUS
<1>4. /\ s \in Sessions /\ k \in Nat /\ line[1] = <<s, k>> /\ k = Len(received[s]) + 1
      /\ Len(received[s]) \in Nat
  <2>1. line[1][1] \in Sessions /\ line[1][2] \in Nat /\ line[1] = <<line[1][1], line[1][2]>>
    BY <1>2, LineOfSessions
  <2>2. k = Len(received[s]) + 1
    BY <1>1, <1>2, <1>3, NextOfSession
  <2> QED
    BY <2>1, <2>2, <1>3, <1>t, SessionFields
<1>5. PICK whole : whole = Copies(Size(<<s, k>>), <<s, k>>)
  OBVIOUS
<1>6. /\ SubSeq(payload, 1, Size(<<s, k>>)) = whole /\ whole \in Seq(Byte)
      /\ SubSeq(payload, Size(<<s, k>>) + 1, Len(payload)) \in Seq(Byte)
      /\ Len(SubSeq(payload, Size(<<s, k>>) + 1, Len(payload))) <= Len(payload)
      /\ Laid(SubSeq(payload, Size(<<s, k>>) + 1, Len(payload)), Tail(line), 0)
  <2>1. Laid(payload, line, 0)
    BY <1>1 DEF InFlight
  <2>2. /\ SubSeq(payload, 1, Size(line[1])) = Copies(Size(line[1]), line[1])
        /\ Copies(Size(line[1]), line[1]) \in Seq(Byte)
        /\ SubSeq(payload, Size(line[1]) + 1, Len(payload)) \in Seq(Byte)
        /\ Len(SubSeq(payload, Size(line[1]) + 1, Len(payload))) <= Len(payload)
        /\ Laid(SubSeq(payload, Size(line[1]) + 1, Len(payload)), Tail(line), 0)
    BY <2>1, <1>2, <1>y, FirstOfLine
  <2> QED
    BY <2>2, <1>4, <1>5
<1>7. Head(control) = [session |-> s, length |-> Size(<<s, k>>)]
  <2>1. control[1] = [session |-> line[1][1], length |-> Size(line[1])]
    BY <1>1, <1>2 DEF InFlight
  <2>2. Head(control) = control[1]
    BY <1>y, HeadTailProperties
  <2>3. line[1] = <<s, k>> /\ line[1][1] = s
    BY <1>3, <1>4
  <2> QED
    BY <2>1, <2>2, <2>3
<1>i. Head(control).session = s /\ Head(control).length = Size(<<s, k>>)
  <2> DEFINE item == [session |-> s, length |-> Size(<<s, k>>)]
  <2>1. item.session = s /\ item.length = Size(<<s, k>>)
    OBVIOUS
  <2> QED
    BY <2>1, <1>7
<1>u. /\ received' = [received EXCEPT ![s] = Append(@, whole)]
      /\ payload' = SubSeq(payload, Size(<<s, k>>) + 1, Len(payload))
      /\ control' = Tail(control)
      /\ image' = image /\ defrag' = defrag /\ known' = known /\ ready' = ready
      /\ sub' = sub /\ stop' = stop
  BY <1>6, <1>i DEF Take, Reassembly
<1>8. /\ control' \in Seq([session : Sessions, length : Nat])
      /\ Len(control') = Len(control) - 1
      /\ \A j \in 1 .. Len(control) - 1 : control'[j] = control[j + 1]
  BY <1>u, <1>y, HeadTailProperties
<1>9. PICK rest \in Seq(Message) : /\ rest = Tail(line) /\ Len(rest) = Len(line) - 1
                                   /\ \A j \in 1 .. Len(line) - 1 : rest[j] = line[j + 1]
  <2>1. /\ Tail(line) \in Seq(Message) /\ Len(Tail(line)) = Len(line) - 1
        /\ \A j \in 1 .. Len(Tail(line)) : Tail(line)[j] = line[j + 1]
    BY <1>2, HeadTailProperties
  <2> QED
    BY <2>1
<1>10. /\ received' \in [Sessions -> Seq(Seq(Byte))]
       /\ Len(received'[s]) = k /\ received'[s][k] = whole
       /\ \A i \in 1..Len(received[s]) : received'[s][i] = received[s][i]
       /\ \A r \in Sessions : r # s => received'[r] = received[r]
  <2> DEFINE old == received[s]
             new == Append(old, whole)
  <2>1. old \in Seq(Seq(Byte)) /\ Len(old) \in Nat /\ k = Len(old) + 1
    BY <1>4, <1>y
  <2>2. received'[s] = new /\ \A r \in Sessions : r # s => received'[r] = received[r]
    BY <1>u, <1>4, <1>y
  <2>3. /\ new \in Seq(Seq(Byte)) /\ Len(new) = Len(old) + 1 /\ new[Len(old) + 1] = whole
        /\ \A i \in 1..Len(old) : new[i] = old[i]
    BY <2>1, <1>6, AppendProperties
  <2>4. received' \in [Sessions -> Seq(Seq(Byte))]
    <3> HIDE DEF new, old
    <3> QED
      BY <2>3, <1>u, <1>y DEF new, old
  <2> HIDE DEF new
  <2> QED
    BY <2>1, <2>2, <2>3, <2>4
<1>g. /\ Pushed' = Pushed /\ \A r : Gone(r)' = Gone(r)
  BY <1>u DEF Pushed, Gone
<1>w. /\ \A r \in Sessions : Upcoming(r)' = Upcoming(r) /\ Upcoming(r) \in Int
  <2>1. \A r \in Sessions : Upcoming(r)' = Upcoming(r)
    BY <1>u, <1>g DEF Upcoming, Oldest
  <2>2. ASSUME NEW r \in Sessions PROVE Upcoming(r) \in Int
    <3>1. image[r].k \in Nat /\ Len(defrag[r].lengths) \in Nat /\ Gone(r) \in Nat
      BY <1>t, SessionFields, SubFields
    <3>2. Upcoming(r) = (image[r].k - Len(defrag[r].lengths)) + Gone(r)
      BY DEF Upcoming, Oldest
    <3> QED
      BY <3>1, <3>2
  <2> QED
    BY <2>1, <2>2
<1>l. \A j \in 1..Len(line) :
        /\ line[j] \in Message /\ line[j][1] \in Sessions /\ line[j][2] \in Nat
        /\ line[j][2] > Len(received[line[j][1]]) /\ line[j][2] < Upcoming(line[j][1])
        /\ line[j][1] = s /\ j # 1 => line[j][2] > k
  <2>1. ASSUME NEW j \in 1..Len(line), line[j][1] = s, j # 1 PROVE line[j][2] > k
    <3>1. 1 < j
      BY <2>1
    <3>2. k < line[j][2]
      BY <3>1, <2>1, <1>1, <1>2, <1>3 DEF InFlight, InTurn
    <3>3. line[j][2] \in Nat
      BY <2>1, LineOfSessions
    <3> QED
      BY <3>2, <3>3, <1>4
  <2> QED
    BY <2>1, <1>1, LineOfSessions DEF InFlight, InTurn
<1>m. PICK m : m = Len(line) - 1 /\ m \in Nat
  BY <1>2
<1>r. /\ \A j \in 1..m : /\ j + 1 \in 1..Len(line) /\ j + 1 # 1 /\ rest[j] = line[j + 1]
                         /\ j \in 1 .. Len(line) - 1
      /\ Len(rest) = m /\ \A i, j \in 1..m : i < j => i + 1 < j + 1
  BY <1>9, <1>m, <1>2
<1>11. TypeOK'
  BY <1>t, <1>u, <1>6, <1>8, <1>10 DEF TypeOK
<1>12. Placed' /\ Turns'
  BY <1>t, <1>u DEF Placed, Turns
<1>13. RoomLeft'
  BY <1>t, <1>u DEF RoomLeft
<1>14. ChannelFits'
  <2>1. Len(control') + Pushed <= ControlCapacity
    BY <1>t, <1>8, <1>y, Capacities DEF ChannelFits
  <2>2. Len(payload') <= PayloadCapacity
    <3>1. Len(payload') \in Nat /\ Len(payload') <= Len(payload)
      BY <1>6, <1>u
    <3> QED
      BY <3>1, <1>t, <1>y, Capacities DEF ChannelFits
  <2> QED
    BY <2>1, <2>2, <1>g DEF ChannelFits
<1>15. RingsInOrder'
  BY <1>t, <1>u, <1>g DEF RingsInOrder
<1>16. Flows'
  <2>4. ASSUME NEW i \in 1..m, NEW j \in 1..m, i < j, rest[i][1] = rest[j][1]
        PROVE  rest[i][2] < rest[j][2]
    BY <2>4, <1>r, <1>1 DEF InFlight, InTurn
  <2>5. ASSUME NEW j \in 1..m
        PROVE  /\ rest[j][2] > Len(received'[rest[j][1]])
               /\ rest[j][2] < Upcoming(rest[j][1])'
    <3>1. CASE rest[j][1] = s
      BY <3>1, <1>r, <1>l, <1>w, <1>10
    <3>2. CASE rest[j][1] # s
      <4>1. /\ rest[j] = line[j + 1] /\ line[j + 1][1] \in Sessions
            /\ line[j + 1][2] > Len(received[line[j + 1][1]])
            /\ line[j + 1][2] < Upcoming(line[j + 1][1])
        BY <1>r, <1>l
      <4>2. received'[line[j + 1][1]] = received[line[j + 1][1]]
        BY <3>2, <4>1, <1>10
      <4> QED
        BY <4>1, <4>2, <1>w
    <3> QED
      BY <3>1, <3>2
  <2>6. ASSUME NEW r \in Sessions, NEW q \in Len(received'[r]) + 1 .. Upcoming(r)' - 1
        PROVE  \E j \in 1..m : rest[j] = <<r, q>>
    <3>1. q \in Len(received[r]) + 1 .. Upcoming(r) - 1 /\ (r = s => q # k)
      <4>1. Len(received[r]) \in Nat
        BY <1>t, SessionFields
      <4>2. CASE r = s
        BY <4>1, <4>2, <1>w, <1>10, <1>4
      <4>3. CASE r # s
        BY <4>1, <4>3, <1>w, <1>10
      <4> QED
        BY <4>2, <4>3
    <3>2. PICK j \in 1..Len(line) : line[j] = <<r, q>>
      BY <3>1, <1>1 DEF InFlight, InTurn
    <3>3. j # 1
      BY <3>1, <3>2, <1>4
    <3>4. j - 1 \in 1..m /\ (j - 1) + 1 = j
      BY <3>3, <1>m, <1>2
    <3>5. rest[j - 1] = <<r, q>>
      BY <3>2, <3>4, <1>r
    <3> QED
      BY <3>4, <3>5
  <2>7. InTurn(rest)'
    BY <2>4, <2>5, <2>6, <1>r DEF InTurn
  <2>8. InFlight(rest)'
    <3>1. Len(rest) = Len(control') + Pushed'
      BY <1>2, <1>8, <1>9, <1>g, <1>y
    <3>2. ASSUME NEW j \in 1..Len(control')
          PROVE  control'[j] = [session |-> rest[j][1], length |-> Size(rest[j])]
      <4>1. j \in 1 .. Len(control) - 1 /\ j \in 1..m /\ j + 1 \in 1..Len(control)
        BY <1>2, <1>8, <1>m, <1>y
      <4>2. control[j + 1] = [session |-> line[j + 1][1], length |-> Size(line[j + 1])]
        BY <4>1, <1>1 DEF InFlight
      <4> QED
        BY <4>1, <4>2, <1>8, <1>r
    <3>3. ASSUME NEW i \in 1..Pushed
          PROVE  rest[Len(control') + i] = <<Head(ready), Oldest(image[Head(ready)], defrag[Head(ready)]) + i - 1>>
      <4>1. Len(control') + i \in 1..m /\ (Len(control') + i) + 1 = Len(control) + i
        BY <1>2, <1>8, <1>m, <1>y
      <4>2. line[Len(control) + i] = <<Head(ready), Oldest(image[Head(ready)], defrag[Head(ready)]) + i - 1>>
        BY <1>1 DEF InFlight
      <4> QED
        BY <4>1, <4>2, <1>r
    <3>4. Laid(payload', rest, 0)
      BY <1>6, <1>9, <1>u
    <3> QED
      BY <3>1, <3>2, <3>3, <3>4, <2>7, <1>g, <1>u DEF InFlight
  <2> QED
    BY <2>8 DEF Flows
<1>17. Delivered'
  <2> SUFFICES ASSUME NEW r \in Sessions
               PROVE  /\ Len(received'[r]) < Upcoming(r)
                      /\ \A i \in 1..Len(received'[r]) :
                           received'[r][i] = Copies(Size(<<r, i>>), <<r, i>>)
    BY <1>w DEF Delivered
  <2>1. CASE r = s
    <3>1. k < Upcoming(s)
      BY <1>l, <1>2, <1>3
    <3>2. \A i \in 1..k : i \in 1..Len(received[s]) \/ i = k
      BY <1>4
    <3>3. \A i \in 1..Len(received[s]) : received[s][i] = Copies(Size(<<s, i>>), <<s, i>>)
      BY <1>4, <1>t DEF Delivered
    <3> QED
      BY <2>1, <3>1, <3>2, <3>3, <1>5, <1>10
  <2>2. CASE r # s
    BY <2>2, <1>10, <1>t DEF Delivered
  <2> QED
    BY <2>1, <2>2
<1> QED
  BY <1>11, <1>12, <1>13, <1>14, <1>15, <1>16, <1>17 DEF Inv

-----------------------------------------------------------------------------
LEMMA NextInv == ASSUME Inv, [Next]_vars PROVE Inv'
<1>1. ASSUME NEW s \in Sessions, Consume(s) PROVE Inv'
  BY <1>1, ConsumeStep
<1>2. CASE FlushPayload
  BY <1>2, FlushPayloadStep
<1>3. CASE FlushItems
  BY <1>3, FlushItemsStep
<1>4. CASE Take
  BY <1>4, TakeStep
<1>5. CASE RequestShutdown \/ UNCHANGED vars
  <2>1. UNCHANGED <<image, defrag, known, ready, control, payload, sub, received>>
    BY <1>5 DEF RequestShutdown, Reassembly, Channel, vars
  <2>2. stop' \in BOOLEAN
    BY <1>5 DEF RequestShutdown, vars, Inv, TypeOK
  <2> QED
    BY <2>1, <2>2, ShutdownStep
<1>6. CASE Leave \/ StartPolling \/ Poll \/ PollReturns \/ StartFlushing \/ FlushNone
  BY <1>6, LoopMovesOn
<1> QED
  BY <1>1, <1>2, <1>3, <1>4, <1>5, <1>6 DEF Next, Loop

LEMMA AlwaysInv == Spec => []Inv
BY InitInv, NextInv, PTL DEF Spec

(* Every variable keeps its type. *)
THEOREM TypeCorrect == Spec => []TypeOK
<1>1. Inv => TypeOK
  BY DEF Inv
<1> QED
  BY <1>1, AlwaysInv, PTL

(* As long as fragments are still asked for there is room for a whole one,   *)
(* with the item that it may complete, in the rings of every session: the    *)
(* pushes of fragment_consume, whose results nobody looks at, cut nothing    *)
(* off.                                                                      *)
FragmentsHaveRoom ==
  sub.at = "reading" /\ sub.left > 0 =>
    \A s \in Sessions : /\ Len(defrag[s].bytes) + Fragment <= PayloadCapacity
                        /\ Len(defrag[s].lengths) < ControlCapacity

(* A fragment that the poll hands over always fits, as defrag_has_room_for   *)
(* has counted the room of the session that has the least.                   *)
THEOREM NothingIsCutOff == Spec => []FragmentsHaveRoom
<1>1. ASSUME Inv, sub.at = "reading", sub.left > 0, NEW s \in Sessions
      PROVE  /\ Len(defrag[s].bytes) + Fragment <= PayloadCapacity
             /\ Len(defrag[s].lengths) < ControlCapacity
  <2> DEFINE b == Len(defrag[s].bytes)
             l == Len(defrag[s].lengths)
             left == sub.left
             asked == left * Fragment
  <2>1. b \in Nat /\ l \in Nat /\ left \in Nat /\ left > 0
    BY <1>1, SessionFields, SubFields DEF Inv
  <2>2. left <= ControlCapacity - l /\ asked <= PayloadCapacity - b
    BY <1>1 DEF Inv, RoomLeft
  <2> HIDE DEF b, l, left
  <2>3. 1 * Fragment <= asked
    BY <2>1, Capacities, TimesKeepsOrder
  <2>4. asked \in Nat /\ 1 * Fragment = Fragment
    BY <2>1, Capacities
  <2> HIDE DEF asked
  <2>5. b + Fragment <= PayloadCapacity /\ l < ControlCapacity
    BY <2>1, <2>2, <2>3, <2>4, Capacities
  <2> QED
    BY <2>5 DEF b, l
<1>2. Inv => FragmentsHaveRoom
  BY <1>1 DEF FragmentsHaveRoom
<1> QED
  BY <1>2, AlwaysInv, PTL

(* An item is never in the channel before its bytes, whatever has been       *)
(* flushed of which session: the consumer's take does not wait for them.     *)
BytesComeFirst == control # <<>> => Head(control).length <= Len(payload)

(* The flushing pushes the bytes first, so that the consumer, which may take *)
(* between the two pushes, finds the bytes of every item it finds.           *)
THEOREM BytesAlwaysComeFirst == Spec => []BytesComeFirst
<1>1. ASSUME Inv, control # <<>> PROVE Head(control).length <= Len(payload)
  <2>1. PICK line \in Seq(Message) : InFlight(line)
    BY <1>1 DEF Inv, Flows
  <2>2. /\ control \in Seq([session : Sessions, length : Nat]) /\ Len(control) \in Nat
        /\ payload \in Seq(Byte) /\ Pushed \in Nat
    BY <1>1, SubFields DEF Inv, TypeOK
  <2>3. Len(control) > 0 /\ 1 \in 1..Len(control)
    BY <2>2, <1>1
  <2>4. Len(line) = Len(control) + Pushed /\ 1 \in 0..Len(line) /\ 1 \in 1..Len(line)
    <3>1. Len(line) = Len(control) + Pushed
      BY <2>1 DEF InFlight
    <3> QED
      BY <3>1, <2>2, <2>3
  <2>5. Head(control).length = Size(line[1])
    <3>1. control[1] = [session |-> line[1][1], length |-> Size(line[1])]
      BY <2>1, <2>3 DEF InFlight
    <3> QED
      BY <3>1
  <2>6. PICK end : Marks(payload, line, 0, end)
    BY <2>1 DEF InFlight, Laid
  <2>7. end[1] \in Nat /\ end[1] <= Len(payload) - 0 /\ Len(payload) \in Nat
    BY <2>2, <2>4, <2>6, EndsAreInRange
  <2>8. end[1] = end[0] + Size(line[1]) /\ end[0] = 0
    <3>1. \A j \in 1..Len(line) : end[j] = end[j - 1] + Size(line[j])
      BY <2>6 DEF Marks
    <3>2. end[1] = end[1 - 1] + Size(line[1])
      BY <3>1, <2>4
    <3>3. end[0] = 0
      BY <2>6 DEF Marks
    <3> QED
      BY <3>2, <3>3
  <2>9. Size(line[1]) \in Nat
    BY <2>4, ElementOfSeq, SizeIsNat
  <2> DEFINE z == Size(line[1])
             e == end[1]
             p == Len(payload)
  <2>10. e \in Nat /\ p \in Nat /\ e <= p - 0 /\ z \in Nat /\ e = 0 + z
    BY <2>7, <2>8, <2>9
  <2> HIDE DEF z, e, p
  <2>11. z <= p
    BY <2>10
  <2> QED
    BY <2>5, <2>11 DEF z, p
<1>2. Inv => BytesComeFirst
  BY <1>1 DEF BytesComeFirst
<1> QED
  BY <1>2, AlwaysInv, PTL

(* What the consumer takes of each session are its messages, whole and in    *)
(* the order in which they were published, with none missing between them:   *)
(* for every number of sessions, all lengths of messages and fragments, every *)
(* order in which Aeron hands the fragments over, and also when the shutdown *)
(* ends the loop before everything is flushed.                               *)
THEOREM MessagesAlwaysWhole == Spec => []MessagesWhole
<1>1. ASSUME Inv, NEW s \in Sessions, NEW k \in DOMAIN received[s]
      PROVE  k <= Len(Published[s]) /\ received[s][k] = Copies(Published[s][k], <<s, k>>)
  <2>1. /\ TypeOK /\ Placed /\ RingsInOrder /\ Delivered
    BY <1>1 DEF Inv
  <2>2. /\ received[s] \in Seq(Seq(Byte)) /\ Len(received[s]) \in Nat /\ image[s].k \in Nat
        /\ Len(defrag[s].lengths) \in Nat /\ Gone(s) \in Nat /\ Len(Published[s]) \in Nat
    BY <2>1, SessionFields, SubFields, PublishedLengths
  <2>3. k \in 1..Len(received[s])
    BY <2>2
  <2>4. received[s][k] = Copies(Size(<<s, k>>), <<s, k>>)
    BY <2>1, <2>3 DEF Delivered
  <2>5. Gone(s) <= Len(defrag[s].lengths) /\ image[s].k <= Len(Published[s]) + 1
    <3>1. Gone(s) \in 0..Len(defrag[s].lengths) /\ image[s].k <= Len(Published[s]) + 1
      BY <2>1 DEF RingsInOrder, Reassembled, Placed
    <3> QED
      BY <3>1, <2>2
  <2>6. Len(received[s]) < (image[s].k - Len(defrag[s].lengths)) + Gone(s)
    BY <2>1 DEF Delivered, Upcoming, Oldest
  <2> DEFINE r == Len(received[s])
             i == image[s].k
             l == Len(defrag[s].lengths)
             g == Gone(s)
             m == Len(Published[s])
  <2>7. /\ r \in Nat /\ i \in Nat /\ l \in Nat /\ g \in Nat /\ m \in Nat /\ k \in 1..r
        /\ g <= l /\ i <= m + 1 /\ r < (i - l) + g
    BY <2>2, <2>3, <2>5, <2>6
  <2> HIDE DEF r, i, l, g, m
  <2>8. k <= m
    BY <2>7
  <2> QED
    BY <2>4, <2>8 DEF m, Size
<1>2. Inv => MessagesWhole
  BY <1>1 DEF MessagesWhole
<1> QED
  BY <1>2, AlwaysInv, PTL

-----------------------------------------------------------------------------
(* The loop always has something to do.                                     *)

(* A session with whole messages has its turn to come. *)
InLine == \A s \in Sessions : defrag[s].lengths # <<>> => s \in ToSet(ready)

(* In the middle of a message whole fragments of it have been read. *)
Begun ==
  \A s \in Sessions : image[s].at # 0 =>
    /\ image[s].k <= Len(Published[s]) /\ image[s].at < Size(<<s, image[s].k>>)
    /\ \E j \in Nat : image[s].at = j * Fragment

LEMMA QueueMembers ==
  ASSUME NEW S, NEW queue \in Seq(S)
  PROVE  /\ \A e \in S : ToSet(Append(queue, e)) = ToSet(queue) \cup {e}
         /\ queue # <<>> => /\ Head(queue) \in S /\ Tail(queue) \in Seq(S)
                            /\ ToSet(queue) = ToSet(Tail(queue)) \cup {Head(queue)}
<1>1. ASSUME NEW e \in S PROVE ToSet(Append(queue, e)) = ToSet(queue) \cup {e}
  <2>1. /\ Len(queue) \in Nat /\ DOMAIN queue = 1..Len(queue)
        /\ DOMAIN Append(queue, e) = 1 .. Len(queue) + 1
        /\ \A i \in 1..Len(queue) : Append(queue, e)[i] = queue[i]
        /\ Append(queue, e)[Len(queue) + 1] = e
    BY AppendProperties
  <2>2. \A i \in 1 .. Len(queue) + 1 : i \in 1..Len(queue) \/ i = Len(queue) + 1
    BY <2>1
  <2>3. \A x : x \in ToSet(Append(queue, e)) <=> \E i \in 1 .. Len(queue) + 1 : Append(queue, e)[i] = x
    BY <2>1 DEF ToSet
  <2>4. \A x : x \in ToSet(queue) <=> \E i \in 1..Len(queue) : queue[i] = x
    BY <2>1 DEF ToSet
  <2>5. \A i \in 1..Len(queue) : i \in 1 .. Len(queue) + 1
    BY <2>1
  <2>6. Len(queue) + 1 \in 1 .. Len(queue) + 1
    BY <2>1
  <2> QED
    BY <2>1, <2>2, <2>3, <2>4, <2>5, <2>6
<1>2. ASSUME queue # <<>>
      PROVE  /\ Head(queue) \in S /\ Tail(queue) \in Seq(S)
             /\ ToSet(queue) = ToSet(Tail(queue)) \cup {Head(queue)}
  <2>1. /\ Len(queue) \in Nat /\ Len(queue) > 0 /\ DOMAIN queue = 1..Len(queue)
        /\ Head(queue) = queue[1] /\ Head(queue) \in S
        /\ Tail(queue) \in Seq(S) /\ DOMAIN Tail(queue) = 1 .. Len(queue) - 1
        /\ \A i \in 1 .. Len(queue) - 1 : Tail(queue)[i] = queue[i + 1]
    BY <1>2, HeadTailProperties
  <2>2. \A x : x \in ToSet(queue) <=> \E i \in 1..Len(queue) : queue[i] = x
    BY <2>1 DEF ToSet
  <2>3. \A x : x \in ToSet(Tail(queue)) <=> \E i \in 1 .. Len(queue) - 1 : queue[i + 1] = x
    BY <2>1 DEF ToSet
  <2>4. \A i \in 1..Len(queue) : i = 1 \/ (i - 1 \in 1 .. Len(queue) - 1 /\ (i - 1) + 1 = i)
    BY <2>1
  <2>5. \A i \in 1 .. Len(queue) - 1 : i + 1 \in 1..Len(queue)
    BY <2>1
  <2>6. 1 \in 1..Len(queue)
    BY <2>1
  <2> QED
    BY <2>1, <2>2, <2>3, <2>4, <2>5, <2>6
<1> QED
  BY <1>1, <1>2

LEMMA RingsFields ==
  /\ \A l, b, r : /\ Rings(l, b, r).lengths = l /\ Rings(l, b, r).bytes = b
                  /\ Rings(l, b, r).running = r
  /\ \A k, at : Image(k, at).k = k /\ Image(k, at).at = at
BY DEF Rings, Image

LEMMA InLineStep == ASSUME Inv, InLine, [Next]_vars PROVE InLine'
<1>t. /\ ready \in Seq(Sessions)
      /\ defrag \in [Sessions -> [lengths : Seq(Nat), bytes : Seq(Byte), running : Nat]]
      /\ Turns
  BY DEF Inv, TypeOK
<1>1. CASE UNCHANGED <<defrag, ready>>
  BY <1>1 DEF InLine
<1>2. ASSUME NEW s \in Sessions, Consume(s) PROVE InLine'
  <2>1. PICK more, isEnd :
          /\ isEnd \in BOOLEAN
          /\ more.lengths = defrag[s].lengths
          /\ defrag' = [defrag EXCEPT ![s] = IF isEnd THEN Ends(more) ELSE more]
          /\ ready' = IF isEnd THEN Ready(s) ELSE ready
    <3> DEFINE d == defrag[s]
               k == image[s].k
               n == Least(Fragment, Published[s][k] - image[s].at)
               bytes == Push(d.bytes, Copies(n, <<s, k>>), PayloadCapacity)
               more == Rings(d.lengths, bytes, d.running + Len(bytes) - Len(d.bytes))
               isEnd == image[s].at + n = Published[s][k]
    <3>1. /\ defrag' = [defrag EXCEPT ![s] = IF isEnd THEN Ends(more) ELSE more]
          /\ ready' = IF isEnd THEN Ready(s) ELSE ready
      BY <1>2 DEF Consume
    <3> HIDE DEF d, bytes, k, n
    <3>2. more.lengths = d.lengths
      BY DEF Rings
    <3>3. isEnd \in BOOLEAN
      OBVIOUS
    <3>4. more.lengths = defrag[s].lengths
      BY <3>2 DEF d
    <3> HIDE DEF more, isEnd
    <3> WITNESS more, isEnd
    <3> QED
      BY <3>1, <3>3, <3>4
  <2>2. \A r \in Sessions \ {s} : defrag'[r] = defrag[r]
    BY <2>1, <1>t
  <2>3. s \in ToSet(Ready(s)) /\ ToSet(ready) \subseteq ToSet(Ready(s))
    BY <1>t, QueueMembers DEF Ready
  <2>4. CASE isEnd
    <3>1. ready' = Ready(s)
      BY <2>1, <2>4
    <3>2. s \in ToSet(ready') /\ ToSet(ready) \subseteq ToSet(ready')
      BY <3>1, <2>3
    <3> QED
      BY <3>2, <2>2 DEF InLine
  <2>5. CASE ~isEnd
    <3>1. ready' = ready /\ defrag'[s].lengths = defrag[s].lengths
      BY <2>1, <2>5, <1>t
    <3> QED
      BY <3>1, <2>2 DEF InLine
  <2> QED
    BY <2>4, <2>5, <2>1
<1>3. CASE FlushPayload
  <2>1. PICK bytes, running :
          /\ defrag' = [defrag EXCEPT ![Head(ready)] =
                          Rings(defrag[Head(ready)].lengths, bytes, running)]
          /\ ready' = ready
    BY <1>3 DEF FlushPayload
  <2>2. \A r \in Sessions : defrag'[r].lengths = defrag[r].lengths
    BY <2>1, <1>t, RingsFields
  <2> QED
    BY <2>1, <2>2 DEF InLine
<1>4. CASE FlushItems
  <2> DEFINE s == Head(ready)
             left == SubSeq(defrag[s].lengths, sub.count + 1, Len(defrag[s].lengths))
  <2>1. /\ sub.at = "pushed" /\ ready' = Requeued(s, left)
        /\ defrag' = [defrag EXCEPT ![s] = Rings(left, defrag[s].bytes, defrag[s].running)]
    BY <1>4 DEF FlushItems
  <2>2. ready # <<>>
    <3>1. sub.left \in 1..Len(ready)
      BY <2>1, <1>t DEF Turns
    <3> QED
      BY <3>1, <1>t
  <2>3. s \in Sessions /\ Tail(ready) \in Seq(Sessions) /\ ToSet(ready) = ToSet(Tail(ready)) \cup {s}
    BY <2>2, <1>t, QueueMembers
  <2> HIDE DEF left
  <2>4. defrag'[s].lengths = left /\ \A r \in Sessions \ {s} : defrag'[r] = defrag[r]
    BY <2>1, <2>3, <1>t, RingsFields
  <2>5. ToSet(Append(Tail(ready), s)) = ToSet(Tail(ready)) \cup {s}
    <3> DEFINE queue == Tail(ready)
    <3>0. queue \in Seq(Sessions)
      BY <2>3
    <3> HIDE DEF s, queue
    <3>1. \A e \in Sessions : ToSet(Append(queue, e)) = ToSet(queue) \cup {e}
      BY <3>0, QueueMembers
    <3> USE DEF queue
    <3> QED
      BY <3>1, <2>3
  <2>6. /\ ToSet(Tail(ready)) \subseteq ToSet(ready')
        /\ left # <<>> => s \in ToSet(ready')
    BY <2>1, <2>5 DEF Requeued
  <2> HIDE DEF s
  <2> QED
    BY <2>3, <2>4, <2>6 DEF InLine
<1>5. CASE FlushNone
  <2>1. ready' = Append(Tail(ready), Head(ready)) /\ defrag' = defrag /\ sub.at = "turn"
    BY <1>5 DEF FlushNone
  <2>2. ready # <<>>
    <3>1. sub.left \in 1..Len(ready)
      BY <2>1, <1>t DEF Turns
    <3> QED
      BY <3>1, <1>t
  <2> DEFINE s == Head(ready)
  <2>3. ToSet(ready') = ToSet(ready)
    <3>1. s \in Sessions /\ Tail(ready) \in Seq(Sessions) /\ ToSet(ready) = ToSet(Tail(ready)) \cup {s}
      BY <2>2, <1>t, QueueMembers
    <3>2. ready' = Append(Tail(ready), s)
      BY <2>1
    <3> DEFINE queue == Tail(ready)
    <3>0. queue \in Seq(Sessions)
      BY <3>1
    <3> HIDE DEF s, queue
    <3>3. \A e \in Sessions : ToSet(Append(queue, e)) = ToSet(queue) \cup {e}
      BY <3>0, QueueMembers
    <3> USE DEF queue
    <3> QED
      BY <3>1, <3>2, <3>3
  <2> QED
    BY <2>1, <2>3 DEF InLine
<1>6. CASE Leave \/ StartPolling \/ Poll \/ PollReturns \/ StartFlushing \/ Take \/ RequestShutdown
           \/ UNCHANGED vars
  <2>1. UNCHANGED <<defrag, ready>>
    BY <1>6 DEF Leave, StartPolling, Poll, PollReturns, StartFlushing, Take, RequestShutdown,
                vars, Reassembly
  <2> QED
    BY <2>1, <1>1
<1> QED
  BY <1>2, <1>3, <1>4, <1>5, <1>6 DEF Next, Loop

LEMMA BegunStep == ASSUME Inv, Begun, [Next]_vars PROVE Begun'
<1>1. CASE UNCHANGED image
  BY <1>1 DEF Begun
<1>2. ASSUME NEW s \in Sessions, Consume(s) PROVE Begun'
  <2> DEFINE k == image[s].k
             at == image[s].at
             size == Published[s][k]
             n == Least(Fragment, size - at)
             isEnd == at + n = size
  <2>1. /\ k <= Len(Published[s])
        /\ image' = [image EXCEPT ![s] = IF isEnd THEN Image(k + 1, 0) ELSE Image(k, at + n)]
    BY <1>2 DEF Consume
  <2>2. image \in [Sessions -> [k : Nat \ {0}, at : Nat]] /\ k \in Nat \ {0} /\ at \in Nat
    BY SessionFields DEF Inv, TypeOK
  <2>3. size \in Nat /\ at <= size /\ Size(<<s, k>>) = size
    <3>1. <<s, k>> \in Message /\ Size(<<s, k>>) = size
      BY <2>1, <2>2, PublishedLengths
    <3>2. at <= Size(<<s, k>>)
      BY <2>1 DEF Inv, Placed
    <3> QED
      BY <3>1, <3>2, SizeIsNat
  <2>4. \A r \in Sessions \ {s} : image'[r] = image[r]
    BY <2>1, <2>2
  <2>5. image'[s] = IF isEnd THEN Image(k + 1, 0) ELSE Image(k, at + n)
    BY <2>1, <2>2
  <2>6. PICK j \in Nat : at = j * Fragment
    <3>1. CASE at = 0
      <4>1. 0 * Fragment = 0
        BY Capacities
      <4> QED
        BY <3>1, <4>1
    <3>2. CASE at # 0
      BY <3>2 DEF Begun
    <3> QED
      BY <3>1, <3>2
  <2>7. ASSUME ~isEnd PROVE at + n < size /\ at + n = (j + 1) * Fragment
    <3>1. n = Fragment /\ at + Fragment < size
      BY <2>7, <2>2, <2>3, Capacities DEF Least
    <3>2. (j + 1) * Fragment = j * Fragment + Fragment
      BY Capacities
    <3> QED
      BY <3>1, <3>2, <2>6
  <2> HIDE DEF k, at, size, n, isEnd
  <2>8. image'[s].at # 0 =>
          /\ image'[s].k <= Len(Published[s]) /\ image'[s].at < Size(<<s, image'[s].k>>)
          /\ \E i \in Nat : image'[s].at = i * Fragment
    <3>1. CASE isEnd
      BY <3>1, <2>5, RingsFields
    <3>2. CASE ~isEnd
      <4>1. image'[s].k = k /\ image'[s].at = at + n
        BY <3>2, <2>5, RingsFields
      <4>2. j + 1 \in Nat
        OBVIOUS
      <4> QED
        BY <4>1, <4>2, <3>2, <2>1, <2>3, <2>7
    <3> QED
      BY <3>1, <3>2
  <2> QED
    BY <2>4, <2>8 DEF Begun
<1>3. CASE Leave \/ StartPolling \/ Poll \/ PollReturns \/ StartFlushing \/ FlushNone
           \/ FlushPayload \/ FlushItems \/ Take \/ RequestShutdown \/ UNCHANGED vars
  <2>1. UNCHANGED image
    BY <1>3 DEF Leave, StartPolling, Poll, PollReturns, StartFlushing, FlushNone, FlushPayload,
                FlushItems, Take, RequestShutdown, vars, Reassembly
  <2> QED
    BY <2>1, <1>1
<1> QED
  BY <1>2, <1>3 DEF Next, Loop

(* A fragment is expected to fit as soon as a slot's share of bytes is vacant. *)
LEMMA ExpectedIsPositive ==
  ASSUME NEW v \in Nat PROVE Expected(v) > 0 <=> v * ControlCapacity >= PayloadCapacity
<1> DEFINE x == v * ControlCapacity
           p == PayloadCapacity
<1>1. Expected(v) = x \div p
  BY DEF Expected
<1>2. x \in Nat /\ p \in Nat \ {0}
  BY Capacities, TimesKeepsOrder
<1> HIDE DEF x, p
<1>3. \A q \in Nat, r \in Nat \ {0} : q \div r > 0 <=> q >= r
  OBVIOUS
<1>4. x \div p > 0 <=> x >= p
  BY <1>2, <1>3
<1> QED
  BY <1>1, <1>4 DEF x, p

(* What has been read of a message that is not whole lacks its last fragment. *)
LEMMA LastFragmentIsLeft ==
  ASSUME NEW length \in Nat, NEW j \in Nat, j * Fragment < length
  PROVE  /\ (Fragments(length) - 1) * Fragment \in Nat
         /\ (Fragments(length) - 1) * Fragment < length
         /\ j * Fragment <= (Fragments(length) - 1) * Fragment
<1> DEFINE f == Fragment
           x == length + f - 1
           q == x \div f
<1>1. f \in Nat \ {0} /\ j * f \in Nat /\ length > 0
  BY Capacities, TimesKeepsOrder
<1>2. x \in Nat /\ x >= f
  BY <1>1
<1>3. q = Fragments(length)
  BY DEF Fragments
<1>4. /\ q \in Nat /\ q > 0 /\ q * f <= x /\ x < (q + 1) * f
      /\ (q + 1) * f = q * f + f /\ (q - 1) * f = q * f - f /\ q * f \in Nat
  <2> HIDE DEF x, f
  <2>1. \A a \in Nat, b \in Nat \ {0} :
          /\ a \div b \in Nat /\ (a \div b) * b <= a /\ a < (a \div b + 1) * b
          /\ a >= b => a \div b > 0
    OBVIOUS
  <2>2. q \in Nat /\ q * f <= x /\ x < (q + 1) * f /\ q > 0
    BY <2>1, <1>1, <1>2
  <2> HIDE DEF q
  <2>3. (q + 1) * f = q * f + f /\ (q - 1) * f = q * f - f /\ q * f \in Nat
    BY <2>2, <1>1
  <2> QED
    BY <2>2, <2>3
<1> HIDE DEF q
<1>5. (j + 1) * f = j * f + f
  BY <1>1
<1>6. j + 1 <= q
  <2> SUFFICES ASSUME q + 1 <= j + 1 PROVE FALSE
    BY <1>4
  <2> HIDE DEF f
  <2>1. f * (q + 1) <= f * (j + 1)
    BY <1>1, <1>4, TimesKeepsOrder
  <2>2. f * (q + 1) = (q + 1) * f /\ f * (j + 1) = (j + 1) * f
    BY <1>1, <1>4
  <2> DEFINE a == (q + 1) * f
             b == (j + 1) * f
             c == j * f
  <2>3. a <= b /\ x < a /\ b = c + f /\ c < length /\ a \in Int /\ c \in Nat
    BY <2>1, <2>2, <1>4, <1>5, <1>1 DEF f
  <2>4. x = length + f - 1
    OBVIOUS
  <2> HIDE DEF a, b, c, x
  <2> QED
    BY <2>3, <2>4, <1>1
<1>7. f * j <= f * (q - 1) /\ f * j = j * f /\ f * (q - 1) = (q - 1) * f
  <2>1. q - 1 \in Nat /\ j <= q - 1
    BY <1>6, <1>4
  <2> HIDE DEF f
  <2> QED
    BY <2>1, <1>1, TimesKeepsOrder
<1> DEFINE w == q * f
           y == (q - 1) * f
<1>8. w \in Nat /\ w <= x /\ y = w - f /\ w >= f /\ x = length + f - 1
  <2>1. f * 1 <= f * q /\ f * q = q * f /\ f * 1 = f
    <3> HIDE DEF f
    <3> QED
      BY <1>4, <1>1, TimesKeepsOrder
  <2> QED
    BY <2>1, <1>4
<1>9. y \in Nat /\ y < length
  <2> HIDE DEF w, y, x, f
  <2> QED
    BY <1>8, <1>1
<1> QED
  BY <1>7, <1>9, <1>3

(* A session with no whole message has room for the rest of the next one. *)
LEMMA SessionHasRoom ==
  ASSUME Inv, Begun, NEW s \in Sessions, defrag[s].lengths = <<>>
  PROVE  Len(defrag[s].bytes) <= PayloadCapacity /\ Expected(PayloadCapacity - Len(defrag[s].bytes)) > 0
<1> DEFINE k == image[s].k
           at == image[s].at
           b == Len(defrag[s].bytes)
           p == PayloadCapacity
<1>1. /\ k \in Nat \ {0} /\ at \in Nat /\ b \in Nat /\ b <= p /\ p \in Nat
      /\ k - 1 <= Len(Published[s]) /\ Len(Published[s]) \in Nat
  <2>1. k <= Len(Published[s]) + 1 /\ b <= p
    BY DEF Inv, Placed, RoomLeft
  <2> QED
    BY <2>1, SessionFields, PublishedLengths, Capacities DEF Inv
<1>2. b = at
  <2>1. Len(defrag[s].lengths) = 0
    OBVIOUS
  <2>2. /\ Gone(s) \in 0..0
        /\ defrag[s].running = at
        /\ Laid(defrag[s].bytes, Run(s, k - 0 + Gone(s), k - 1), at)
    BY <2>1 DEF Inv, RingsInOrder, Reassembled, Oldest
  <2>3. k - 0 + Gone(s) = k
    BY <2>2, <1>1
  <2> DEFINE line == Run(s, k, k - 1)
  <2>4. Len(line) = 0
    <3> DEFINE last == k - 1
    <3>1. last \in Nat /\ k <= last + 1 /\ last <= Len(Published[s]) /\ last - k + 1 = 0
      BY <1>1
    <3> HIDE DEF k, last
    <3>2. Len(Run(s, k, last)) = last - k + 1
      BY <3>1, <1>1, RunIsSeq
    <3> QED
      BY <3>1, <3>2 DEF last
  <2>5. PICK end : Marks(defrag[s].bytes, line, at, end)
    BY <2>2, <2>3 DEF Laid
  <2> HIDE DEF line
  <2>6. end[0] = 0 /\ end[0] + at = b
    BY <2>4, <2>5 DEF Marks
  <2> QED
    BY <2>6, <1>1
<1>3. CASE at = 0
  <2>1. p * ControlCapacity >= p
    <3>1. p * 1 <= p * ControlCapacity /\ p * 1 = p
      BY <1>1, Capacities, TimesKeepsOrder
    <3> QED
      BY <3>1, Capacities
  <2>2. p - b = p
    BY <1>1, <1>2, <1>3
  <2> QED
    BY <1>1, <2>1, <2>2, ExpectedIsPositive
<1>4. CASE at # 0
  <2>1. PICK j \in Nat : at = j * Fragment
    BY <1>4 DEF Begun
  <2>2. k <= Len(Published[s]) /\ at < Size(<<s, k>>)
    BY <1>4 DEF Begun
  <2> DEFINE length == Published[s][k]
             begun == (Fragments(length) - 1) * Fragment
             v == p - begun
  <2>3. Size(<<s, k>>) = length /\ length \in Nat /\ length <= p
    <3>1. <<s, k>> \in Message /\ Size(<<s, k>>) = length
      BY <2>2, <1>1, PublishedLengths
    <3>2. Size(<<s, k>>) \in 1..p
      BY <3>1, SizeIsNat
    <3> QED
      BY <3>1, <3>2, <1>1
  <2>4. begun \in Nat /\ begun < length /\ at <= begun
    BY <2>1, <2>2, <2>3, LastFragmentIsLeft
  <2>5. v \in Nat /\ Expected(v) > 0
    <3>1. k \in DOMAIN Published[s]
      <4>1. Published[s] \in Seq(1..PayloadCapacity)
        BY SubscriberAssumption
      <4> QED
        BY <4>1, <2>2, <1>1
    <3>2. Expected(v) > 0
      BY <3>1, MessagesFit
    <3>3. v \in Nat
      <4> HIDE DEF begun, length
      <4> QED
        BY <2>3, <2>4, <1>1
    <3> QED
      BY <3>2, <3>3
  <2> HIDE DEF begun, length
  <2>6. p - at \in Nat /\ v <= p - at
    BY <2>3, <2>4, <1>1
  <2>7. v * ControlCapacity >= p
    BY <2>5, ExpectedIsPositive
  <2> DEFINE u == p - at
  <2> HIDE DEF v, u
  <2>8. u \in Nat /\ v \in Nat /\ v <= u
    BY <2>5, <2>6 DEF u
  <2>9. u * ControlCapacity >= p
    <3>1. ControlCapacity * v <= ControlCapacity * u
      BY <2>8, Capacities, TimesKeepsOrder
    <3>2. /\ ControlCapacity * v = v * ControlCapacity /\ ControlCapacity * u = u * ControlCapacity
          /\ v * ControlCapacity \in Nat /\ u * ControlCapacity \in Nat
      BY <2>8, Capacities, TimesKeepsOrder
    <3> QED
      BY <3>1, <3>2, <2>7, <1>1
  <2>10. Expected(u) > 0
    BY <2>8, <2>9, ExpectedIsPositive
  <2> QED
    BY <2>10, <1>1, <1>2 DEF u
<1> QED
  BY <1>1, <1>3, <1>4

LEMMA AlwaysInLine == Spec => [](Inv /\ InLine /\ Begun)
<1>1. Init => InLine /\ Begun
  <2> SUFFICES ASSUME Init PROVE InLine /\ Begun
    OBVIOUS
  <2>1. \A s \in Sessions : defrag[s] = Rings(<<>>, <<>>, 0) /\ image[s] = Image(1, 0)
    BY DEF Init
  <2> QED
    BY <2>1, RingsFields DEF InLine, Begun
<1>2. Inv /\ InLine /\ Begun /\ [Next]_vars => InLine' /\ Begun'
  BY InLineStep, BegunStep
<1> QED
  BY <1>1, <1>2, InitInv, NextInv, PTL DEF Spec

(* A session that has whole messages to flush is in the queue of those whose *)
(* turn comes, however much of them a turn could flush and whatever the poll *)
(* has brought since: fragment_flush_ready forgets nobody.                   *)
THEOREM NobodyIsForgotten == Spec => []InLine
BY AlwaysInLine, PTL

(* The loop that finds nothing to flush asks for fragments the next time.    *)
MoreIsAskedFor == ready = <<>> => Room > 0

(* No session that waits for the rest of a message too large for what is     *)
(* vacant keeps defrag_has_room_for at zero while nothing is left to flush,  *)
(* which would stop the subscriber for ever.                                 *)
THEOREM MoreIsAlwaysAskedFor == Spec => []MoreIsAskedFor
<1> DEFINE Of(d) == Least(ControlCapacity - Len(d.lengths), Expected(PayloadCapacity - Len(d.bytes)))
           Rooms == {Of(defrag[s]) : s \in known} \cup {ControlCapacity}
<1>1. ASSUME Inv, InLine, Begun, ready = <<>> PROVE Room > 0
  <2>1. \A s \in Sessions : defrag[s].lengths = <<>>
    <3>1. ToSet(ready) = {}
      BY <1>1 DEF ToSet
    <3> QED
      BY <3>1, <1>1 DEF InLine
  <2>2. ASSUME NEW s \in known PROVE Of(defrag[s]) \in Nat /\ Of(defrag[s]) > 0
    <3> DEFINE b == Len(defrag[s].bytes)
               e == Expected(PayloadCapacity - b)
               c == ControlCapacity - Len(defrag[s].lengths)
    <3>1. s \in Sessions
      BY <1>1 DEF Inv, TypeOK
    <3>2. b \in Nat /\ b <= PayloadCapacity /\ e > 0
      BY <3>1, <1>1, <2>1, SessionHasRoom, SessionFields DEF Inv
    <3>3. PayloadCapacity - b \in Nat
      BY <3>2, Capacities
    <3>4. e \in Nat
      BY <3>3, ExpectedFits
    <3>5. c \in Nat /\ c > 0
      BY <2>1, <3>1, Capacities
    <3> HIDE DEF e, c
    <3>6. Least(c, e) \in Nat /\ Least(c, e) > 0
      BY <3>2, <3>4, <3>5, LeastOfTwo
    <3> QED
      BY <3>6 DEF e, c
  <2> HIDE DEF Of
  <2>3. Rooms \in SUBSET Nat /\ Rooms # {} /\ \A n \in Rooms : n > 0
    BY <2>2, Capacities
  <2>4. Room = Min(Rooms)
    BY DEF Room, Of
  <2> HIDE DEF Rooms
  <2> QED
    BY <2>3, <2>4, MinOfNaturals
<1>2. Inv /\ InLine /\ Begun => MoreIsAskedFor
  BY <1>1 DEF MoreIsAskedFor
<1> QED
  BY <1>2, AlwaysInLine, PTL
=============================================================================
