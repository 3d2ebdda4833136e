--------------------------- MODULE Channel_proofs ---------------------------
(***************************************************************************)
(* Theorems about Channel for every capacity, every number of messages and *)
(* every bound on peeks: the indices count the messages wherever they have *)
(* wrapped to, the assertions of the two counts hold, what a wait or count *)
(* has promised is kept, and the ring is a bounded first-in first-out      *)
(* queue.  The arithmetic of the indices is in the first section.          *)
(***************************************************************************)
EXTENDS Channel, SequenceTheorems, TLAPS

(* A remainder, when the dividend is less than three times the divisor. *)
LEMMA Remainder ==
  ASSUME NEW m \in Nat \ {0}, NEW x \in Nat, x < 3 * m
  PROVE  x % m = IF x < m THEN x ELSE IF x < 2 * m THEN x - m ELSE x - 2 * m
<1>1. /\ x = m * (x \div m) + (x % m)
      /\ x % m \in 0 .. m - 1 /\ x \div m \in Int
  OBVIOUS
<1> QED
  BY <1>1

LEMMA Sizes == Capacity \in Nat \ {0} /\ Modulus \in Nat \ {0} /\ Modulus = 2 * Capacity
BY ChannelAssumption DEF Modulus

(* The two wraps of an index: into the indices and into the slots. *)
Wrap(x) == x % Modulus
Slot(x) == x % Capacity

LEMMA WrapIs ==
  \A x \in Nat : x < 2 * Modulus => Wrap(x) = IF x < Modulus THEN x ELSE x - Modulus
<1> SUFFICES ASSUME NEW x \in Nat, x < 2 * Modulus
             PROVE  Wrap(x) = IF x < Modulus THEN x ELSE x - Modulus
  OBVIOUS
<1>1. Modulus \in Nat \ {0} /\ x < 3 * Modulus
  BY Sizes
<1>2. x % Modulus = IF x < Modulus THEN x ELSE IF x < 2 * Modulus THEN x - Modulus
                    ELSE x - 2 * Modulus
  BY <1>1, Remainder
<1> QED
  BY <1>2 DEF Wrap

LEMMA SlotIs ==
  \A x \in Nat : x < 3 * Capacity =>
     Slot(x) = IF x < Capacity THEN x ELSE IF x < 2 * Capacity THEN x - Capacity
               ELSE x - 2 * Capacity
<1> SUFFICES ASSUME NEW x \in Nat, x < 3 * Capacity
             PROVE  Slot(x) = IF x < Capacity THEN x ELSE IF x < 2 * Capacity
                              THEN x - Capacity ELSE x - 2 * Capacity
  OBVIOUS
<1>1. x % Capacity = IF x < Capacity THEN x ELSE IF x < 2 * Capacity
                     THEN x - Capacity ELSE x - 2 * Capacity
  BY Sizes, Remainder
<1> QED
  BY <1>1 DEF Slot

(* An index that is advanced, wrapped and offset is in the same slot as one  *)
(* that is advanced and offset at once.                                      *)
LEMMA Turn ==
  ASSUME NEW a \in 0 .. Modulus - 1, NEW n \in Nat, NEW j \in Nat, n + j < Capacity
  PROVE  Slot(Wrap(a + n) + j) = Slot(a + n + j)
<1>1. Wrap(a + n) = IF a + n < Modulus THEN a + n ELSE a + n - Modulus
  BY Sizes, WrapIs
<1>2. /\ Wrap(a + n) + j \in Nat /\ Wrap(a + n) + j < 3 * Capacity
      /\ a + n + j \in Nat /\ a + n + j < 3 * Capacity
  BY <1>1, Sizes
<1> QED
  BY <1>1, <1>2, Sizes, SlotIs

(* How far the slot of the i-th message from the head lies ahead of the next *)
(* slot to be written: the occupied slots are the last ones ahead.           *)
LEMMA Ahead ==
  ASSUME NEW r \in 0 .. Modulus - 1, NEW w \in 0 .. Modulus - 1, NEW occ \in 0 .. Capacity,
         w - r \in {occ, occ - Modulus}, NEW i \in 1 .. Capacity
  PROVE  /\ Slot(r + i - 1) \in 0 .. Capacity - 1
         /\ Slot(Slot(r + i - 1) + Modulus - w)
              = IF i <= occ THEN Capacity + i - 1 - occ ELSE i - 1 - occ
<1> DEFINE s == Slot(r + i - 1)
<1>1. s = IF r + i - 1 < Capacity THEN r + i - 1
          ELSE IF r + i - 1 < 2 * Capacity THEN r + i - 1 - Capacity
          ELSE r + i - 1 - 2 * Capacity
  BY Sizes, SlotIs
<1>2. /\ s \in 0 .. Capacity - 1
      /\ s + Modulus - w \in Nat /\ s + Modulus - w < 3 * Capacity
  BY <1>1, Sizes
<1> HIDE DEF s
<1>3. Slot(s + Modulus - w)
        = IF s + Modulus - w < Capacity THEN s + Modulus - w
          ELSE IF s + Modulus - w < 2 * Capacity THEN s + Modulus - w - Capacity
          ELSE s + Modulus - w - 2 * Capacity
  BY <1>2, Sizes, SlotIs
<1>4. Slot(s + Modulus - w) = IF i <= occ THEN Capacity + i - 1 - occ ELSE i - 1 - occ
  BY <1>1, <1>2, <1>3, Sizes
<1> QED
  BY <1>2, <1>4 DEF s

-----------------------------------------------------------------------------
(* The two indices lie as far apart as there are messages between them, or   *)
(* that far less a turn of the modulus.                                      *)
Apart == /\ write_idx \in 0 .. Modulus - 1 /\ read_idx \in 0 .. Modulus - 1
         /\ sent \in Nat /\ taken \in Nat
         /\ taken <= sent /\ sent <= taken + Capacity
         /\ write_idx - read_idx \in {sent - taken, sent - taken - Modulus}

LEMMA ApartCounts ==
  Apart => /\ Occupied = sent - taken /\ Occupied \in 0..Capacity
           /\ Vacant = Capacity - (sent - taken) /\ Vacant \in 0..Capacity
<1> SUFFICES ASSUME Apart
             PROVE  /\ Occupied = sent - taken /\ Occupied \in 0..Capacity
                    /\ Vacant = Capacity - (sent - taken) /\ Vacant \in 0..Capacity
  OBVIOUS
<1>1. Occupied = Wrap(Modulus + write_idx - read_idx)
  BY DEF Occupied, Wrap
<1>2. Occupied = sent - taken
  BY <1>1, WrapIs, Sizes DEF Apart
<1> QED
  BY <1>2, Sizes DEF Apart, Vacant

(* Where each message between the indices lies. *)
InPlace == \A i \in 1 .. Capacity :
             i <= sent - taken => ring[Slot(read_idx + i - 1)] = taken + i

RingOK == ring \in [0 .. Capacity - 1 -> Nat] /\ Apart /\ InPlace

LEMMA RingInit == Init => RingOK
BY Sizes DEF Init, RingOK, Apart, InPlace

LEMMA PushKeeps ==
  ASSUME RingOK, NEW n \in 0 .. Vacant, Push(n)
  PROVE  /\ RingOK'
         /\ sent' = sent + n /\ taken' = taken
         /\ read_idx' = read_idx /\ Occupied' = Occupied + n
<1>1. n \in Nat /\ sent + n <= taken + Capacity
  BY ApartCounts, Sizes DEF RingOK, Apart
<1>2. /\ write_idx' = Wrap(write_idx + n)
      /\ sent' = sent + n /\ taken' = taken /\ read_idx' = read_idx
  BY DEF Push, Wrap
<1>3. ring' = [i \in DOMAIN ring |->
                 IF Slot(i + Modulus - write_idx) < n
                 THEN sent + Slot(i + Modulus - write_idx) + 1 ELSE ring[i]]
  BY DEF Push, Slot
<1>4. Apart'
  <2>1. Wrap(write_idx + n) = IF write_idx + n < Modulus THEN write_idx + n
                              ELSE write_idx + n - Modulus
    BY <1>1, Sizes, WrapIs DEF RingOK, Apart
  <2> DEFINE w == write_idx + n
             room == sent + n - taken
  <2>2. /\ write_idx \in 0 .. Modulus - 1 /\ read_idx \in 0 .. Modulus - 1
        /\ sent \in Nat /\ taken \in Nat /\ taken <= sent
        /\ write_idx - read_idx \in {sent - taken, sent - taken - Modulus}
    BY DEF RingOK, Apart
  <2>3. /\ write_idx' \in 0 .. Modulus - 1
        /\ write_idx' - read_idx \in {room, room - Modulus}
    <3>1. CASE w < Modulus
      BY <3>1, <1>1, <1>2, <2>1, <2>2, Sizes
    <3>2. CASE ~(w < Modulus)
      BY <3>2, <1>1, <1>2, <2>1, <2>2, Sizes
    <3> QED
      BY <3>1, <3>2
  <2> QED
    BY <1>1, <1>2, <2>2, <2>3, Sizes DEF Apart
<1>5. ring' \in [0 .. Capacity - 1 -> Nat]
  <2>1. \A i \in 0 .. Capacity - 1 : Slot(i + Modulus - write_idx) \in Nat
    BY Sizes, SlotIs DEF RingOK, Apart
  <2> QED
    BY <1>1, <1>3, <2>1 DEF RingOK, Apart
<1>6. InPlace'
  <2> SUFFICES ASSUME NEW i \in 1 .. Capacity, i <= sent' - taken'
               PROVE  ring'[Slot(read_idx' + i - 1)] = taken' + i
    BY DEF InPlace
  <2> DEFINE s == Slot(read_idx + i - 1)
             a == Slot(s + Modulus - write_idx)
  <2>1. sent - taken \in 0 .. Capacity
    BY Sizes DEF RingOK, Apart
  <2>2. /\ s \in 0 .. Capacity - 1
        /\ a = IF i <= sent - taken THEN Capacity + i - 1 - (sent - taken)
               ELSE i - 1 - (sent - taken)
    BY <2>1, Ahead DEF RingOK, Apart
  <2>3. ring'[s] = IF a < n THEN sent + a + 1 ELSE ring[s]
    BY <1>3, <2>2 DEF RingOK
  <2>4. i <= sent - taken => ring[s] = taken + i
    BY DEF RingOK, InPlace
  <2> HIDE DEF s, a
  <2>5. ring'[s] = taken + i
    BY <1>1, <1>2, <2>2, <2>3, <2>4, Sizes DEF RingOK, Apart
  <2> QED
    BY <1>2, <2>5 DEF s
<1>7. Occupied = sent - taken
  BY ApartCounts DEF RingOK
<1>8. Occupied' = sent' - taken'
  <2>1. (Apart => Occupied = sent - taken)'
    BY ApartCounts, PTL
  <2> QED
    BY <1>4, <2>1
<1> QED
  BY <1>1, <1>2, <1>4, <1>5, <1>6, <1>7, <1>8 DEF RingOK, Apart

LEMMA PopKeeps ==
  ASSUME RingOK, NEW n \in 0 .. Occupied, Pop(n)
  PROVE  /\ RingOK'
         /\ sent' = sent /\ taken' = taken + n
         /\ write_idx' = write_idx /\ Occupied' = Occupied - n
<1>1. n \in Nat /\ taken + n <= sent
  BY ApartCounts, Sizes DEF RingOK, Apart
<1>2. /\ read_idx' = Wrap(read_idx + n)
      /\ taken' = taken + n /\ sent' = sent /\ write_idx' = write_idx /\ ring' = ring
  BY DEF Pop, Wrap
<1>3. Apart'
  <2>1. Wrap(read_idx + n) = IF read_idx + n < Modulus THEN read_idx + n
                             ELSE read_idx + n - Modulus
    BY <1>1, Sizes, WrapIs DEF RingOK, Apart
  <2>2. read_idx' \in 0 .. Modulus - 1
    BY <1>1, <1>2, <2>1, Sizes DEF RingOK, Apart
  <2>3. write_idx - read_idx' \in {sent - (taken + n), sent - (taken + n) - Modulus}
    <3>1. CASE read_idx + n < Modulus
      BY <1>1, <1>2, <2>1, <3>1, Sizes DEF RingOK, Apart
    <3>2. CASE ~(read_idx + n < Modulus)
      BY <1>1, <1>2, <2>1, <3>2, Sizes DEF RingOK, Apart
    <3> QED
      BY <3>1, <3>2
  <2>4. write_idx' - read_idx' \in {sent' - taken', sent' - taken' - Modulus}
    BY <1>2, <2>3
  <2>5. /\ write_idx' \in 0 .. Modulus - 1
        /\ sent' \in Nat /\ taken' \in Nat
        /\ taken' <= sent' /\ sent' <= taken' + Capacity
    BY <1>1, <1>2, Sizes DEF RingOK, Apart
  <2> QED
    BY <2>2, <2>4, <2>5 DEF Apart
<1>4. InPlace'
  <2> SUFFICES ASSUME NEW i \in 1 .. Capacity, i <= sent' - taken'
               PROVE  ring'[Slot(read_idx' + i - 1)] = taken' + i
    BY DEF InPlace
  <2>1. i - 1 \in Nat /\ n + (i - 1) < Capacity /\ n + i \in 1 .. Capacity
    BY <1>1, <1>2, Sizes DEF RingOK, Apart
  <2>2. Slot(Wrap(read_idx + n) + (i - 1)) = Slot(read_idx + n + (i - 1))
    BY <1>1, <2>1, Turn DEF RingOK, Apart
  <2>3. ring[Slot(read_idx + (n + i) - 1)] = taken + (n + i)
    BY <1>1, <1>2, <2>1 DEF RingOK, Apart, InPlace
  <2>4. /\ read_idx + n + (i - 1) = read_idx + (n + i) - 1
        /\ taken + (n + i) = taken + n + i
    BY <1>1, Sizes DEF RingOK, Apart
  <2>5. read_idx' + i - 1 = Wrap(read_idx + n) + (i - 1)
    BY <1>1, <1>2, <1>3, Sizes DEF RingOK, Apart
  <2> QED
    BY <1>2, <2>2, <2>3, <2>4, <2>5
<1>5. Occupied = sent - taken
  BY ApartCounts DEF RingOK
<1>6. Occupied' = sent' - taken'
  <2>1. (Apart => Occupied = sent - taken)'
    BY ApartCounts, PTL
  <2> QED
    BY <1>3, <2>1
<1> QED
  BY <1>1, <1>2, <1>3, <1>4, <1>5, <1>6 DEF RingOK, Apart

LEMMA RingUnchanged ==
  ASSUME RingOK, UNCHANGED ringVars
  PROVE  RingOK' /\ Occupied' = Occupied /\ Vacant' = Vacant
BY DEF ringVars, RingOK, Apart, InPlace, Occupied, Vacant

-----------------------------------------------------------------------------
(* A count that is under way will not find more than there is, however far   *)
(* the other side has come since its index was loaded.                       *)
Views ==
  /\ tx.at = "counting" => /\ Capacity + tx.seen >= write_idx
                           /\ VacantUnitsResult \in 0 .. Vacant
  /\ rx.at = "counting" => /\ Modulus + rx.seen >= read_idx
                           /\ AvailUnitsResult \in 0 .. Occupied

ChannelInv == TypeOK /\ RingOK /\ Views /\ PromisesKept

(* What a count that begins now will find. *)
LEMMA FreshViews ==
  ASSUME RingOK
  PROVE  /\ Capacity + read_idx >= write_idx
         /\ (Capacity + read_idx - write_idx) % Modulus = Vacant
         /\ Modulus + write_idx >= read_idx
         /\ (Modulus + write_idx - read_idx) % Modulus = Occupied
<1>1. /\ Capacity + read_idx >= write_idx /\ Modulus + write_idx >= read_idx
      /\ Vacant = Capacity - (sent - taken)
  BY Sizes, ApartCounts DEF RingOK, Apart
<1>2. Wrap(Capacity + read_idx - write_idx) = Vacant
  BY <1>1, Sizes, WrapIs DEF RingOK, Apart
<1> QED
  BY <1>1, <1>2 DEF Wrap, Occupied

(* What the two sides may be in the middle of. *)
LEMMA SideRecords ==
  /\ Idle \in TxState /\ [Idle EXCEPT !.at = "sending"] \in TxState
  /\ IdleRx \in RxState /\ [IdleRx EXCEPT !.at = "polling"] \in RxState
  /\ [IdleRx EXCEPT !.at = "finished"] \in RxState
  /\ \A n \in 0 .. Capacity :
        /\ Promise(n) \in TxState /\ Offer(n) \in RxState
        /\ \A until \in RoomWaits : [Idle EXCEPT !.at = until, !.want = n] \in TxState
        /\ \A until \in Waits : [IdleRx EXCEPT !.at = until, !.want = n] \in RxState
  /\ \A i \in 0 .. Modulus - 1 :
        /\ [Idle EXCEPT !.at = "counting", !.seen = i] \in TxState
        /\ [IdleRx EXCEPT !.at = "counting", !.seen = i] \in RxState
<1>1. 0 \in 0 .. Capacity /\ 0 \in 0 .. Modulus - 1
  BY Sizes
<1> QED
  BY <1>1 DEF Idle, IdleRx, Promise, Offer, TxState, RxState

LEMMA InvInit == Init => ChannelInv
<1> SUFFICES ASSUME Init PROVE ChannelInv
  OBVIOUS
<1>1. RingOK
  BY RingInit
<1>2. Occupied \in 0..Capacity /\ Vacant \in 0..Capacity
  BY <1>1, ApartCounts DEF RingOK
<1>3. tx \in TxState /\ rx \in RxState /\ tx.room = 0 /\ rx.items = 0
      /\ tx.at = "idle" /\ rx.at = "idle"
  BY SideRecords DEF Init, Idle, IdleRx
<1>4. peek \in [moved : BOOLEAN, repeats : Nat, looks : Nat]
      /\ closed \in BOOLEAN /\ shutdown \in BOOLEAN
  BY DEF Init
<1>5. Views /\ PromisesKept
  BY <1>2, <1>3 DEF Views, PromisesKept
<1> QED
  BY <1>1, <1>3, <1>4, <1>5 DEF ChannelInv, TypeOK, RingOK, Apart

(* What is left to show of a step when the ring's part is known. *)
Sides == /\ closed \in BOOLEAN /\ shutdown \in BOOLEAN
         /\ tx \in TxState /\ rx \in RxState
         /\ peek \in [moved : BOOLEAN, repeats : Nat, looks : Nat]

(* The steps of the producer that move messages. *)
LEMMA PushStep ==
  ASSUME ChannelInv, NEW n \in 0 .. Vacant, Push(n), tx' = Idle, UNCHANGED <<closed, shutdown, rx, peek>>
  PROVE  ChannelInv'
<1> USE DEF ChannelInv
<1>1. /\ RingOK' /\ read_idx' = read_idx /\ Occupied' = Occupied + n
  BY PushKeeps
<1>2. Occupied \in 0..Capacity /\ Vacant \in 0..Capacity /\ n \in Nat
  BY ApartCounts, Sizes DEF RingOK
<1>3. Vacant' = Vacant - n /\ Vacant' \in Nat
  BY <1>1, <1>2, Sizes DEF Vacant
<1>4. Sides'
  BY Sizes DEF TypeOK, Sides, Idle, TxState
<1>5. Views'
  BY <1>1, <1>2, Sizes DEF Views, AvailUnitsResult, Idle
<1>6. PromisesKept'
  BY <1>1, <1>2, <1>3, Sizes DEF PromisesKept, Idle, TypeOK, RxState
<1> QED
  BY <1>1, <1>4, <1>5, <1>6 DEF TypeOK, Sides, RingOK, Apart

(* The steps of the consumer that move messages. *)
LEMMA PopStep ==
  ASSUME ChannelInv, NEW n \in 0 .. Occupied, Pop(n), rx' = IdleRx, UNCHANGED <<closed, shutdown, tx>>
  PROVE  ChannelInv'
<1> USE DEF ChannelInv
<1>1. /\ RingOK' /\ write_idx' = write_idx /\ Occupied' = Occupied - n
  BY PopKeeps
<1>2. Occupied \in 0..Capacity /\ Vacant \in 0..Capacity /\ n \in Nat
  BY ApartCounts, Sizes DEF RingOK
<1>3. Vacant' = Vacant + n /\ Occupied' \in Nat
  BY <1>1, <1>2, Sizes DEF Vacant
<1>4. Sides'
  BY Sizes DEF TypeOK, Sides, IdleRx, RxState, Pop
<1>5. Views'
  BY <1>1, <1>2, <1>3, Sizes DEF Views, VacantUnitsResult, IdleRx
<1>6. PromisesKept'
  BY <1>1, <1>2, <1>3, Sizes DEF PromisesKept, IdleRx, TypeOK, TxState
<1> QED
  BY <1>1, <1>4, <1>5, <1>6 DEF TypeOK, Sides, RingOK, Apart

(* The other steps leave the ring alone. *)
LEMMA StillStep ==
  ASSUME ChannelInv, UNCHANGED ringVars, Sides', Views', PromisesKept'
  PROVE  ChannelInv'
<1>1. RingOK'
  BY RingUnchanged DEF ChannelInv
<1> QED
  BY <1>1 DEF ChannelInv, TypeOK, Sides, RingOK, Apart

LEMMA ProducerStep ==
  ASSUME ChannelInv, Producer
  PROVE  ChannelInv'
<1> USE DEF ChannelInv
<1>1. /\ Occupied \in 0..Capacity /\ Vacant \in 0..Capacity
      /\ tx \in TxState /\ Sides /\ RingOK
  BY ApartCounts DEF RingOK, TypeOK, Sides
<1>2. ASSUME NEW n \in 1 .. Capacity + 1, TrySend(n) PROVE ChannelInv'
  <2>1. Smaller(n, Vacant) \in 0 .. Vacant
    BY <1>1, Sizes DEF Smaller
  <2> QED
    BY <1>2, <2>1, PushStep DEF TrySend
<1>3. ASSUME NEW until \in RoomWaits, NEW n \in 1 .. Capacity + 1, WaitVacant(until, n)
      PROVE  ChannelInv'
  <2>1. Smaller(n, Capacity) \in 0 .. Capacity
    BY Sizes DEF Smaller
  <2> DEFINE safe_count == Smaller(n, Capacity)
  <2> HIDE DEF safe_count
  <2>2. /\ UNCHANGED ringVars /\ UNCHANGED <<closed, shutdown, rx, peek>>
        /\ tx' = IF Vacant >= safe_count THEN Promise(safe_count)
                 ELSE [Idle EXCEPT !.at = until, !.want = safe_count]
    BY <1>3 DEF WaitVacant, safe_count
  <2>3. safe_count \in 0 .. Capacity
    BY <2>1 DEF safe_count
  <2>4. Occupied' = Occupied /\ Vacant' = Vacant
    BY <2>2, RingUnchanged
  <2>5. Sides'
    BY <1>1, <2>2, <2>3, SideRecords DEF Sides
  <2>6. Views'
    <3>1. tx'.at # "counting"
      BY <2>2 DEF Promise, Idle, RoomWaits
    <3> QED
      BY <2>2, <2>4, <3>1 DEF Views, AvailUnitsResult, ringVars
  <2>7. PromisesKept'
    BY <1>1, <2>2, <2>3, <2>4 DEF PromisesKept, Promise, Idle
  <2> QED
    BY <2>2, <2>5, <2>6, <2>7, StillStep
<1>4. CASE SendAsync
  <2>1. /\ UNCHANGED ringVars /\ UNCHANGED <<closed, shutdown, rx, peek>>
        /\ tx' = [Idle EXCEPT !.at = "sending"]
    BY <1>4 DEF SendAsync
  <2>2. Occupied' = Occupied /\ Vacant' = Vacant
    BY <2>1, RingUnchanged
  <2> QED
    BY <1>1, <2>1, <2>2, StillStep, Sizes
    DEF Sides, Views, PromisesKept, AvailUnitsResult, TxState, Idle, ringVars
<1>5. CASE SendAsyncRoom
  BY <1>1, <1>5, PushStep DEF SendAsyncRoom
<1>6. CASE SendAsyncGivesUp \/ MarkClosed
  <2>1. /\ UNCHANGED ringVars /\ UNCHANGED <<shutdown, rx, peek>>
        /\ tx' = Idle /\ closed' \in BOOLEAN
    BY <1>1, <1>6 DEF SendAsyncGivesUp, MarkClosed, Sides
  <2>2. Occupied' = Occupied /\ Vacant' = Vacant
    BY <2>1, RingUnchanged
  <2> QED
    BY <1>1, <2>1, <2>2, StillStep, Sizes
    DEF Sides, Views, PromisesKept, AvailUnitsResult, TxState, Idle, ringVars
<1>7. CASE WaitVacantEnds
  <2>1. /\ UNCHANGED ringVars /\ UNCHANGED <<closed, shutdown, rx, peek>>
        /\ (Vacant >= tx.want /\ tx' = Promise(tx.want)) \/ tx' = Idle
    BY <1>7 DEF WaitVacantEnds
  <2>2. Occupied' = Occupied /\ Vacant' = Vacant
    BY <2>1, RingUnchanged
  <2>3. tx.want \in 0 .. Capacity
    BY <1>1 DEF TxState
  <2> QED
    BY <1>1, <2>1, <2>2, <2>3, StillStep, Sizes
    DEF Sides, Views, PromisesKept, AvailUnitsResult, TxState, Promise, Idle, ringVars
<1>8. CASE VacantUnits
  <2>1. /\ UNCHANGED ringVars /\ UNCHANGED <<closed, shutdown, rx, peek>>
        /\ tx' = [Idle EXCEPT !.at = "counting", !.seen = read_idx]
    BY <1>8 DEF VacantUnits
  <2>2. Occupied' = Occupied /\ Vacant' = Vacant
    BY <2>1, RingUnchanged
  <2>3. Sides'
    BY <1>1, <2>1, SideRecords DEF Sides, RingOK, Apart
  <2>4. tx'.at = "counting" /\ tx'.seen = read_idx /\ tx'.room = 0 /\ write_idx' = write_idx
    BY <2>1 DEF Idle, ringVars
  <2>5. VacantUnitsResult' = Vacant
    BY <2>4, FreshViews DEF VacantUnitsResult
  <2>6. Views'
    BY <1>1, <2>1, <2>2, <2>4, <2>5, FreshViews DEF Views, AvailUnitsResult, ringVars
  <2>7. PromisesKept'
    BY <1>1, <2>1, <2>2, <2>4 DEF PromisesKept
  <2> QED
    BY <2>1, <2>3, <2>6, <2>7, StillStep
<1>9. CASE VacantUnitsAnswer
  <2>1. /\ UNCHANGED ringVars /\ UNCHANGED <<closed, shutdown, rx, peek>>
        /\ tx.at = "counting" /\ tx' = Promise(VacantUnitsResult)
    BY <1>9 DEF VacantUnitsAnswer
  <2>2. Occupied' = Occupied /\ Vacant' = Vacant
    BY <2>1, RingUnchanged
  <2>3. VacantUnitsResult \in 0 .. Vacant
    BY <2>1 DEF Views
  <2> QED
    BY <1>1, <2>1, <2>2, <2>3, StillStep, Sizes
    DEF Sides, Views, PromisesKept, AvailUnitsResult, TxState, Promise, Idle, ringVars
<1> QED
  BY <1>2, <1>3, <1>4, <1>5, <1>6, <1>7, <1>8, <1>9 DEF Producer

LEMMA ConsumerStep ==
  ASSUME ChannelInv, Consumer
  PROVE  ChannelInv'
<1> USE DEF ChannelInv
<1>1. /\ Occupied \in 0..Capacity /\ Vacant \in 0..Capacity
      /\ rx \in RxState /\ Sides /\ RingOK
  BY ApartCounts DEF RingOK, TypeOK, Sides
<1>2. ASSUME NEW n \in 1 .. Capacity + 1, TryTake(n) PROVE ChannelInv'
  <2>1. Smaller(n, Occupied) \in 0 .. Occupied
    BY <1>1, Sizes DEF Smaller
  <2> QED
    BY <1>2, <2>1, PopStep DEF TryTake
<1>3. ASSUME NEW until \in Waits, NEW n \in 1 .. Capacity, WaitAvail(until, n)
      PROVE  ChannelInv'
  <2>1. /\ UNCHANGED ringVars /\ UNCHANGED <<closed, shutdown, tx, peek>>
        /\ \/ Occupied >= n /\ rx' = Offer(n)
           \/ rx' = [IdleRx EXCEPT !.at = until, !.want = n]
    BY <1>3 DEF WaitAvail
  <2>2. Occupied' = Occupied /\ Vacant' = Vacant /\ n \in 0 .. Capacity
    BY <2>1, RingUnchanged, Sizes
  <2>3. Sides'
    BY <1>1, <2>1, <2>2, SideRecords DEF Sides
  <2>4. Views'
    <3>1. rx'.at # "counting"
      BY <2>1 DEF Offer, IdleRx, Waits
    <3> QED
      BY <2>1, <2>2, <3>1 DEF Views, VacantUnitsResult, ringVars
  <2>5. rx'.items <= Occupied
    <3>1. CASE Occupied >= n /\ rx' = Offer(n)
      BY <1>1, <2>2, <3>1 DEF Offer, IdleRx
    <3>2. CASE rx' = [IdleRx EXCEPT !.at = until, !.want = n]
      <4>1. rx'.items = 0
        BY <3>2 DEF IdleRx
      <4> QED
        BY <1>1, <4>1
    <3> QED
      BY <2>1, <3>1, <3>2
  <2>6. PromisesKept'
    BY <2>1, <2>2, <2>5 DEF PromisesKept
  <2> QED
    BY <2>1, <2>3, <2>4, <2>6, StillStep
<1>4. CASE TryPeek
  <2>1. UNCHANGED ringVars /\ UNCHANGED <<closed, shutdown, tx, rx>>
    BY <1>4 DEF TryPeek
  <2>2. peek \in [moved : BOOLEAN, repeats : Nat, looks : Nat]
    BY <1>1 DEF Sides
  <2>3. peek' \in [moved : BOOLEAN, repeats : Nat, looks : Nat]
    BY <1>4, <2>2 DEF TryPeek
  <2>4. Occupied' = Occupied /\ Vacant' = Vacant
    BY <2>1, RingUnchanged
  <2>5. Sides' /\ Views' /\ PromisesKept'
    BY <1>1, <2>1, <2>3, <2>4
    DEF Sides, Views, PromisesKept, VacantUnitsResult, AvailUnitsResult, ringVars
  <2> QED
    BY <2>1, <2>5, StillStep
<1>5. CASE WaitAvailEnds
  <2>1. /\ UNCHANGED ringVars /\ UNCHANGED <<closed, shutdown, tx, peek>>
        /\ (Occupied >= rx.want /\ rx' = Offer(rx.want)) \/ rx' = IdleRx
    BY <1>5 DEF WaitAvailEnds
  <2>2. Occupied' = Occupied /\ Vacant' = Vacant /\ rx.want \in 0 .. Capacity
    BY <1>1, <2>1, RingUnchanged DEF RxState
  <2>3. Sides'
    BY <1>1, <2>1, <2>2, SideRecords DEF Sides
  <2>4. Views'
    BY <2>1, <2>2 DEF Views, VacantUnitsResult, Offer, IdleRx, ringVars
  <2>5. PromisesKept'
    BY <1>1, <2>1, <2>2 DEF PromisesKept, Offer, IdleRx
  <2> QED
    BY <2>1, <2>3, <2>4, <2>5, StillStep
<1>6. CASE AvailUnits
  <2>1. /\ UNCHANGED ringVars /\ UNCHANGED <<closed, shutdown, tx, peek>>
        /\ rx' = [IdleRx EXCEPT !.at = "counting", !.seen = write_idx]
    BY <1>6 DEF AvailUnits
  <2>2. Occupied' = Occupied /\ Vacant' = Vacant
    BY <2>1, RingUnchanged
  <2>3. Sides'
    BY <1>1, <2>1, SideRecords DEF Sides, RingOK, Apart
  <2>4. rx'.at = "counting" /\ rx'.seen = write_idx /\ rx'.items = 0 /\ read_idx' = read_idx
    BY <2>1 DEF IdleRx, ringVars
  <2>5. AvailUnitsResult' = Occupied
    BY <2>4, FreshViews DEF AvailUnitsResult
  <2>6. Views'
    BY <1>1, <2>1, <2>2, <2>4, <2>5, FreshViews DEF Views, VacantUnitsResult, ringVars
  <2>7. PromisesKept'
    BY <1>1, <2>1, <2>2, <2>4 DEF PromisesKept
  <2> QED
    BY <2>1, <2>3, <2>6, <2>7, StillStep
<1>7. CASE AvailUnitsAnswer
  <2>1. /\ UNCHANGED ringVars /\ UNCHANGED <<closed, shutdown, tx, peek>>
        /\ rx.at = "counting" /\ rx' = Offer(AvailUnitsResult)
    BY <1>7 DEF AvailUnitsAnswer
  <2>2. Occupied' = Occupied /\ Vacant' = Vacant
    BY <2>1, RingUnchanged
  <2>3. AvailUnitsResult \in 0 .. Occupied /\ AvailUnitsResult \in 0 .. Capacity
    BY <1>1, <2>1, Sizes DEF Views
  <2>4. Sides'
    BY <1>1, <2>1, <2>3, SideRecords DEF Sides
  <2>5. Views'
    BY <2>1, <2>2 DEF Views, VacantUnitsResult, Offer, IdleRx, ringVars
  <2>6. PromisesKept'
    BY <1>1, <2>1, <2>2, <2>3 DEF PromisesKept, Offer, IdleRx
  <2> QED
    BY <2>1, <2>4, <2>5, <2>6, StillStep
<1>8. CASE IsEmpty \/ PollClosed
  <2>1. /\ UNCHANGED ringVars /\ UNCHANGED <<closed, shutdown, tx, peek>>
        /\ rx' \in {IdleRx, [IdleRx EXCEPT !.at = "polling"], [IdleRx EXCEPT !.at = "finished"]}
    BY <1>8 DEF IsEmpty, PollClosed
  <2>2. Occupied' = Occupied /\ Vacant' = Vacant
    BY <2>1, RingUnchanged
  <2>3. Sides'
    BY <1>1, <2>1, SideRecords DEF Sides
  <2>4. Views'
    BY <2>1, <2>2 DEF Views, VacantUnitsResult, IdleRx, ringVars
  <2>5. PromisesKept'
    BY <1>1, <2>1, <2>2 DEF PromisesKept, IdleRx
  <2> QED
    BY <2>1, <2>3, <2>4, <2>5, StillStep
<1> QED
  BY <1>2, <1>3, <1>4, <1>5, <1>6, <1>7, <1>8 DEF Consumer

LEMMA InvStep == ChannelInv /\ [Next]_vars => ChannelInv'
<1> SUFFICES ASSUME ChannelInv, [Next]_vars PROVE ChannelInv'
  OBVIOUS
<1>1. CASE Producer
  BY <1>1, ProducerStep
<1>2. CASE Consumer
  BY <1>2, ConsumerStep
<1>3. CASE Shutdown \/ Quiescent \/ Entangled \/ UNCHANGED vars
  <2>1. /\ UNCHANGED ringVars /\ UNCHANGED <<closed, tx, rx, peek>>
        /\ shutdown' \in BOOLEAN
    BY <1>3 DEF Shutdown, Quiescent, Entangled, vars, ChannelInv, TypeOK
  <2>2. Occupied' = Occupied /\ Vacant' = Vacant
    BY <2>1, RingUnchanged DEF ChannelInv
  <2> QED
    BY <2>1, <2>2, StillStep DEF ChannelInv, TypeOK, Sides, Views, PromisesKept,
       VacantUnitsResult, AvailUnitsResult, ringVars
<1> QED
  BY <1>1, <1>2, <1>3 DEF Next

LEMMA InvCorrect == Spec => []ChannelInv
BY InvInit, InvStep, PTL DEF Spec

(* Type correctness: in particular an answer of vacant_units or avail_units  *)
(* and the room or messages a wait has promised are at most the capacity.    *)
THEOREM TypeCorrect == Spec => []TypeOK
<1>1. ChannelInv => TypeOK
  BY DEF ChannelInv
<1> QED
  BY <1>1, InvCorrect, PTL

(* The indices count the messages sent and not yet taken, through every wrap *)
(* of either of them.                                                        *)
THEOREM IndicesAlwaysCount == Spec => []IndicesCount
<1>1. ChannelInv => IndicesCount
  BY ApartCounts, Sizes DEF ChannelInv, RingOK, IndicesCount
<1> QED
  BY <1>1, InvCorrect, PTL

(* Neither of the two counts subtracts below zero or exceeds the capacity,   *)
(* although the other side may move between the loads of the two indices.    *)
THEOREM AssertionsAlwaysHold == Spec => []AssertionsHold
<1>1. ChannelInv => AssertionsHold
  BY ApartCounts, Sizes DEF ChannelInv, RingOK, Views, AssertionsHold
<1> QED
  BY <1>1, InvCorrect, PTL

(* What a wait or a count has promised holds until the side it was promised  *)
(* to has used it.                                                           *)
THEOREM PromisesAlwaysKept == Spec => []PromisesKept
<1>1. ChannelInv => PromisesKept
  BY DEF ChannelInv
<1> QED
  BY <1>1, InvCorrect, PTL

(* As long as nothing has been taken since the last peek, each repeat that   *)
(* is counted was a look at the same message.                                *)
LooksCover == ~peek.moved => peek.repeats <= peek.looks

(* is_showstopper does not accuse a message that was peeked at less often    *)
(* than the threshold.                                                       *)
THEOREM ShowstoppersAreReal == Spec => []NoFalseShowstopper
<1>1. Init => LooksCover
  BY DEF Init, LooksCover
<1>2. TypeOK /\ LooksCover /\ [Next]_vars => LooksCover'
  <2> SUFFICES ASSUME TypeOK, LooksCover, [Next]_vars PROVE LooksCover'
    OBVIOUS
  <2>1. peek \in [moved : BOOLEAN, repeats : Nat, looks : Nat]
    BY DEF TypeOK
  <2>2. ASSUME NEW n \in 1 .. Capacity + 1, TryTake(n) PROVE LooksCover'
    <3>1. peek' = peek \/ peek'.moved = TRUE
      BY <2>2 DEF TryTake, Pop
    <3> QED
      BY <3>1 DEF LooksCover
  <2>3. CASE TryPeek
    BY <2>1, <2>3 DEF TryPeek, LooksCover
  <2>4. CASE UNCHANGED peek
    BY <2>4 DEF LooksCover
  <2>5. \/ \E n \in 1 .. Capacity + 1 : TryTake(n)
        \/ TryPeek \/ UNCHANGED peek
    BY DEF Next, vars, Producer, Consumer, TrySend, SendAsync, SendAsyncRoom, SendAsyncGivesUp,
       WaitVacant, WaitVacantEnds, VacantUnits, VacantUnitsAnswer, MarkClosed, WaitAvail,
       WaitAvailEnds, AvailUnits, AvailUnitsAnswer, IsEmpty, PollClosed, Shutdown, Quiescent,
       Entangled
  <2> QED
    BY <2>2, <2>3, <2>4, <2>5
<1>3. TypeOK /\ LooksCover => NoFalseShowstopper
  <2> SUFFICES ASSUME TypeOK, LooksCover, NEW threshold \in 2 .. MaxPeeks + 1,
                      IsShowstopper(threshold)
               PROVE  peek.looks >= threshold
    BY DEF NoFalseShowstopper
  <2>1. peek.repeats \in Nat /\ peek.looks \in Nat /\ threshold \in Nat
    BY ChannelAssumption DEF TypeOK
  <2> QED
    BY <2>1 DEF IsShowstopper, LooksCover
<1> QED
  BY <1>1, <1>2, <1>3, TypeCorrect, PTL DEF Spec

-----------------------------------------------------------------------------
(* The refinement.  The queue of the abstract channel is the run of messages *)
(* between the last one taken and the last one sent.                         *)
Window(t, n) == [i \in 1..n |-> t + i]

LEMMA WindowIsSeq ==
  ASSUME NEW t \in Nat, NEW n \in Nat
  PROVE  Window(t, n) \in Seq(Nat) /\ Len(Window(t, n)) = n
<1>1. \A i \in 1..n : t + i \in Nat
  OBVIOUS
<1> QED
  BY <1>1 DEF Window

LEMMA WindowGrows ==
  ASSUME NEW t \in Nat, NEW n \in Nat, NEW k \in Nat
  PROVE  Window(t, n + k) = Window(t, n) \o Window(t + n, k)
<1> DEFINE left == Window(t, n + k)
           right == Window(t, n) \o Window(t + n, k)
<1>1. left \in Seq(Nat) /\ Len(left) = n + k
  BY WindowIsSeq
<1>2. /\ Window(t, n) \in Seq(Nat) /\ Len(Window(t, n)) = n
      /\ Window(t + n, k) \in Seq(Nat) /\ Len(Window(t + n, k)) = k
  BY WindowIsSeq
<1>3. /\ right \in Seq(Nat) /\ Len(right) = n + k
      /\ \A i \in 1 .. n + k : right[i] = IF i <= n THEN Window(t, n)[i] ELSE Window(t + n, k)[i - n]
  <2> DEFINE a == Window(t, n)
             b == Window(t + n, k)
  <2> HIDE DEF a, b
  <2>1. a \in Seq(Nat) /\ Len(a) = n /\ b \in Seq(Nat) /\ Len(b) = k
    BY <1>2 DEF a, b
  <2>2. /\ a \o b \in Seq(Nat) /\ Len(a \o b) = n + k
        /\ \A i \in 1 .. n + k : (a \o b)[i] = IF i <= n THEN a[i] ELSE b[i - n]
    BY <2>1, ConcatProperties
  <2> QED
    BY <2>2 DEF a, b
<1>4. ASSUME NEW i \in 1 .. n + k PROVE left[i] = right[i]
  <2>1. left[i] = t + i
    BY DEF Window
  <2>2. CASE i <= n
    BY <1>3, <2>1, <2>2 DEF Window
  <2>3. CASE ~(i <= n)
    <3>1. i - n \in 1 .. k
      BY <2>3
    <3>2. Window(t + n, k)[i - n] = t + n + (i - n)
      BY <3>1 DEF Window
    <3> QED
      BY <1>3, <2>1, <2>3, <3>2
  <2> QED
    BY <2>2, <2>3
<1> HIDE DEF left, right
<1>5. left = right
  BY <1>1, <1>3, <1>4, SeqEqual
<1> QED
  BY <1>5 DEF left, right

LEMMA WindowShrinks ==
  ASSUME NEW t \in Nat, NEW n \in Nat, NEW k \in 1..n
  PROVE  Window(t + k, n - k) = SubSeq(Window(t, n), k + 1, n)
<1> DEFINE left == Window(t + k, n - k)
           right == SubSeq(Window(t, n), k + 1, n)
<1>1. left \in Seq(Nat) /\ Len(left) = n - k
  <2>1. t + k \in Nat /\ n - k \in Nat
    OBVIOUS
  <2> QED
    BY <2>1, WindowIsSeq
<1>2. \A i \in k + 1 .. n : Window(t, n)[i] = t + i /\ Window(t, n)[i] \in Nat
  BY DEF Window
<1>3. /\ right \in Seq(Nat) /\ Len(right) = n - k
      /\ \A i \in 1 .. n - k : right[i] = Window(t, n)[k + i]
  <2>1. k + 1 \in Int /\ n \in Int
    OBVIOUS
  <2>2. /\ right \in Seq(Nat)
        /\ Len(right) = IF k + 1 <= n THEN n - (k + 1) + 1 ELSE 0
        /\ \A i \in 1 .. n - (k + 1) + 1 : right[i] = Window(t, n)[(k + 1) + i - 1]
    BY <1>2, <2>1, SubSeqProperties
  <2>3. n - (k + 1) + 1 = n - k /\ \A i \in 1 .. n - k : (k + 1) + i - 1 = k + i
    OBVIOUS
  <2> HIDE DEF right
  <2> QED
    BY <2>2, <2>3
<1>4. ASSUME NEW i \in 1 .. n - k PROVE left[i] = right[i]
  <2>1. left[i] = t + k + i
    BY DEF Window
  <2>2. k + i \in k + 1 .. n
    OBVIOUS
  <2>3. right[i] = t + (k + i)
    BY <1>2, <1>3, <2>2
  <2> QED
    BY <2>1, <2>3
<1> HIDE DEF left, right
<1>5. left = right
  BY <1>1, <1>3, <1>4, SeqEqual
<1> QED
  BY <1>5 DEF left, right

Queue == [i \in 1..Occupied |-> ring[(read_idx + i - 1) % Capacity]]

LEMMA QueueIsWindow == RingOK => Queue = Window(taken, Occupied)
<1> SUFFICES ASSUME RingOK PROVE Queue = Window(taken, Occupied)
  OBVIOUS
<1>1. Occupied = sent - taken /\ Occupied \in 0..Capacity
  BY ApartCounts DEF RingOK
<1>2. ASSUME NEW i \in 1..Occupied PROVE ring[(read_idx + i - 1) % Capacity] = taken + i
  <2>1. i \in 1 .. Capacity /\ i <= sent - taken
    BY <1>1, Sizes
  <2> QED
    BY <2>1 DEF RingOK, InPlace, Slot
<1> QED
  BY <1>2 DEF Queue, Window

(* A push is a Send of the abstract channel, and a pop is a Receive, unless  *)
(* they move nothing.                                                        *)
LEMMA PushRefines ==
  ASSUME RingOK, NEW n \in 0 .. Vacant, Push(n)
  PROVE  Fifo!Send \/ UNCHANGED Fifo!vars
<1>1. RingOK' /\ taken' = taken /\ Occupied' = Occupied + n
  BY PushKeeps
<1>2. /\ Occupied \in Nat /\ taken \in Nat /\ n \in Nat
      /\ Vacant = Capacity - Occupied
  BY ApartCounts, Sizes DEF RingOK, Apart, Vacant
<1>3. Queue = Window(taken, Occupied) /\ Len(Queue) = Occupied
  BY <1>1, <1>2, QueueIsWindow, WindowIsSeq
<1>4. Queue' = Window(taken, Occupied + n)
  <2>1. (RingOK => Queue = Window(taken, Occupied))'
    BY QueueIsWindow, PTL
  <2> QED
    BY <1>1, <2>1 DEF Window
<1>5. CASE n = 0
  <2>1. Queue' = Queue
    BY <1>2, <1>3, <1>4, <1>5
  <2> QED
    BY <1>1, <2>1 DEF Fifo!vars, Queue
<1>6. CASE n # 0
  <2>1. Queue' = Queue \o Window(taken + Occupied, n)
    BY <1>2, <1>3, <1>4, WindowGrows
  <2>2. n \in 1 .. Capacity - Len(Queue)
    BY <1>2, <1>3, <1>6, Sizes
  <2>3. Window(taken + Occupied, n) = [i \in 1..n |-> taken + Len(Queue) + i]
    BY <1>3 DEF Window
  <2> QED
    BY <1>1, <2>1, <2>2, <2>3 DEF Fifo!Send, Queue
<1> QED
  BY <1>5, <1>6

LEMMA PopRefines ==
  ASSUME RingOK, NEW n \in 0 .. Occupied, Pop(n)
  PROVE  Fifo!Receive \/ UNCHANGED Fifo!vars
<1>1. RingOK' /\ taken' = taken + n /\ Occupied' = Occupied - n
  BY PopKeeps
<1>2. Occupied \in Nat /\ taken \in Nat /\ n \in Nat
  BY ApartCounts, Sizes DEF RingOK, Apart
<1>3. Queue = Window(taken, Occupied) /\ Len(Queue) = Occupied
  BY <1>1, <1>2, QueueIsWindow, WindowIsSeq
<1>4. Queue' = Window(taken + n, Occupied - n)
  <2>1. (RingOK => Queue = Window(taken, Occupied))'
    BY QueueIsWindow, PTL
  <2> QED
    BY <1>1, <2>1 DEF Window
<1>5. CASE n = 0
  <2>1. Queue' = Queue /\ taken' = taken
    BY <1>1, <1>2, <1>3, <1>4, <1>5
  <2> QED
    BY <2>1 DEF Fifo!vars, Queue
<1>6. CASE n # 0
  <2>1. n \in 1 .. Occupied
    BY <1>2, <1>6
  <2>2. Queue' = SubSeq(Queue, n + 1, Len(Queue))
    BY <1>2, <1>3, <1>4, <2>1, WindowShrinks
  <2> QED
    BY <1>1, <1>3, <2>1, <2>2 DEF Fifo!Receive, Queue
<1> QED
  BY <1>5, <1>6

LEMMA QueueInit == Init => Fifo!Init
<1> SUFFICES ASSUME Init PROVE Queue = <<>> /\ taken = 0
  BY DEF Fifo!Init, Queue
<1>1. Occupied = 0 /\ taken = 0
  BY RingInit, ApartCounts DEF Init, RingOK
<1> QED
  BY <1>1 DEF Queue

LEMMA StepRefines == ChannelInv /\ [Next]_vars => [Fifo!Next]_Fifo!vars
<1> SUFFICES ASSUME ChannelInv, [Next]_vars PROVE Fifo!Next \/ UNCHANGED Fifo!vars
  OBVIOUS
<1>0. RingOK /\ Occupied \in 0..Capacity /\ Vacant \in 0..Capacity
  BY ApartCounts DEF ChannelInv, RingOK
<1>1. ASSUME NEW n \in 1 .. Capacity + 1, TrySend(n) PROVE Fifo!Next \/ UNCHANGED Fifo!vars
  <2>1. Smaller(n, Vacant) \in 0 .. Vacant
    BY <1>0, Sizes DEF Smaller
  <2>2. Fifo!Send \/ UNCHANGED Fifo!vars
    BY <1>0, <1>1, <2>1, PushRefines DEF TrySend
  <2> QED
    BY <2>2 DEF Fifo!Next
<1>2. CASE SendAsyncRoom
  <2>1. 1 \in 0 .. Vacant
    BY <1>0, <1>2 DEF SendAsyncRoom
  <2>2. Fifo!Send \/ UNCHANGED Fifo!vars
    BY <1>0, <1>2, <2>1, PushRefines DEF SendAsyncRoom
  <2> QED
    BY <2>2 DEF Fifo!Next
<1>3. ASSUME NEW n \in 1 .. Capacity + 1, TryTake(n) PROVE Fifo!Next \/ UNCHANGED Fifo!vars
  <2>1. Smaller(n, Occupied) \in 0 .. Occupied
    BY <1>0, Sizes DEF Smaller
  <2>2. Fifo!Receive \/ UNCHANGED Fifo!vars
    BY <1>0, <1>3, <2>1, PopRefines DEF TryTake
  <2> QED
    BY <2>2 DEF Fifo!Next
<1>4. ASSUME UNCHANGED ringVars PROVE UNCHANGED Fifo!vars
  BY <1>4 DEF ringVars, Fifo!vars, Occupied
<1>5. CASE Producer
  <2>1. \/ \E n \in 1 .. Capacity + 1 : TrySend(n)
        \/ SendAsyncRoom
        \/ UNCHANGED ringVars
    BY <1>5 DEF Producer, WaitVacant, SendAsync, SendAsyncGivesUp, WaitVacantEnds, VacantUnits,
       VacantUnitsAnswer, MarkClosed
  <2> QED
    BY <1>1, <1>2, <1>4, <2>1
<1>6. CASE Consumer
  <2>1. (\E n \in 1 .. Capacity + 1 : TryTake(n)) \/ UNCHANGED ringVars
    BY <1>6 DEF Consumer, WaitAvail, TryPeek, WaitAvailEnds, AvailUnits, AvailUnitsAnswer,
       IsEmpty, PollClosed
  <2> QED
    BY <1>3, <1>4, <2>1
<1>7. CASE Shutdown \/ Quiescent \/ Entangled \/ UNCHANGED vars
  BY <1>4, <1>7 DEF Shutdown, Quiescent, Entangled, vars
<1> QED
  BY <1>5, <1>6, <1>7 DEF Next

(* The channel implements the bounded queue: whatever the two sides do in    *)
(* whatever order, nothing is lost, doubled or overtaken, and never more     *)
(* than Capacity messages wait.                                              *)
THEOREM ChannelIsFifo == Spec => ImplementsFifo
BY InvCorrect, QueueInit, StepRefines, PTL DEF Spec, ImplementsFifo, Fifo!Spec
=============================================================================
