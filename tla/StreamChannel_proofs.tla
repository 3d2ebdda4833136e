------------------------ MODULE StreamChannel_proofs ------------------------
(***************************************************************************)
(* Theorems about StreamChannel for every capacity of the two rings and    *)
(* every number and length of items: the rings stay paired, no cut out of  *)
(* the payload ring is out of range, promised room is there, and the two   *)
(* rings are one first-in first-out queue of items with their bytes.       *)
(*                                                                         *)
(* The theorems about the rings assume that take_slice is given byte       *)
(* buffers as large as the payload ring; with a smaller one they are false *)
(* (StreamTakeSlice.cfg).                                                  *)
(***************************************************************************)
EXTENDS StreamChannel, SequenceTheorems, TLAPS

WholeTargets == \A t \in Targets : t >= PayloadCapacity

(* Each item starts where the one before it has ended. *)
Layout ==
  /\ \A i \in 1 .. Len(items) : items[i].first = Before(i - 1)
  /\ \A i, j \in 0 .. Len(items) : i <= j => Before(i) <= Before(j)

(* A producer that has closed sends no more, one that is blocked still has   *)
(* room for its item, and one that was told of room is in no call.           *)
TxInv ==
  /\ closed # 0 => tx.at \in {"idle", "closing"} \cup RoomWaits
  /\ tx.at = "blocked" => 1 <= tx.items /\ tx.items <= VacantItems
  /\ tx.at = "closing" => closed = 1
  /\ tx.then = "told" => tx.at = "idle"
  /\ RoomAsTold

(* What the consumer is about to take, or has taken half of, is a run of     *)
(* items with their bytes; and what its looks for the end have seen.         *)
Taking ==
  /\ rx.at = "owing" => cr >= 1 /\ rx.need = Before(cr) - Before(cr - 1)
  /\ rx.at = "peeked" => rx.count <= WaitingItems
  /\ rx.at \in {"copying", "copied"} =>
       /\ rx.count <= WaitingItems /\ rx.need = Before(cr + rx.count) - Before(cr)
       /\ rx.take = cr + 1 .. cr + rx.count

Looked ==
  /\ rx.at \in {"items closed", "no bytes", "finished"} => closed >= 1
  /\ rx.at \in {"no bytes", "finished"} => WaitingBytes = 0
  /\ rx.at = "finished" => closed = 2

Inv ==
  /\ TypeOK /\ Paired /\ SlicesInRange /\ PromisesKept
  /\ Layout /\ TxInv /\ Taking /\ Looked

-----------------------------------------------------------------------------
LEMMA Sizes ==
  /\ ControlCapacity \in Nat \ {0} /\ PayloadCapacity \in Nat \ {0}
  /\ Lengths \subseteq 0..PayloadCapacity
BY StreamAssumption

LEMMA BeforeIsNat == ASSUME TypeOK PROVE \A n \in 0 .. Len(items) : Before(n) \in Nat
<1> SUFFICES ASSUME NEW n \in 0 .. Len(items) PROVE Before(n) \in Nat
  OBVIOUS
<1>0. items \in Seq([first : Nat, len : 0..PayloadCapacity])
  BY DEF TypeOK
<1>1. n # 0 => items[n] \in [first : Nat, len : 0..PayloadCapacity]
  <2>1. Len(items) \in Nat /\ (n # 0 => n \in 1 .. Len(items))
    BY <1>0
  <2> QED
    BY <1>0, <2>1, ElementOfSeq, Zenon
<1>2. n # 0 => items[n].first \in Nat /\ items[n].len \in Nat
  BY <1>1, Sizes
<1> QED
  BY <1>2 DEF Before, End

LEMMA Counts ==
  ASSUME TypeOK
  PROVE  /\ Len(items) \in Nat /\ cr \in Nat /\ pw \in Nat /\ pr \in Nat
         /\ cr <= Len(items) /\ pr <= pw
         /\ WaitingItems \in Nat /\ WaitingBytes \in Nat
         /\ VacantItems \in Int /\ VacantBytes \in Int
         /\ closed \in 0..2 /\ shutdown \in BOOLEAN
<1>1. cr \in 0 .. Len(items) /\ pw \in Nat /\ pr \in 0..pw
      /\ closed \in 0..2 /\ shutdown \in BOOLEAN
  BY DEF TypeOK
<1>2. Len(items) \in Nat
  BY LenProperties DEF TypeOK
<1> QED
  BY <1>1, <1>2, Sizes DEF WaitingItems, WaitingBytes, VacantItems, VacantBytes

LEMMA TxFields ==
  ASSUME TypeOK
  PROVE  /\ tx.at \in {"idle", "pushed", "sending", "slice", "iter", "blocked",
                       "closing"} \cup RoomWaits
         /\ tx.then \in {"idle", "slice", "iter", "told"} /\ tx.len \in 0..PayloadCapacity
         /\ tx.items \in 0..ControlCapacity /\ tx.bytes \in 0..PayloadCapacity
         /\ tx.len \in Nat /\ tx.items \in Nat /\ tx.bytes \in Nat
<1>1. tx \in TxState
  BY DEF TypeOK
<1>2. /\ tx.at \in {"idle", "pushed", "sending", "slice", "iter", "blocked",
                    "closing"} \cup RoomWaits
      /\ tx.then \in {"idle", "slice", "iter", "told"} /\ tx.len \in 0..PayloadCapacity
      /\ tx.items \in 0..ControlCapacity /\ tx.bytes \in 0..PayloadCapacity
  BY <1>1, Zenon DEF TxState
<1> QED
  BY <1>2, Sizes

LEMMA RxFields ==
  ASSUME TypeOK
  PROVE  /\ rx.count \in 0..ControlCapacity /\ rx.need \in 0..PayloadCapacity
         /\ rx.take \subseteq 1 .. Len(items)
         /\ rx.count \in Nat /\ rx.need \in Nat
<1>1. rx \in RxState
  BY DEF TypeOK
<1>2. /\ rx.count \in 0..ControlCapacity /\ rx.need \in 0..PayloadCapacity
      /\ rx.take \in SUBSET (1 .. Len(items))
  BY <1>1, Zenon DEF RxState
<1> QED
  BY <1>2, Sizes

(* As long as no item is pushed. *)
LEMMA SameItems ==
  ASSUME TypeOK, UNCHANGED items
  PROVE  /\ Len(items)' = Len(items)
         /\ \A n : Before(n)' = Before(n)
         /\ Layout => Layout'
<1>1. \A n : Before(n)' = Before(n)
  BY DEF Before, End
<1> QED
  BY <1>1 DEF Layout

LEMMA InitInv == Init => Inv
<1> SUFFICES ASSUME Init PROVE Inv
  OBVIOUS
<1> USE DEF Init, TxIdle, RxIdle, Tx, Rx
<1>0. Len(items) = 0 /\ Before(0) = 0
  BY DEF Before
<1>1. TypeOK
  <2>1. tx \in TxState
    BY Sizes DEF TxState
  <2>2. rx \in RxState
    BY Sizes DEF RxState
  <2> QED
    <3>1. items \in Seq([first : Nat, len : 0..PayloadCapacity])
      OBVIOUS
    <3>2. cr \in 0 .. Len(items) /\ pw \in Nat /\ pr \in 0..pw /\ closed \in 0..2
          /\ out.from \in Nat /\ out.to \in Nat
      BY <1>0
    <3> QED
      BY <2>1, <2>2, <3>1, <3>2 DEF TypeOK
<1>2. Paired
  BY <1>0, Sizes DEF Paired, Pending, Owed, Ahead, WaitingItems, WaitingBytes
<1>3. SlicesInRange
  BY <1>0 DEF SlicesInRange, WaitingBytes
<1>4. PromisesKept
  BY <1>0, Sizes DEF PromisesKept, VacantItems, VacantBytes, WaitingItems, WaitingBytes
<1>5. Layout
  BY <1>0, SMT DEF Layout
<1>6. TxInv /\ Taking /\ Looked
  BY DEF TxInv, RoomAsTold, Taking, Looked
<1> QED
  BY <1>1, <1>2, <1>3, <1>4, <1>5, <1>6 DEF Inv

-----------------------------------------------------------------------------
(* Steps of the producer that leave the rings alone. *)
LEMMA TxStep ==
  ASSUME Inv, UNCHANGED <<ringVars, rx>>,
         tx' \in TxState, closed' \in 0..2, closed' >= closed, shutdown' \in BOOLEAN,
         tx.at # "pushed", tx'.at # "pushed",
         tx'.at \in {"idle", "slice", "iter"} /\ tx'.then # "told" =>
           tx'.items <= VacantItems /\ tx'.bytes <= VacantBytes,
         TxInv'
  PROVE  Inv'
<1> USE DEF Inv
<1>u. /\ items' = items /\ cr' = cr /\ pw' = pw /\ pr' = pr /\ out' = out
      /\ rx' = rx
  BY DEF ringVars
<1>0. /\ Len(items)' = Len(items) /\ \A n : Before(n)' = Before(n)
      /\ Layout'
  BY <1>u, SameItems
<1>1. TypeOK'
  BY <1>u DEF TypeOK, RxState, TxState
<1>2. /\ WaitingItems' = WaitingItems /\ WaitingBytes' = WaitingBytes
      /\ VacantItems' = VacantItems /\ VacantBytes' = VacantBytes
  BY <1>0, <1>u DEF WaitingItems, WaitingBytes, VacantItems, VacantBytes
<1>3. Paired'
  <2>1. Pending' = Pending /\ Owed' = Owed /\ Ahead' = Ahead
    BY <1>u DEF Pending, Owed, Ahead
  <2> QED
    BY <1>0, <1>2, <1>u, <2>1 DEF Paired
<1>4. SlicesInRange'
  BY <1>0, <1>2, <1>u DEF SlicesInRange
<1>5. PromisesKept'
  <2>1. rx.at = "idle" => rx.count <= WaitingItems
    BY DEF PromisesKept
  <2> QED
    <3>1. tx'.at # "pushed" /\ VacantItems \in Int
      BY Counts
    <3> QED
      BY <1>u, <1>2, <2>1, <3>1 DEF PromisesKept
<1>6. Taking'
  BY <1>0, <1>2, <1>u DEF Taking
<1>7. Looked'
  <2>1. closed \in 0..2
    BY DEF TypeOK
  <2>2. (closed >= 1 => closed' >= 1) /\ (closed = 2 => closed' = 2)
    BY <2>1
  <2> QED
    BY <1>u, <1>2, <2>2 DEF Looked
<1> QED
  BY <1>0, <1>1, <1>3, <1>4, <1>5, <1>6, <1>7

(* Steps of the consumer that leave the rings alone. *)
LEMMA RxStep ==
  ASSUME Inv, UNCHANGED <<ringVars, closed, shutdown, tx>>,
         rx' \in RxState,
         rx.at \notin {"owing", "copied"}, rx'.at \notin {"owing", "copied"},
         rx'.at = "idle" => rx'.count <= WaitingItems,
         Taking', Looked'
  PROVE  Inv'
<1> USE DEF Inv
<1>u. /\ items' = items /\ cr' = cr /\ pw' = pw /\ pr' = pr /\ out' = out
      /\ closed' = closed /\ shutdown' = shutdown /\ tx' = tx
  BY DEF ringVars
<1>0. /\ Len(items)' = Len(items) /\ \A n : Before(n)' = Before(n)
      /\ Layout'
  BY <1>u, SameItems
<1>1. TypeOK'
  <2>1. RxState' = RxState
    BY <1>0, <1>u DEF RxState
  <2> QED
    BY <1>u, <2>1 DEF TypeOK, TxState
<1>2. /\ WaitingItems' = WaitingItems /\ WaitingBytes' = WaitingBytes
      /\ VacantItems' = VacantItems /\ VacantBytes' = VacantBytes
  BY <1>0, <1>u DEF WaitingItems, WaitingBytes, VacantItems, VacantBytes
<1>3. Paired'
  <2>1. Pending' = Pending /\ Owed' = Owed /\ Ahead' = Ahead
    BY <1>u DEF Pending, Owed, Ahead
  <2> QED
    BY <1>0, <1>2, <1>u, <2>1 DEF Paired
<1>4. SlicesInRange'
  <2>1. cr \in 0 .. Len(items) /\ rx'.count \in Nat /\ pw \in Nat /\ pr \in Nat
        /\ pr <= pw
    <3>1. cr \in 0 .. Len(items) /\ pw \in Nat /\ pr \in Nat /\ pr <= pw
      BY Counts
    <3>2. rx'.count \in Nat
      <4>1. rx'.count \in 0 .. ControlCapacity
        BY Zenon DEF RxState
      <4> QED
        BY <4>1, Sizes
    <3> QED
      BY <3>1, <3>2
  <2>2. Owed = 0 /\ Ahead = 0 /\ Pending \in Nat
    BY DEF Owed, Ahead, Pending, TypeOK, TxState
  <2>3. Before(Len(items)) \in Nat /\ Before(cr) \in Nat
    BY <2>1, BeforeIsNat
  <2>4. Before(Len(items)) - Before(cr) <= WaitingBytes
    BY <2>1, <2>2, <2>3 DEF Paired, WaitingBytes
  <2>5. rx'.at = "copying" => rx'.need <= WaitingBytes
    <3> SUFFICES ASSUME rx'.at = "copying" PROVE rx'.need <= WaitingBytes
      OBVIOUS
    <3>1. rx'.count <= WaitingItems /\ rx'.need = Before(cr + rx'.count) - Before(cr)
      BY <1>0, <1>2, <1>u DEF Taking
    <3>2. cr + rx'.count \in 0 .. Len(items)
      BY <3>1, <2>1 DEF WaitingItems
    <3>3. Before(cr + rx'.count) <= Before(Len(items)) /\ Before(cr + rx'.count) \in Nat
      BY <3>2, BeforeIsNat DEF Layout
    <3> QED
      BY <3>1, <3>3, <2>3, <2>4, <2>1 DEF WaitingBytes
  <2> QED
    BY <1>0, <1>2, <1>u, <2>4, <2>5 DEF SlicesInRange
<1>5. PromisesKept'
  BY <1>2, <1>u DEF PromisesKept
<1>6. TxInv'
  BY <1>2, <1>u DEF TxInv, RoomAsTold
<1> QED
  BY <1>0, <1>1, <1>3, <1>4, <1>5, <1>6

(* The producer pushes the bytes of an item into room that is there. *)
LEMMA PushPayloadStep ==
  ASSUME Inv,
         NEW len \in 0..PayloadCapacity, NEW then \in {"idle", "slice", "iter"},
         NEW i \in 0..ControlCapacity, NEW b \in 0..PayloadCapacity,
         PushPayload(len, then, i, b), tx.at # "pushed", closed = 0,
         i + 1 <= VacantItems, b + len <= VacantBytes
  PROVE  Inv'
<1> USE DEF Inv
<1>u. /\ items' = items /\ cr' = cr /\ pw' = pw + len /\ pr' = pr /\ out' = out
      /\ closed' = closed /\ shutdown' = shutdown /\ rx' = rx
      /\ tx' = Tx("pushed", then, len, i, b)
  BY DEF PushPayload
<1>0. /\ Len(items)' = Len(items) /\ \A n : Before(n)' = Before(n)
      /\ Layout'
  BY <1>u, SameItems
<1>t. /\ tx'.at = "pushed" /\ tx'.then = then /\ tx'.len = len
      /\ tx'.items = i /\ tx'.bytes = b
  BY <1>u DEF Tx
<1>c. /\ Len(items) \in Nat /\ cr \in Nat /\ pw \in Nat /\ pr \in Nat
      /\ cr <= Len(items) /\ pr <= pw /\ len \in Nat /\ b \in Nat /\ i \in Nat
      /\ VacantItems \in Int /\ VacantBytes \in Int
      /\ WaitingItems \in Nat /\ WaitingBytes \in Nat
  BY Counts, Sizes
<1>1. TypeOK'
  <2>1. tx' \in TxState
    BY <1>u DEF Tx, TxState
  <2>2. rx' \in RxState' /\ items' \in Seq([first : Nat, len : 0..PayloadCapacity])
        /\ cr' \in 0 .. Len(items)' /\ out'.from \in Nat /\ out'.to \in Nat
        /\ closed' \in 0..2 /\ shutdown' \in BOOLEAN
    BY <1>u, <1>0 DEF TypeOK, RxState
  <2>3. pw' \in Nat /\ pr' \in 0 .. pw'
    BY <1>u, <1>c
  <2>4. TxState' = TxState
    BY DEF TxState
  <2> QED
    BY <2>1, <2>2, <2>3, <2>4 DEF TypeOK
<1>2. /\ WaitingItems' = WaitingItems /\ WaitingBytes' = WaitingBytes + len
      /\ VacantItems' = VacantItems /\ VacantBytes' = VacantBytes - len
  BY <1>0, <1>u, <1>c, Sizes DEF WaitingItems, WaitingBytes, VacantItems, VacantBytes
<1>3. Paired'
  <2>1. Pending = 0 /\ Pending' = len /\ Owed' = Owed /\ Ahead' = Ahead
    BY <1>u, <1>t DEF Pending, Owed, Ahead
  <2>2. WaitingBytes' <= PayloadCapacity
    BY <1>2, <1>c, Sizes DEF VacantBytes
  <2>3. Before(Len(items)) \in Nat
    BY <1>c, BeforeIsNat
  <2> QED
    BY <1>0, <1>2, <1>u, <1>c, <2>1, <2>2, <2>3 DEF Paired
<1>4. SlicesInRange'
  <2>1. WaitingBytes' >= WaitingBytes /\ WaitingBytes' \in Nat
    BY <1>2, <1>c
  <2>2. Before(Len(items)) \in Nat /\ Before(cr) \in Nat /\ rx.need \in Nat
    BY <1>c, BeforeIsNat, RxFields
  <2>3. (rx.at \in {"idle", "peeked"} => Before(Len(items)) - Before(cr) <= WaitingBytes')
        /\ (rx.at = "copying" => rx.need <= WaitingBytes')
    BY <1>c, <2>1, <2>2 DEF SlicesInRange
  <2> QED
    BY <1>0, <1>u, <2>3 DEF SlicesInRange
<1>5. PromisesKept'
  <2>1. i <= VacantItems' - 1 /\ b <= VacantBytes'
    BY <1>2, <1>c
  <2>2. rx.at = "idle" => rx.count <= WaitingItems
    BY DEF PromisesKept
  <2> QED
    BY <1>t, <1>u, <1>2, <2>1, <2>2 DEF PromisesKept
<1>6. TxInv'
  BY <1>t, <1>u DEF TxInv, RoomAsTold
<1>7. Taking'
  BY <1>0, <1>2, <1>u DEF Taking
<1>8. Looked'
  <2>1. ~(closed >= 1)
    BY <1>u
  <2> QED
    BY <1>u, <2>1 DEF Looked
<1> QED
  BY <1>0, <1>1, <1>3, <1>4, <1>5, <1>6, <1>7, <1>8

(* The item follows its bytes. *)
LEMMA PushItemStep == ASSUME Inv, PushItem PROVE Inv'
<1> USE DEF Inv
<1> DEFINE item == [first |-> Before(Len(items)), len |-> tx.len]
<1>u. /\ items' = Append(items, item) /\ cr' = cr /\ pw' = pw /\ pr' = pr /\ out' = out
      /\ closed' = closed /\ shutdown' = shutdown /\ rx' = rx /\ tx.at = "pushed"
      /\ tx' = Tx(tx.then, "idle", 0, tx.items, tx.bytes)
  BY DEF PushItem
<1>t. /\ tx'.at = tx.then /\ tx'.then = "idle" /\ tx'.len = 0
      /\ tx'.items = tx.items /\ tx'.bytes = tx.bytes
  BY <1>u DEF Tx
<1>c. /\ Len(items) \in Nat /\ cr \in Nat /\ pw \in Nat /\ pr \in Nat
      /\ cr <= Len(items) /\ pr <= pw
      /\ VacantItems \in Int /\ VacantBytes \in Int
      /\ WaitingItems \in Nat /\ WaitingBytes \in Nat
      /\ tx.len \in Nat /\ tx.items \in Nat /\ tx.bytes \in Nat
      /\ tx.then \in {"idle", "slice", "iter"}
  BY <1>u, Counts, TxFields DEF TxInv
<1>i. items \in Seq([first : Nat, len : 0..PayloadCapacity])
  BY DEF TypeOK
<1>n. \A n \in 0 .. Len(items) : Before(n) \in Nat
  BY BeforeIsNat
<1>0. /\ Len(items)' = Len(items) + 1
      /\ \A n \in 1 .. Len(items) : items'[n] = items[n]
      /\ items'[Len(items) + 1] = item
  BY <1>u, <1>i, AppendProperties
<1>b. /\ \A n \in 0 .. Len(items) : Before(n)' = Before(n)
      /\ \A n : n = Len(items) + 1 => Before(n)' = Before(Len(items)) + tx.len
      /\ Before(Len(items))' = Before(Len(items)) + tx.len
  <2>1. ASSUME NEW n \in 0 .. Len(items) PROVE Before(n)' = Before(n)
    <3>1. n = 0 \/ n \in 1 .. Len(items)
      BY <1>c
    <3> QED
      BY <3>1, <1>0 DEF Before, End
  <2>2. Len(items) + 1 # 0 /\ item.first = Before(Len(items)) /\ item.len = tx.len
    BY <1>c
  <2>3. ASSUME NEW n, n = Len(items) + 1 PROVE Before(n)' = Before(Len(items)) + tx.len
    <3>1. Before(n)' = items'[n].first + items'[n].len
      BY <2>2, <2>3 DEF Before, End
    <3> QED
      BY <3>1, <2>2, <2>3, <1>0
  <2>4. Before(Len(items))' = Before(Len(items)) + tx.len
    BY <2>3, <1>0
  <2> QED
    BY <2>1, <2>3, <2>4
<1>1. TypeOK'
  <2>1. tx' \in TxState
    <3>1. /\ tx.then \in {"idle", "slice", "iter"}
          /\ tx.items \in 0..ControlCapacity /\ tx.bytes \in 0..PayloadCapacity
      BY <1>c, TxFields
    <3> QED
      BY <1>u, <3>1, Sizes DEF Tx, TxState
  <2>2. items' \in Seq([first : Nat, len : 0..PayloadCapacity])
    <3>1. item \in [first : Nat, len : 0..PayloadCapacity]
      BY <1>n, <1>c, TxFields
    <3> QED
      BY <3>1, <1>i, <1>u, AppendProperties
  <2>3. cr' \in 0 .. Len(items)' /\ out'.from \in Nat /\ out'.to \in Nat
        /\ closed' \in 0..2 /\ shutdown' \in BOOLEAN /\ pw' \in Nat /\ pr' \in 0 .. pw'
    BY <1>u, <1>0, <1>c DEF TypeOK
  <2>4. rx' \in RxState'
    <3>1. rx \in RxState /\ 1 .. Len(items) \subseteq 1 .. Len(items)'
      BY <1>0, <1>c DEF TypeOK
    <3> QED
      BY <3>1, <1>u DEF RxState
  <2>5. TxState' = TxState
    BY DEF TxState
  <2> QED
    BY <2>1, <2>2, <2>3, <2>4, <2>5 DEF TypeOK
<1>2. /\ WaitingItems' = WaitingItems + 1 /\ WaitingBytes' = WaitingBytes
      /\ VacantItems' = VacantItems - 1 /\ VacantBytes' = VacantBytes
  BY <1>0, <1>u, <1>c, Sizes DEF WaitingItems, WaitingBytes, VacantItems, VacantBytes
<1>p. tx.items <= VacantItems - 1 /\ tx.bytes <= VacantBytes
  BY <1>u, <1>c DEF PromisesKept
<1>3. Paired'
  <2>1. Pending = tx.len /\ Pending' = 0 /\ Owed' = Owed /\ Ahead' = Ahead
    BY <1>u, <1>t, <1>c DEF Pending, Owed, Ahead
  <2>2. WaitingItems' <= ControlCapacity /\ WaitingBytes' <= PayloadCapacity
    BY <1>2, <1>c, <1>p, Sizes DEF Paired, VacantItems
  <2>3. pw' = Before(Len(items))' + 0
    <3>1. Before(Len(items))' = Before(Len(items)) + tx.len
      BY <1>b
    <3>2. pw = Before(Len(items)) + tx.len
      BY <2>1 DEF Paired
    <3> QED
      BY <1>u, <3>1, <3>2, <1>c
  <2>4. Before(cr)' = Before(cr)
    BY <1>b, <1>c, <1>u
  <2> QED
    BY <1>u, <1>c, <2>1, <2>2, <2>3, <2>4 DEF Paired
<1>l. Layout'
  <2>1. ASSUME NEW n \in 1 .. Len(items)' PROVE items'[n].first = Before(n - 1)'
    <3>1. CASE n \in 1 .. Len(items)
      <4>1. n - 1 \in 0 .. Len(items)
        BY <3>1, <1>c
      <4> QED
        BY <3>1, <4>1, <1>0, <1>b DEF Layout
    <3>2. CASE n = Len(items) + 1
      <4>1. n - 1 = Len(items) /\ Len(items) \in 0 .. Len(items)
        BY <3>2, <1>c
      <4> QED
        BY <3>2, <4>1, <1>0, <1>b
    <3> QED
      BY <3>1, <3>2, <1>0, <1>c
  <2>2. ASSUME NEW m \in 0 .. Len(items)', NEW n \in 0 .. Len(items)', m <= n
        PROVE  Before(m)' <= Before(n)'
    <3>1. CASE n \in 0 .. Len(items)
      <4>1. m \in 0 .. Len(items)
        BY <3>1, <2>2, <1>c
      <4> QED
        BY <3>1, <4>1, <2>2, <1>b DEF Layout
    <3>2. CASE n = Len(items) + 1 /\ m \in 0 .. Len(items)
      <4>1. Before(m) <= Before(Len(items)) /\ Before(m) \in Nat
            /\ Before(Len(items)) \in Nat
        BY <3>2, <1>c, <1>n DEF Layout
      <4> QED
        BY <3>2, <4>1, <1>b, <1>c
    <3>3. CASE n = Len(items) + 1 /\ m = n
      <4>1. Before(n)' \in Nat
        BY <3>3, <1>b, <1>c, <1>n
      <4> QED
        BY <3>3, <4>1
    <3> QED
      BY <3>1, <3>2, <3>3, <2>2, <1>0, <1>c
  <2> QED
    BY <2>1, <2>2 DEF Layout
<1>4. SlicesInRange'
  <2>1. rx.need \in Nat /\ Before(cr)' = Before(cr) /\ Before(cr) \in Nat
    BY RxFields, <1>b, <1>c, <1>n, <1>u
  <2>2. Owed' = Owed /\ Ahead' = Ahead /\ Pending' = 0
    BY <1>u, <1>t, <1>c DEF Pending, Owed, Ahead
  <2>3. rx.at \in {"idle", "peeked"} => Owed = 0 /\ Ahead = 0
    BY DEF Owed, Ahead
  <2>4. pw' = Before(Len(items))' + 0 /\ pr' = Before(cr)' - Owed' + Ahead'
    BY <1>3, <2>2, <1>u DEF Paired
  <2>5. rx.at \in {"idle", "peeked"} =>
          (Before(Len(items)) - Before(cr))' <= WaitingBytes'
    <3>1. Before(Len(items))' \in Int
      <4>1. Before(Len(items))' = Before(Len(items)) + tx.len
        BY <1>b
      <4> QED
        BY <4>1, <1>n, <1>c
    <3> QED
      BY <3>1, <2>1, <2>2, <2>3, <2>4, <1>u, <1>c DEF WaitingBytes
  <2>6. rx.at = "copying" => rx.need <= WaitingBytes'
    BY <1>2 DEF SlicesInRange
  <2> QED
    BY <1>u, <2>5, <2>6 DEF SlicesInRange
<1>5. PromisesKept'
  <2>1. tx.items <= VacantItems' /\ tx.bytes <= VacantBytes' /\ VacantItems' \in Int
    BY <1>2, <1>p, <1>c
  <2>2. rx.at = "idle" => rx.count <= WaitingItems'
    BY <1>2, <1>c, RxFields DEF PromisesKept
  <2>3. tx.then # "pushed"
    BY <1>c
  <2> QED
    BY <1>t, <1>u, <2>1, <2>2, <2>3 DEF PromisesKept
<1>6. TxInv'
  <2>1. closed = 0
    BY <1>u DEF TxInv, RoomWaits
  <2> QED
    BY <1>t, <1>u, <1>c, <2>1 DEF TxInv, RoomAsTold
<1>7. Taking'
  <2>1. ASSUME rx.at = "owing"
        PROVE  cr >= 1 /\ rx.need = Before(cr)' - Before(cr - 1)'
    <3>1. cr >= 1 /\ rx.need = Before(cr) - Before(cr - 1)
      BY <2>1 DEF Taking
    <3>2. cr \in 0 .. Len(items) /\ cr - 1 \in 0 .. Len(items)
      BY <3>1, <1>c
    <3> QED
      BY <3>1, <3>2, <1>b, <1>u
  <2>2. rx.at \in {"peeked", "copying", "copied"} => rx.count <= WaitingItems'
    BY <1>2, <1>c, RxFields DEF Taking
  <2>3. ASSUME rx.at \in {"copying", "copied"}
        PROVE  /\ rx.need = Before(cr + rx.count)' - Before(cr)'
               /\ rx.take = cr + 1 .. cr + rx.count
    <3>1. rx.count <= WaitingItems /\ rx.need = Before(cr + rx.count) - Before(cr)
          /\ rx.take = cr + 1 .. cr + rx.count
      BY <2>3 DEF Taking
    <3>2. cr \in 0 .. Len(items) /\ cr + rx.count \in 0 .. Len(items)
      BY <3>1, <1>c, RxFields DEF WaitingItems
    <3> QED
      BY <3>1, <3>2, <1>b, <1>u
  <2> QED
    BY <1>u, <2>1, <2>2, <2>3 DEF Taking
<1>8. Looked'
  BY <1>u, <1>2 DEF Looked
<1> QED
  BY <1>1, <1>3, <1>l, <1>4, <1>5, <1>6, <1>7, <1>8

-----------------------------------------------------------------------------
(* The bytes of an item are between those of the items before it and its own. *)
LEMMA ItemBytes ==
  ASSUME Inv, NEW n \in 0 .. Len(items) - 1
  PROVE  /\ items[n + 1].first = Before(n)
         /\ items[n + 1].len = Before(n + 1) - Before(n)
         /\ items[n + 1].len \in 0..PayloadCapacity
<1> USE DEF Inv
<1>1. Len(items) \in Nat /\ n \in Nat /\ n + 1 \in 1 .. Len(items) /\ n + 1 # 0
      /\ (n + 1) - 1 = n /\ n \in 0 .. Len(items)
  BY Counts
<1>2. items[n + 1].first = Before(n)
  BY <1>1 DEF Layout
<1>3. Before(n + 1) = items[n + 1].first + items[n + 1].len
  BY <1>1 DEF Before, End
<1>4. Before(n) \in Nat
  BY <1>1, BeforeIsNat
<1>5. items[n + 1].len \in 0..PayloadCapacity
  <2>1. items[n + 1] \in [first : Nat, len : 0..PayloadCapacity]
    BY <1>1, ElementOfSeq, Zenon DEF TypeOK
  <2> QED
    BY <2>1
<1> QED
  BY <1>2, <1>3, <1>4, <1>5, Sizes

LEMMA Complement ==
  \A c, m, n \in Int : m <= n => c - m >= c - n /\ c - m \in Int
OBVIOUS

(* Steps of the consumer that take from a ring. *)
LEMMA TakeStep ==
  ASSUME Inv, UNCHANGED <<items, pw, closed, shutdown, tx>>,
         cr' \in cr .. Len(items), pr' \in pr .. pw,
         rx' \in RxState, out'.from \in Nat, out'.to \in Nat,
         rx'.at \in {"idle", "owing", "copied"}, rx'.at = "idle" => rx'.count = 0,
         pr' = Before(cr)' - Owed' + Ahead', Taking'
  PROVE  Inv'
<1> USE DEF Inv
<1>u. /\ items' = items /\ pw' = pw /\ closed' = closed /\ shutdown' = shutdown /\ tx' = tx
  OBVIOUS
<1>0. /\ Len(items)' = Len(items) /\ \A n : Before(n)' = Before(n)
      /\ Layout'
  BY <1>u, SameItems
<1>c. /\ Len(items) \in Nat /\ cr \in Nat /\ pw \in Nat /\ pr \in Nat
      /\ cr' \in Nat /\ pr' \in Nat /\ cr <= cr' /\ cr' <= Len(items)
      /\ pr <= pr' /\ pr' <= pw
      /\ VacantItems \in Int /\ VacantBytes \in Int
      /\ WaitingItems \in Nat /\ WaitingBytes \in Nat
  BY Counts
<1>1. TypeOK'
  <2>1. /\ items \in Seq([first : Nat, len : 0..PayloadCapacity]) /\ tx \in TxState
        /\ closed \in 0..2 /\ shutdown \in BOOLEAN
    BY DEF TypeOK
  <2>2. rx' \in RxState' /\ tx' \in TxState'
    BY <1>u, <2>1 DEF RxState, TxState
  <2>3. cr' \in 0 .. Len(items)' /\ pr' \in 0 .. pw'
    BY <1>c, <1>0, <1>u
  <2> QED
    BY <2>1, <2>2, <2>3, <1>u, <1>c DEF TypeOK
<1>2. /\ WaitingItems' \in Nat /\ WaitingItems' <= WaitingItems
      /\ WaitingBytes' \in Nat /\ WaitingBytes' <= WaitingBytes
      /\ VacantItems' >= VacantItems /\ VacantBytes' >= VacantBytes
      /\ VacantItems' \in Int /\ VacantBytes' \in Int
  <2>1. WaitingItems' = Len(items) - cr' /\ WaitingItems = Len(items) - cr
    BY <1>0 DEF WaitingItems
  <2>2. WaitingBytes' = pw - pr' /\ WaitingBytes = pw - pr
    BY <1>u DEF WaitingBytes
  <2>3. /\ VacantItems' = ControlCapacity - WaitingItems'
        /\ VacantItems = ControlCapacity - WaitingItems
        /\ VacantBytes' = PayloadCapacity - WaitingBytes'
        /\ VacantBytes = PayloadCapacity - WaitingBytes
    BY DEF VacantItems, VacantBytes
  <2>4. WaitingItems' \in Nat /\ WaitingItems' <= WaitingItems
    BY <2>1, <1>c
  <2>5. WaitingBytes' \in Nat /\ WaitingBytes' <= WaitingBytes
    BY <2>2, <1>c
  <2>6. VacantItems' >= VacantItems /\ VacantItems' \in Int
    <3>1. ControlCapacity \in Int
      BY Sizes
    <3>2. WaitingItems' \in Int /\ WaitingItems \in Int
      BY <2>4, <1>c
    <3>3. VacantItems' \in Int
      BY <2>3, <3>1, <3>2
    <3>4. VacantItems \in Int
      BY <1>c
    <3>5. VacantItems <= VacantItems'
      BY <2>3, <2>4, <3>1, <3>2, Complement
    <3> QED
      BY <3>3, <3>4, <3>5
  <2>7. VacantBytes' >= VacantBytes /\ VacantBytes' \in Int
    <3>1. PayloadCapacity \in Int
      BY Sizes
    <3>2. WaitingBytes' \in Int /\ WaitingBytes \in Int
      BY <2>5, <1>c
    <3>3. VacantBytes' \in Int
      BY <2>3, <3>1, <3>2
    <3>4. VacantBytes \in Int
      BY <1>c
    <3>5. VacantBytes <= VacantBytes'
      BY <2>3, <2>5, <3>1, <3>2, Complement
    <3> QED
      BY <3>3, <3>4, <3>5
  <2> QED
    BY <2>4, <2>5, <2>6, <2>7
<1>3. Paired'
  <2>1. Pending' = Pending
    BY <1>u DEF Pending
  <2>2. WaitingItems' <= ControlCapacity /\ WaitingBytes' <= PayloadCapacity
    BY <1>2, <1>c, Sizes DEF Paired
  <2> QED
    BY <1>0, <1>u, <2>1, <2>2 DEF Paired
<1>4. SlicesInRange'
  <2> SUFFICES ASSUME rx'.at = "idle"
               PROVE  Before(Len(items))' - Before(cr)' <= WaitingBytes'
    BY DEF SlicesInRange
  <2>1. Owed' = 0 /\ Ahead' = 0
    BY DEF Owed, Ahead
  <2>2. Pending \in Nat /\ Pending' = Pending
    BY <1>u, TxFields DEF Pending
  <2>3. Before(cr)' \in Nat /\ Before(Len(items))' \in Nat
    BY <1>0, <1>c, <1>u, BeforeIsNat
  <2>4. pw' = Before(Len(items))' + Pending /\ pr' = Before(cr)'
    BY <1>3, <2>1, <2>2, <2>3 DEF Paired
  <2>5. WaitingBytes' = pw' - pr'
    BY DEF WaitingBytes
  <2> QED
    BY <2>2, <2>3, <2>4, <2>5
<1>5. PromisesKept'
  <2>1. ASSUME tx.at \in {"idle", "pushed", "slice", "iter"}, tx.then # "told"
        PROVE  /\ tx.items <= VacantItems' - (IF tx.at = "pushed" THEN 1 ELSE 0)
               /\ tx.bytes <= VacantBytes'
    <3>1. /\ tx.items <= VacantItems - (IF tx.at = "pushed" THEN 1 ELSE 0)
          /\ tx.bytes <= VacantBytes
      BY <2>1 DEF PromisesKept
    <3>2. /\ VacantItems <= VacantItems' /\ VacantItems \in Int /\ VacantItems' \in Int
          /\ VacantBytes <= VacantBytes' /\ VacantBytes \in Int /\ VacantBytes' \in Int
      BY <1>2, <1>c
    <3>3. tx.items \in Nat /\ tx.bytes \in Nat
      BY TxFields
    <3> DEFINE own == IF tx.at = "pushed" THEN 1 ELSE 0
    <3>4. own \in Nat
      OBVIOUS
    <3> HIDE DEF own
    <3>5. \A a, b, c \in Int : a <= b /\ b <= c => a <= c
      OBVIOUS
    <3>6. tx.items <= VacantItems - own /\ tx.bytes <= VacantBytes
      BY <3>1 DEF own
    <3>7. VacantItems - own <= VacantItems' - own /\ VacantItems - own \in Int /\ VacantItems' - own \in Int
      <4> DEFINE v == VacantItems
                 w == VacantItems'
      <4>1. v <= w /\ v \in Int /\ w \in Int
        BY <3>2
      <4> HIDE DEF v, w
      <4>2. v - own <= w - own /\ v - own \in Int /\ w - own \in Int
        BY <4>1, <3>4
      <4> QED
        BY <4>2 DEF v, w
    <3>8. tx.items <= VacantItems' - own /\ tx.bytes <= VacantBytes'
      BY <3>2, <3>3, <3>5, <3>6, <3>7
    <3> QED
      BY <3>8 DEF own
  <2> QED
    BY <1>u, <1>2, <2>1 DEF PromisesKept
<1>6. TxInv'
  <2>1. tx.at = "blocked" => 1 <= tx.items /\ tx.items <= VacantItems'
    BY <1>2, <1>c, TxFields DEF TxInv
  <2>2. ASSUME tx.then = "told"
        PROVE  /\ tx.items <= VacantItems'
               /\ tx.bytes <= VacantBytes' \/ tx.items < VacantItems'
    <3>1. /\ tx.items <= VacantItems
          /\ tx.bytes <= VacantBytes \/ tx.items < VacantItems
      BY <2>2 DEF TxInv, RoomAsTold
    <3>2. /\ VacantItems <= VacantItems' /\ VacantItems \in Int /\ VacantItems' \in Int
          /\ VacantBytes <= VacantBytes' /\ VacantBytes \in Int /\ VacantBytes' \in Int
      BY <1>2, <1>c
    <3>3. tx.items \in Int /\ tx.bytes \in Int
      BY TxFields
    <3>4. \A a, b, c \in Int : b <= c => (a <= b => a <= c) /\ (a < b => a < c)
      OBVIOUS
    <3> QED
      BY <3>1, <3>2, <3>3, <3>4, Zenon
  <2>3. RoomAsTold'
    BY <1>u, <2>2 DEF RoomAsTold
  <2> QED
    BY <1>u, <2>1, <2>3 DEF TxInv
<1>7. Looked'
  BY DEF Looked
<1> QED
  BY <1>0, <1>1, <1>3, <1>4, <1>5, <1>6, <1>7

LEMMA TryTakeStep == ASSUME Inv, TryTake PROVE Inv'
<1> USE DEF Inv
<1> DEFINE len == items[cr + 1].len
<1>u. /\ items' = items /\ pw' = pw /\ closed' = closed /\ shutdown' = shutdown /\ tx' = tx
      /\ cr' = cr + 1 /\ pr' = pr /\ rx' = Rx("owing", 0, {}, len)
      /\ out' = [items |-> {cr + 1}, from |-> pr, to |-> pr + len]
      /\ rx.at = "idle" /\ WaitingItems > 0
  BY DEF TryTake, Deliver
<1>r. rx'.at = "owing" /\ rx'.need = len /\ rx' \in RxState
  <2>1. cr \in 0 .. Len(items) - 1
    BY <1>u, Counts DEF WaitingItems
  <2>2. len \in 0..PayloadCapacity
    BY <2>1, ItemBytes
  <2> QED
    BY <1>u, <2>2, Sizes DEF Rx, RxState
<1>c. /\ Len(items) \in Nat /\ cr \in Nat /\ pw \in Nat /\ pr \in Nat /\ pr <= pw
      /\ cr + 1 <= Len(items) /\ cr \in 0 .. Len(items) - 1 /\ cr \in 0 .. Len(items)
      /\ cr + 1 \in 0 .. Len(items)
  BY <1>u, Counts DEF WaitingItems
<1>0. \A n : Before(n)' = Before(n)
  BY <1>u, SameItems
<1>l. len \in Nat /\ len = Before(cr + 1) - Before(cr) /\ Before(cr) \in Nat
      /\ Before(cr + 1) \in Nat
  BY <1>c, ItemBytes, BeforeIsNat, Sizes
<1>b. Before(cr)' = Before(cr + 1) /\ Before(cr - 1)' = Before(cr)
  BY <1>0, <1>u, <1>c
<1>1. pr' = Before(cr)' - Owed' + Ahead'
  <2>1. Owed = 0 /\ Ahead = 0 /\ Owed' = len /\ Ahead' = 0
    BY <1>u, <1>r DEF Owed, Ahead
  <2>2. pr = Before(cr)
    BY <2>1, <1>l DEF Paired
  <2> QED
    BY <1>u, <1>b, <1>l, <2>1, <2>2
<1>2. Taking'
  BY <1>r, <1>u, <1>b, <1>l, <1>c DEF Taking
<1>3. cr' \in cr .. Len(items) /\ pr' \in pr .. pw /\ out'.from \in Nat /\ out'.to \in Nat
  BY <1>u, <1>c, <1>l
<1> QED
  BY <1>u, <1>r, <1>1, <1>2, <1>3, TakeStep

LEMMA TryTakePayloadStep == ASSUME Inv, TryTakePayload PROVE Inv'
<1> USE DEF Inv
<1>u. /\ items' = items /\ pw' = pw /\ closed' = closed /\ shutdown' = shutdown /\ tx' = tx
      /\ cr' = cr /\ pr' = pr + rx.need /\ rx' = RxIdle /\ out' = out /\ rx.at = "owing"
  BY DEF TryTakePayload
<1>r. rx'.at = "idle" /\ rx'.count = 0 /\ rx' \in RxState
  BY <1>u, Sizes DEF Rx, RxIdle, RxState
<1>c. /\ Len(items) \in Nat /\ cr \in Nat /\ pw \in Nat /\ pr \in Nat /\ pr <= pw
      /\ cr \in 0 .. Len(items) /\ Len(items) \in 0 .. Len(items) /\ rx.need \in Nat
  BY Counts, RxFields
<1>0. \A n : Before(n)' = Before(n)
  BY <1>u, SameItems
<1>b. Before(cr)' = Before(cr) /\ Before(cr) \in Nat /\ Before(Len(items)) \in Nat
      /\ Before(cr) <= Before(Len(items))
  BY <1>0, <1>u, <1>c, BeforeIsNat DEF Layout
<1>1. pr' = Before(cr)
  <2>1. Owed = rx.need /\ Ahead = 0
    BY <1>u DEF Owed, Ahead
  <2> QED
    BY <2>1, <1>u, <1>b, <1>c DEF Paired
<1>2. pr' = Before(cr)' - Owed' + Ahead'
  <2>1. Owed' = 0 /\ Ahead' = 0
    BY <1>r DEF Owed, Ahead
  <2> QED
    BY <2>1, <1>1, <1>b
<1>3. pr' \in pr .. pw
  <2>1. Pending \in Nat /\ pw = Before(Len(items)) + Pending
    BY TxFields DEF Pending, Paired
  <2> QED
    BY <2>1, <1>1, <1>u, <1>b, <1>c
<1>4. Taking'
  BY <1>r DEF Taking
<1>5. cr' \in cr .. Len(items) /\ out'.from \in Nat /\ out'.to \in Nat
  BY <1>u, <1>c DEF TypeOK
<1> QED
  BY <1>u, <1>r, <1>2, <1>3, <1>4, <1>5, TakeStep

LEMMA AdvancePayloadStep ==
  ASSUME Inv, AdvancePayload
  PROVE  Inv' /\ Smaller(rx.need, WaitingBytes) = rx.need
<1> USE DEF Inv
<1>c. /\ Len(items) \in Nat /\ cr \in Nat /\ pw \in Nat /\ pr \in Nat /\ pr <= pw
      /\ cr <= Len(items) /\ rx.need \in Nat /\ rx.count \in Nat
  BY Counts, RxFields
<1>n. rx.at = "copying" /\ rx.need <= WaitingBytes
  BY DEF AdvancePayload, SlicesInRange
<1>s. Smaller(rx.need, WaitingBytes) = rx.need
  <2>1. WaitingBytes \in Nat
    BY Counts
  <2> QED
    BY <2>1, <1>n, <1>c DEF Smaller
<1>u. /\ items' = items /\ pw' = pw /\ closed' = closed /\ shutdown' = shutdown /\ tx' = tx
      /\ cr' = cr /\ pr' = pr + rx.need
      /\ rx' = Rx("copied", rx.count, rx.take, rx.need)
      /\ out' = [items |-> rx.take, from |-> pr, to |-> pr + rx.need]
  BY <1>s DEF AdvancePayload, Deliver
<1>r. rx'.at = "copied" /\ rx'.count = rx.count /\ rx'.need = rx.need /\ rx'.take = rx.take
      /\ rx' \in RxState
  BY <1>u, RxFields, Sizes DEF Rx, RxState
<1>0. /\ \A n : Before(n)' = Before(n)
      /\ WaitingItems' = WaitingItems
  BY <1>u, SameItems DEF WaitingItems
<1>b. Before(cr)' = Before(cr) /\ Before(cr) \in Nat
      /\ Before(cr + rx.count)' = Before(cr + rx.count)
  BY <1>0, <1>u, <1>r, <1>c, BeforeIsNat
<1>2. pr' = Before(cr)' - Owed' + Ahead'
  <2>1. Owed = 0 /\ Ahead = 0 /\ Owed' = 0 /\ Ahead' = rx.need
    BY <1>n, <1>r DEF Owed, Ahead
  <2>2. pr = Before(cr)
    BY <2>1, <1>b DEF Paired
  <2> QED
    BY <2>1, <2>2, <1>u, <1>b, <1>c
<1>3. pr' \in pr .. pw /\ cr' \in cr .. Len(items) /\ out'.from \in Nat /\ out'.to \in Nat
  BY <1>u, <1>c, <1>n DEF WaitingBytes
<1>4. Taking'
  BY <1>r, <1>n, <1>u, <1>0, <1>b DEF Taking
<1> QED
  BY <1>u, <1>r, <1>s, <1>2, <1>3, <1>4, TakeStep

LEMMA AdvanceControlStep == ASSUME Inv, AdvanceControl PROVE Inv'
<1> USE DEF Inv
<1>u. /\ items' = items /\ pw' = pw /\ closed' = closed /\ shutdown' = shutdown /\ tx' = tx
      /\ cr' = cr + rx.count /\ pr' = pr /\ rx' = RxIdle /\ out' = out
      /\ rx.at = "copied"
  BY DEF AdvanceControl
<1>r. rx'.at = "idle" /\ rx'.count = 0 /\ rx' \in RxState
  BY <1>u, Sizes DEF Rx, RxIdle, RxState
<1>c. /\ Len(items) \in Nat /\ cr \in Nat /\ pw \in Nat /\ pr \in Nat /\ pr <= pw
      /\ cr <= Len(items) /\ rx.need \in Nat /\ rx.count \in Nat
  BY Counts, RxFields
<1>t. rx.count <= WaitingItems /\ rx.need = Before(cr + rx.count) - Before(cr)
  BY <1>u DEF Taking
<1>d. cr + rx.count \in 0 .. Len(items) /\ cr \in 0 .. Len(items)
  BY <1>c, <1>t DEF WaitingItems
<1>0. \A n : Before(n)' = Before(n)
  BY <1>u, SameItems
<1>b. Before(cr)' = Before(cr + rx.count) /\ Before(cr) \in Nat
      /\ Before(cr + rx.count) \in Nat
  BY <1>0, <1>u, <1>d, BeforeIsNat
<1>2. pr' = Before(cr)' - Owed' + Ahead'
  <2>1. Owed = 0 /\ Ahead = rx.need /\ Owed' = 0 /\ Ahead' = 0
    BY <1>u, <1>r DEF Owed, Ahead
  <2>2. pr = Before(cr) + rx.need
    BY <2>1, <1>b, <1>c DEF Paired
  <2> QED
    BY <2>1, <2>2, <1>u, <1>t, <1>b, <1>c
<1>3. pr' \in pr .. pw /\ cr' \in cr .. Len(items) /\ out'.from \in Nat /\ out'.to \in Nat
  BY <1>u, <1>c, <1>d DEF TypeOK
<1>4. Taking'
  BY <1>r DEF Taking
<1> QED
  BY <1>u, <1>r, <1>2, <1>3, <1>4, TakeStep
-----------------------------------------------------------------------------
(* take_slice with a buffer for all the bytes stops at its limit only, so    *)
(* what it takes from the two slices is one run.                             *)
LEMMA SliceEndIsThere ==
  ASSUME TypeOK PROVE SliceEnd \in cr .. Len(items)
<1>1. cr \in Nat /\ Len(items) \in Nat /\ cr <= Len(items) /\ ControlCapacity \in Nat \ {0}
  BY Counts, Sizes
<1>2. cr % ControlCapacity \in 0 .. ControlCapacity - 1
  BY <1>1
<1> DEFINE left == ControlCapacity - (cr % ControlCapacity)
<1>3. left \in Nat
  BY <1>1, <1>2
<1>4. SliceEnd = Smaller(Len(items), cr + left)
  BY DEF SliceEnd
<1> HIDE DEF left
<1> QED
  BY <1>1, <1>3, <1>4 DEF Smaller

LEMMA TakeSliceStep ==
  ASSUME Inv, WholeTargets,
         NEW max \in 1..ControlCapacity, NEW target \in Targets, TakeSlice(max, target)
  PROVE  Inv'
<1> USE DEF Inv
<1>1. PICK n \in 0..ControlCapacity, m \in 0..ControlCapacity :
        LET length == Before(cr + n) - Before(cr) IN
        /\ Copied(cr + 1, SliceEnd, max, target, n)
        /\ Copied(SliceEnd + 1, Len(items), max - n, target - length, m)
        /\ rx' = Rx("copying", n + m, (cr + 1 .. cr + n) \cup (SliceEnd + 1 .. SliceEnd + m),
                    length + Before(SliceEnd + m) - Before(SliceEnd))
  BY DEF TakeSlice
<1>u. /\ items' = items /\ cr' = cr /\ pw' = pw /\ pr' = pr /\ out' = out
      /\ closed' = closed /\ shutdown' = shutdown /\ tx' = tx
      /\ rx.at = "idle" /\ WaitingItems > 0
  BY DEF TakeSlice, ringVars
<1>c. /\ Len(items) \in Nat /\ cr \in Nat /\ pw \in Nat /\ pr \in Nat /\ pr <= pw
      /\ cr <= Len(items) /\ max \in Nat \ {0} /\ n \in Nat /\ m \in Nat
      /\ SliceEnd \in Nat /\ cr <= SliceEnd /\ SliceEnd <= Len(items)
  BY Counts, Sizes, SliceEndIsThere
<1>t. target \in Nat /\ target >= PayloadCapacity /\ PayloadCapacity \in Nat
  BY StreamAssumption DEF WholeTargets
<1>b. \A i \in cr .. Len(items) : /\ Before(i) \in Nat /\ Before(cr) <= Before(i)
                                 /\ Before(i) <= Before(Len(items))
  BY <1>c, BeforeIsNat DEF Layout
<1>a. Before(Len(items)) - Before(cr) <= PayloadCapacity
  <2>1. Before(Len(items)) - Before(cr) <= WaitingBytes /\ WaitingBytes <= PayloadCapacity
    BY <1>u DEF SlicesInRange, Paired
  <2> QED
    BY <2>1, <1>b, <1>c, <1>t, Counts
<1>n. n = Smaller(max, SliceEnd - cr)
  <2> DEFINE most == Smaller(max, SliceEnd - cr)
  <2>1. /\ n <= Smaller(max, SliceEnd - (cr + 1) + 1)
        /\ n < Smaller(max, SliceEnd - (cr + 1) + 1) =>
              Before((cr + 1) + (n + 1) - 1) - Before((cr + 1) - 1) > target
    BY <1>1 DEF Copied
  <2>2. SliceEnd - (cr + 1) + 1 = SliceEnd - cr /\ (cr + 1) + (n + 1) - 1 = cr + n + 1
        /\ (cr + 1) - 1 = cr
    BY <1>c
  <2>3. n <= most /\ (n < most => Before(cr + n + 1) - Before(cr) > target)
    BY <2>1, <2>2
  <2>4. most \in Nat /\ most <= SliceEnd - cr
    BY <1>c DEF Smaller
  <2> HIDE DEF most
  <2>5. ASSUME n < most PROVE FALSE
    <3>1. cr + n + 1 \in cr .. Len(items) /\ cr \in cr .. Len(items)
          /\ Len(items) \in cr .. Len(items)
      BY <2>5, <2>4, <1>c
    <3>2. Before(cr + n + 1) \in Nat /\ Before(cr + n + 1) <= Before(Len(items))
          /\ Before(cr) \in Nat /\ Before(Len(items)) \in Nat
      BY <3>1, <1>b
    <3> QED
      BY <3>2, <2>3, <2>5, <1>a, <1>t
  <2>6. n = most
    BY <2>3, <2>4, <2>5, <1>c
  <2> QED
    BY <2>6 DEF most
<1>s. n <= max /\ n <= SliceEnd - cr /\ cr + n \in cr .. Len(items)
      /\ (n < max => n = SliceEnd - cr)
  BY <1>n, <1>c DEF Smaller
<1>m. m = Smaller(max - n, Len(items) - SliceEnd)
  <2> DEFINE most == Smaller(max - n, Len(items) - SliceEnd)
             length == Before(cr + n) - Before(cr)
  <2>1. /\ m <= Smaller(max - n, Len(items) - (SliceEnd + 1) + 1)
        /\ m < Smaller(max - n, Len(items) - (SliceEnd + 1) + 1) =>
              Before((SliceEnd + 1) + (m + 1) - 1) - Before((SliceEnd + 1) - 1)
                > target - length
    BY <1>1 DEF Copied
  <2>2. Len(items) - (SliceEnd + 1) + 1 = Len(items) - SliceEnd
        /\ (SliceEnd + 1) + (m + 1) - 1 = SliceEnd + m + 1
        /\ (SliceEnd + 1) - 1 = SliceEnd
    BY <1>c
  <2>3. m <= most /\ (m < most => Before(SliceEnd + m + 1) - Before(SliceEnd) > target - length)
    BY <2>1, <2>2
  <2>4. most \in Nat /\ most <= Len(items) - SliceEnd /\ most <= max - n
    BY <1>c, <1>s DEF Smaller
  <2> HIDE DEF most
  <2>5. ASSUME m < most PROVE FALSE
    <3>1. SliceEnd + m + 1 \in cr .. Len(items) /\ cr + n = SliceEnd
          /\ SliceEnd \in cr .. Len(items) /\ cr \in cr .. Len(items)
          /\ Len(items) \in cr .. Len(items)
      BY <2>5, <2>4, <1>c, <1>s
    <3>2. /\ Before(SliceEnd + m + 1) \in Nat
          /\ Before(SliceEnd + m + 1) <= Before(Len(items))
          /\ Before(cr) \in Nat /\ Before(SliceEnd) \in Nat /\ Before(Len(items)) \in Nat
      BY <3>1, <1>b
    <3>3. Before(SliceEnd + m + 1) - Before(SliceEnd) > target - (Before(SliceEnd) - Before(cr))
      BY <2>3, <2>5, <3>1
    <3> QED
      BY <3>2, <3>3, <1>a, <1>t
  <2>6. m = most
    BY <2>3, <2>4, <2>5, <1>c
  <2> QED
    BY <2>6 DEF most
<1>w. /\ n + m <= WaitingItems /\ n + m <= ControlCapacity
      /\ (m = 0 \/ cr + n = SliceEnd)
  <2>1. m <= max - n /\ m <= Len(items) - SliceEnd /\ (m = 0 \/ n < max)
    BY <1>m, <1>s, <1>c DEF Smaller
  <2>2. n + m <= Len(items) - cr
    BY <2>1, <1>s, <1>c
  <2>3. m = 0 \/ cr + n = SliceEnd
    BY <2>1, <1>s, <1>c
  <2>4. max <= ControlCapacity /\ ControlCapacity \in Nat
    BY Sizes
  <2>5. n + m <= ControlCapacity
    BY <2>1, <2>4, <1>c
  <2> QED
    BY <2>2, <2>3, <2>5 DEF WaitingItems
<1>d. cr + (n + m) \in cr .. Len(items) /\ cr \in cr .. Len(items)
      /\ Len(items) \in cr .. Len(items)
  BY <1>w, <1>c DEF WaitingItems
<1>r. rx' = Rx("copying", n + m, cr + 1 .. cr + (n + m), Before(cr + (n + m)) - Before(cr))
  <2>1. CASE m = 0
    <3>1. SliceEnd + 1 .. SliceEnd + m = {} /\ n + m = n /\ SliceEnd + m = SliceEnd
      BY <2>1, <1>c
    <3>2. Before(cr + n) \in Nat /\ Before(cr) \in Nat /\ Before(SliceEnd) \in Nat
      BY <1>b, <1>c, <1>s, <1>d
    <3>3. Before(cr + n) - Before(cr) + Before(SliceEnd) - Before(SliceEnd)
            = Before(cr + n) - Before(cr)
      BY <3>2
    <3> QED
      BY <1>1, <3>1, <3>3
  <2>2. CASE cr + n = SliceEnd
    <3>1. /\ SliceEnd + m = cr + (n + m)
          /\ (cr + 1 .. cr + n) \cup (SliceEnd + 1 .. SliceEnd + m) = cr + 1 .. cr + (n + m)
      BY <2>2, <1>c
    <3>2. Before(cr + (n + m)) \in Nat /\ Before(cr) \in Nat /\ Before(SliceEnd) \in Nat
      BY <1>b, <1>c, <1>s, <1>d
    <3>3. Before(SliceEnd) - Before(cr) + Before(cr + (n + m)) - Before(SliceEnd)
            = Before(cr + (n + m)) - Before(cr)
      BY <3>2
    <3> QED
      BY <1>1, <2>2, <3>1, <3>3
  <2> QED
    BY <2>1, <2>2, <1>w
<1>f. /\ rx'.at = "copying" /\ rx'.count = n + m /\ rx'.take = cr + 1 .. cr + (n + m)
      /\ rx'.need = Before(cr + (n + m)) - Before(cr)
  BY <1>r DEF Rx
<1>g. rx' \in RxState
  <2>1. n + m \in 0..ControlCapacity /\ cr + 1 .. cr + (n + m) \subseteq 1 .. Len(items)
    BY <1>w, <1>d, <1>c, Sizes
  <2>2. Before(cr + (n + m)) - Before(cr) \in 0..PayloadCapacity
    BY <1>a, <1>b, <1>d, <1>t
  <2> QED
    BY <2>1, <2>2, <1>r DEF Rx, RxState
<1>0. /\ \A i : Before(i)' = Before(i)
      /\ WaitingItems' = WaitingItems
  BY <1>u, SameItems DEF WaitingItems
<1>k. Taking'
  <2>1. rx'.count <= WaitingItems' /\ rx'.need = Before(cr + (n + m))' - Before(cr)'
    BY <1>0, <1>f, <1>w, <1>u
  <2>2. cr' + rx'.count = cr + (n + m) /\ Before(cr + rx.count)' = Before(cr + (n + m))'
    BY <1>u, <1>f, <1>0
  <2> QED
    BY <2>1, <2>2, <1>f, <1>u DEF Taking
<1> QED
  <2>1. Looked' /\ rx'.at # "idle" /\ rx'.at \notin {"owing", "copied"}
    BY <1>f DEF Looked
  <2> QED
    BY <1>u, <1>g, <1>k, <2>1, RxStep DEF ringVars
-----------------------------------------------------------------------------
(* The other steps of the consumer leave the rings alone.                    *)
LEMMA PeekItemsStep == ASSUME Inv, PeekItems PROVE Inv'
<1> USE DEF Inv
<1>1. /\ UNCHANGED <<ringVars, closed, shutdown, tx>> /\ rx.at = "idle"
      /\ rx' = Rx("peeked", WaitingItems, {}, 0)
  BY DEF PeekItems
<1>2. WaitingItems \in 0..ControlCapacity
  <2>1. WaitingItems \in Nat /\ WaitingItems <= ControlCapacity
    BY Counts DEF Paired
  <2> QED
    BY <2>1, Sizes
<1>3. rx' \in RxState /\ rx'.at = "peeked" /\ rx'.count = WaitingItems
  BY <1>1, <1>2, Sizes DEF Rx, RxState
<1>4. WaitingItems' = WaitingItems /\ WaitingItems \in Int
  BY <1>1, Counts DEF WaitingItems, ringVars
<1>5. Taking' /\ Looked'
  <2>1. rx'.count <= WaitingItems'
    BY <1>3, <1>4
  <2> QED
    BY <2>1, <1>3 DEF Taking, Looked
<1> QED
  BY <1>1, <1>3, <1>5, RxStep

LEMMA PeekPayloadStep ==
  ASSUME Inv, NEW n \in 0..ControlCapacity, PeekPayload(n) PROVE Inv'
<1> USE DEF Inv
<1>1. /\ UNCHANGED <<ringVars, closed, shutdown, tx>> /\ rx.at = "peeked" /\ n <= rx.count
      /\ rx' = Rx("copying", n, cr + 1 .. cr + n, Before(cr + n) - Before(cr))
  BY DEF PeekPayload
<1>c. /\ Len(items) \in Nat /\ cr \in Nat /\ n \in Nat /\ rx.count \in Nat
      /\ cr <= Len(items) /\ WaitingItems \in Nat
  BY Counts, Sizes, RxFields
<1>2. n <= WaitingItems
  BY <1>1, <1>c DEF Taking
<1>3. cr + n \in 0 .. Len(items) /\ cr \in 0 .. Len(items) /\ Len(items) \in 0 .. Len(items)
  BY <1>2, <1>c DEF WaitingItems
<1>4. Before(cr + n) - Before(cr) \in 0..PayloadCapacity
  <2>1. Before(Len(items)) - Before(cr) <= WaitingBytes /\ WaitingBytes <= PayloadCapacity
    BY <1>1 DEF SlicesInRange, Paired
  <2>2. /\ Before(cr + n) \in Nat /\ Before(cr) \in Nat /\ Before(Len(items)) \in Nat
        /\ Before(cr) <= Before(cr + n) /\ Before(cr + n) <= Before(Len(items))
    BY <1>3, <1>c, BeforeIsNat DEF Layout
  <2> QED
    BY <2>1, <2>2, Counts, Sizes
<1>5. /\ rx' \in RxState /\ rx'.at = "copying" /\ rx'.count = n
      /\ rx'.take = cr + 1 .. cr + n /\ rx'.need = Before(cr + n) - Before(cr)
  <2>1. cr + 1 .. cr + n \subseteq 1 .. Len(items)
    BY <1>3, <1>c
  <2> QED
    BY <2>1, <1>1, <1>4 DEF Rx, RxState
<1>0. /\ \A i : Before(i)' = Before(i)
      /\ WaitingItems' = WaitingItems /\ cr' = cr
  BY <1>1, SameItems DEF WaitingItems, ringVars
<1>6. Taking'
  <2>1. rx'.count <= WaitingItems' /\ rx'.need = Before(cr + n)' - Before(cr)'
    BY <1>0, <1>2, <1>5
  <2>2. cr' + rx'.count = cr + n /\ Before(cr + rx.count)' = Before(cr + n)'
    BY <1>0, <1>5
  <2> QED
    BY <2>1, <2>2, <1>0, <1>5 DEF Taking
<1>7. Looked' /\ rx'.at # "idle" /\ rx'.at \notin {"owing", "copied"}
      /\ rx.at \notin {"owing", "copied"}
  BY <1>1, <1>5 DEF Looked
<1> QED
  BY <1>1, <1>5, <1>6, <1>7, RxStep

(* Where a consumer that takes nothing may be. *)
Places == {"idle", "no items", "items closed", "no bytes", "finished",
           "avail", "closed or avail", "shutdown or avail"}

LEMMA RxWait ==
  ASSUME NEW r, NEW n \in 0..ControlCapacity, NEW place, r = Rx(place, n, {}, 0)
  PROVE  r.at = place /\ r.count = n /\ (r.at \in Places => r \in RxState)
<1>1. r = [at |-> place, count |-> n, take |-> {}, need |-> 0]
  BY DEF Rx
<1>2. r.at = place /\ r.count = n /\ r.take = {} /\ r.need = 0
  BY <1>1
<1>3. r.take \subseteq 1 .. Len(items)
  BY <1>2
<1>4. r.need \in 0..PayloadCapacity
  BY <1>2, Sizes
<1>5. r = [at |-> r.at, count |-> r.count, take |-> r.take, need |-> r.need]
  BY <1>1, <1>2
<1> QED
  BY <1>2, <1>3, <1>4, <1>5 DEF RxState, Waits, Places

(* Waits, and the looks for the end of the stream. *)
LEMMA WaitStep ==
  ASSUME Inv, UNCHANGED <<ringVars, closed, shutdown, tx>>,
         rx.at \notin {"owing", "copied"},
         NEW at \in Places,
         NEW n \in 0..ControlCapacity, rx' = Rx(at, n, {}, 0),
         at = "idle" => n <= WaitingItems,
         at \in {"items closed", "no bytes", "finished"} => closed >= 1,
         at \in {"no bytes", "finished"} => WaitingBytes = 0,
         at = "finished" => closed = 2
  PROVE  Inv'
<1>1. rx' \in RxState /\ rx'.at = at /\ rx'.count = n
  BY RxWait
<1>2. WaitingBytes' = WaitingBytes
  BY DEF WaitingBytes, ringVars
<1>3. at \notin {"owing", "peeked", "copying", "copied"}
  BY DEF Places
<1>4. Taking'
  BY <1>1, <1>3 DEF Taking
<1>5. Looked'
  BY <1>1, <1>2 DEF Looked
<1> QED
  BY <1>1, <1>3, <1>4, <1>5, RxStep

LEMMA WaitAvailStep ==
  ASSUME Inv, NEW until \in Waits, NEW n \in 1..ControlCapacity, WaitAvail(until, n)
  PROVE  Inv'
<1>1. n \in 0..ControlCapacity
  BY Sizes
<1>2. until \in Places \ {"idle", "items closed", "no bytes", "finished"}
  BY DEF Waits, Places
<1> QED
  BY <1>1, <1>2, WaitStep DEF WaitAvail

LEMMA WaitAvailEndsStep == ASSUME Inv, WaitAvailEnds PROVE Inv'
<1>1. rx.at \notin {"owing", "copied"} /\ UNCHANGED <<ringVars, closed, shutdown, tx>>
  BY DEF WaitAvailEnds, Waits
<1>2. rx.count \in 0..ControlCapacity /\ 0 \in 0..ControlCapacity /\ WaitingItems \in Nat
  BY RxFields, Counts, Sizes DEF Inv
<1>3. ASSUME NEW n \in 0..ControlCapacity, n <= WaitingItems, rx' = Rx("idle", n, {}, 0)
      PROVE  Inv'
  BY <1>1, <1>3, WaitStep DEF Places
<1>4. (rx.count <= WaitingItems /\ rx' = Offer(rx.count)) \/ rx' = RxIdle
  BY <1>2, RxFields DEF WaitAvailEnds, Inv
<1>5. 0 <= WaitingItems /\ "idle" \in Places
  BY <1>2 DEF Places
<1> QED
  BY <1>2, <1>3, <1>4, <1>5 DEF Offer, RxIdle

LEMMA LooksStep ==
  ASSUME Inv, IsEmpty \/ IsClosed \/ IsPayloadEmpty \/ IsPayloadClosed PROVE Inv'
<1> USE DEF Inv
<1>1. UNCHANGED <<ringVars, closed, shutdown, tx>>
  BY DEF IsEmpty, IsClosed, IsPayloadEmpty, IsPayloadClosed, Look
<1>2. 0 \in 0..ControlCapacity /\ 0 <= WaitingItems
  BY Counts, Sizes
<1>3. rx.at \in {"idle", "no items", "items closed", "no bytes"}
  BY DEF IsEmpty, IsClosed, IsPayloadEmpty, IsPayloadClosed, Look
<1>4. PICK at \in Places :
        /\ rx' = Rx(at, 0, {}, 0)
        /\ at \in {"items closed", "no bytes", "finished"} => closed >= 1
        /\ at \in {"no bytes", "finished"} => WaitingBytes = 0
        /\ at = "finished" => closed = 2
  <2>1. CASE IsEmpty
    BY <2>1 DEF IsEmpty, Look, Places
  <2>2. CASE IsClosed
    BY <2>2 DEF IsClosed, Look, RxIdle, Places
  <2>3. CASE IsPayloadEmpty
    BY <2>3 DEF IsPayloadEmpty, Look, RxIdle, Looked, Places
  <2>4. CASE IsPayloadClosed
    BY <2>4 DEF IsPayloadClosed, Look, RxIdle, Looked, Places
  <2> QED
    BY <2>1, <2>2, <2>3, <2>4
<1>5. rx.at \notin {"owing", "copied"}
  BY <1>3
<1> QED
  BY <1>1, <1>2, <1>4, <1>5, WaitStep
-----------------------------------------------------------------------------
(* The steps of the producer.                                                *)
LEMMA Vacancies ==
  ASSUME Inv
  PROVE  VacantItems \in 0..ControlCapacity /\ VacantBytes \in 0..PayloadCapacity
<1>1. /\ WaitingItems \in Nat /\ WaitingBytes \in Nat
      /\ WaitingItems <= ControlCapacity /\ WaitingBytes <= PayloadCapacity
  BY Counts DEF Inv, Paired
<1> QED
  BY <1>1, Sizes DEF VacantItems, VacantBytes

LEMMA TxPlace ==
  ASSUME NEW r, NEW place, NEW then, NEW len \in 0..PayloadCapacity,
         NEW i \in 0..ControlCapacity, NEW b \in 0..PayloadCapacity,
         r = Tx(place, then, len, i, b)
  PROVE  /\ r.at = place /\ r.then = then /\ r.len = len /\ r.items = i /\ r.bytes = b
         /\ r.at \in {"idle", "pushed", "sending", "slice", "iter", "blocked",
                      "closing"} \cup RoomWaits
            /\ r.then \in {"idle", "slice", "iter", "told"} => r \in TxState
<1>1. r = [at |-> place, then |-> then, len |-> len, items |-> i, bytes |-> b]
  BY DEF Tx
<1>2. r.at = place /\ r.then = then /\ r.len = len /\ r.items = i /\ r.bytes = b
  BY <1>1
<1>3. r = [at |-> r.at, then |-> r.then, len |-> r.len, items |-> r.items, bytes |-> r.bytes]
  BY <1>1, <1>2
<1> QED
  BY <1>2, <1>3 DEF TxState

LEMMA TxMove ==
  ASSUME Inv, UNCHANGED <<ringVars, closed, shutdown, rx>>,
         NEW place \in {"idle", "sending", "slice", "iter", "blocked"} \cup RoomWaits,
         NEW then \in {"idle", "slice", "iter"}, NEW len \in 0..PayloadCapacity,
         NEW i \in 0..ControlCapacity, NEW b \in 0..PayloadCapacity,
         tx' = Tx(place, then, len, i, b), tx.at # "pushed",
         place \in {"idle", "slice", "iter"} => i <= VacantItems /\ b <= VacantBytes,
         place = "blocked" => 1 <= i /\ i <= VacantItems,
         closed # 0 => place \in {"idle"} \cup RoomWaits
  PROVE  Inv'
<1>1. /\ tx'.at = place /\ tx'.then = then /\ tx'.len = len /\ tx'.items = i
      /\ tx'.bytes = b
  BY TxPlace
<1>2. tx' \in TxState
  BY <1>1, TxPlace
<1>3. VacantItems' = VacantItems
  BY DEF VacantItems, WaitingItems, ringVars
<1>4. TxInv'
  BY <1>1, <1>3 DEF TxInv, RoomAsTold, RoomWaits
<1>5. closed' \in 0..2 /\ closed' >= closed /\ shutdown' \in BOOLEAN
  BY DEF Inv, TypeOK
<1>6. tx'.at # "pushed" /\ UNCHANGED <<ringVars, rx>>
  BY <1>1 DEF RoomWaits
<1> QED
  BY <1>1, <1>2, <1>4, <1>5, <1>6, TxStep

LEMMA SendStep ==
  ASSUME Inv, NEW len \in Lengths,
         TrySend(len) \/ SendAsync(len) \/ SliceNext(len) \/ IterNext(len)
  PROVE  Inv'
<1> USE DEF Inv
<1>c. /\ len \in 0..PayloadCapacity /\ len \in Nat
      /\ 0 \in 0..PayloadCapacity /\ 0 \in 0..ControlCapacity
  BY Sizes
<1>v. VacantItems \in 0..ControlCapacity /\ VacantBytes \in 0..PayloadCapacity
      /\ VacantItems \in Nat /\ VacantBytes \in Nat
  BY Vacancies, Sizes
<1>f. tx.items \in 0..ControlCapacity /\ tx.bytes \in 0..PayloadCapacity
      /\ tx.items \in Nat /\ tx.bytes \in Nat
  BY TxFields
<1>1. CASE TrySend(len)
  <2>1. tx.at # "pushed" /\ closed = 0 /\ PushPayload(len, "idle", 0, 0)
        /\ VacantBytes >= len /\ VacantItems >= 1
    BY <1>1 DEF TrySend, CanSend
  <2>2. 0 + 1 <= VacantItems /\ 0 + len <= VacantBytes
    BY <2>1, <1>c, <1>v
  <2> QED
    BY <2>1, <2>2, <1>c, PushPayloadStep
<1>2. CASE SendAsync(len)
  BY <1>2, <1>c, TxMove DEF SendAsync, CanSend
<1>3. CASE SliceNext(len)
  <2>1. tx.at = "slice" /\ closed = 0 /\ tx.items > 0 /\ len <= tx.bytes
        /\ PushPayload(len, "slice", tx.items - 1, tx.bytes - len)
    BY <1>3 DEF SliceNext, CanSend
  <2>2. tx.items <= VacantItems - 0 /\ tx.bytes <= VacantBytes
    BY <2>1 DEF PromisesKept, TxInv
  <2>3. /\ tx.items - 1 \in 0..ControlCapacity /\ tx.bytes - len \in 0..PayloadCapacity
        /\ (tx.items - 1) + 1 <= VacantItems /\ (tx.bytes - len) + len <= VacantBytes
    BY <2>1, <2>2, <1>c, <1>f, <1>v, Sizes
  <2> QED
    BY <2>1, <2>3, <1>c, PushPayloadStep
<1>4. CASE IterNext(len)
  <2>1. tx.at = "iter" /\ closed = 0 /\ tx.items > 0
    BY <1>4 DEF IterNext, CanSend
  <2>2. tx.items <= VacantItems - 0
    BY <2>1 DEF PromisesKept, TxInv
  <2>3. CASE len > VacantBytes
    <3>1. tx' = Tx("blocked", "iter", len, tx.items, 0)
          /\ UNCHANGED <<ringVars, closed, shutdown, rx>>
      BY <1>4, <2>3 DEF IterNext
    <3>2. 1 <= tx.items /\ tx.items <= VacantItems
      BY <2>1, <2>2, <1>f, <1>v
    <3> QED
      BY <3>1, <3>2, <2>1, <1>c, <1>f, TxMove
  <2>4. CASE ~(len > VacantBytes)
    <3>1. PushPayload(len, "iter", tx.items - 1, 0)
      BY <1>4, <2>4 DEF IterNext
    <3>2. tx.items - 1 \in 0..ControlCapacity /\ (tx.items - 1) + 1 <= VacantItems
          /\ 0 + len <= VacantBytes
      BY <2>1, <2>2, <2>4, <1>c, <1>f, <1>v, Sizes
    <3> QED
      BY <3>1, <3>2, <2>1, <1>c, PushPayloadStep
  <2> QED
    BY <2>3, <2>4
<1> QED
  BY <1>1, <1>2, <1>3, <1>4

LEMMA SendEndsStep ==
  ASSUME Inv,
         SendAsyncRoom \/ SendAsyncGivesUp \/ SendSlice \/ SendIter \/ IterUnblocks \/ LoopEnds
  PROVE  Inv'
<1> USE DEF Inv
<1>c. 0 \in 0..PayloadCapacity /\ 0 \in 0..ControlCapacity
  BY Sizes
<1>v. VacantItems \in 0..ControlCapacity /\ VacantBytes \in 0..PayloadCapacity
      /\ VacantItems \in Nat /\ VacantBytes \in Nat
  BY Vacancies, Sizes
<1>f. tx.items \in 0..ControlCapacity /\ tx.bytes \in 0..PayloadCapacity
      /\ tx.len \in 0..PayloadCapacity /\ tx.items \in Nat /\ tx.len \in Nat
  BY TxFields
<1>1. CASE SendAsyncRoom
  <2>1. tx.at = "sending" /\ VacantBytes >= tx.len /\ VacantItems >= 1
        /\ PushPayload(tx.len, "idle", 0, 0)
    BY <1>1 DEF SendAsyncRoom
  <2>2. closed = 0 /\ 0 + 1 <= VacantItems /\ 0 + tx.len <= VacantBytes
    BY <2>1, <1>v, <1>f DEF TxInv, RoomWaits
  <2> QED
    BY <2>1, <2>2, <1>c, <1>f, PushPayloadStep
<1>2. CASE SendAsyncGivesUp \/ LoopEnds
  <2>1. tx' = Tx("idle", "idle", 0, 0, 0) /\ tx.at # "pushed"
        /\ UNCHANGED <<ringVars, closed, shutdown, rx>>
    BY <1>2 DEF SendAsyncGivesUp, LoopEnds, TxIdle
  <2>2. 0 <= VacantItems /\ 0 <= VacantBytes
    BY <1>v
  <2> QED
    BY <2>1, <2>2, <1>c, TxMove
<1>3. CASE SendSlice
  <2>1. tx' = Tx("slice", "idle", 0, VacantItems, VacantBytes) /\ tx.at # "pushed"
        /\ closed = 0 /\ UNCHANGED <<ringVars, closed, shutdown, rx>>
    BY <1>3 DEF SendSlice, CanSend
  <2>2. VacantItems <= VacantItems /\ VacantBytes <= VacantBytes
    BY <1>v
  <2> QED
    BY <2>1, <2>2, <1>c, <1>v, TxMove
<1>4. CASE SendIter
  <2>1. tx' = Tx("iter", "idle", 0, VacantItems, 0) /\ tx.at # "pushed"
        /\ closed = 0 /\ UNCHANGED <<ringVars, closed, shutdown, rx>>
    BY <1>4 DEF SendIter, CanSend
  <2>2. VacantItems <= VacantItems /\ 0 <= VacantBytes
    BY <1>v
  <2> QED
    BY <2>1, <2>2, <1>c, <1>v, TxMove
<1>5. CASE IterUnblocks
  <2>1. tx.at = "blocked" /\ VacantBytes >= tx.len
        /\ PushPayload(tx.len, "iter", tx.items - 1, 0)
    BY <1>5 DEF IterUnblocks
  <2>2. closed = 0 /\ 1 <= tx.items /\ tx.items <= VacantItems
    BY <2>1 DEF TxInv, RoomWaits
  <2>3. tx.items - 1 \in 0..ControlCapacity /\ (tx.items - 1) + 1 <= VacantItems
        /\ 0 + tx.len <= VacantBytes
    BY <2>1, <2>2, <1>f, <1>v, Sizes
  <2> QED
    BY <2>1, <2>2, <2>3, <1>c, <1>f, PushPayloadStep
<1> QED
  BY <1>1, <1>2, <1>3, <1>4, <1>5

LEMMA WaitVacantStep ==
  ASSUME Inv, NEW until \in RoomWaits, NEW i \in 1..ControlCapacity,
         NEW b \in 0 .. PayloadCapacity + 1, WaitVacant(until, i, b)
  PROVE  Inv'
<1> USE DEF Inv
<1>c. /\ 0 \in 0..PayloadCapacity /\ i \in Nat /\ b \in Nat
      /\ ControlCapacity \in Nat /\ PayloadCapacity \in Nat
  BY Sizes
<1>v. VacantItems \in Nat /\ VacantBytes \in Nat
  BY Vacancies, Sizes
<1> DEFINE n == Smaller(i, ControlCapacity)
           m == Smaller(b, PayloadCapacity)
<1>1. n \in 0..ControlCapacity /\ m \in 0..PayloadCapacity
  BY <1>c DEF Smaller
<1>2. /\ tx.at # "pushed" /\ UNCHANGED <<ringVars, closed, shutdown, rx>>
      /\ tx' = IF VacantItems >= n /\ VacantBytes >= m
               THEN Tx("idle", "idle", 0, n, m) ELSE Tx(until, "idle", 0, n, m)
  BY DEF WaitVacant, Room
<1> HIDE DEF n, m
<1>3. CASE VacantItems >= n /\ VacantBytes >= m
  <2>1. n <= VacantItems /\ m <= VacantBytes
    BY <1>1, <1>3, <1>v
  <2> QED
    BY <1>1, <1>2, <1>3, <2>1, <1>c, TxMove
<1>4. CASE ~(VacantItems >= n /\ VacantBytes >= m)
  <2>1. until \notin {"idle", "slice", "iter", "blocked"}
    BY DEF RoomWaits
  <2> QED
    BY <1>1, <1>2, <1>4, <2>1, <1>c, TxMove
<1> QED
  BY <1>3, <1>4

LEMMA WaitVacantEndsStep == ASSUME Inv, WaitVacantEnds PROVE Inv'
<1> USE DEF Inv
<1>c. 0 \in 0..PayloadCapacity /\ 0 \in 0..ControlCapacity
  BY Sizes
<1>v. VacantItems \in Nat /\ VacantBytes \in Nat
  BY Vacancies, Sizes
<1>f. tx.items \in 0..ControlCapacity /\ tx.bytes \in 0..PayloadCapacity
      /\ tx.items \in Nat /\ tx.bytes \in Nat
  BY TxFields
<1>u. tx.at # "pushed" /\ UNCHANGED <<ringVars, closed, shutdown, rx>>
  BY DEF WaitVacantEnds, RoomWaits
<1>1. CASE RoomHasCome /\ tx' = Room(tx.items, tx.bytes)
  <2>1. tx.items <= VacantItems /\ tx.bytes <= VacantBytes
    BY <1>1, <1>v, <1>f DEF RoomHasCome
  <2>2. tx' = Tx("idle", "idle", 0, tx.items, tx.bytes)
    BY <1>1 DEF Room
  <2> QED
    BY <1>u, <1>c, <1>f, <2>1, <2>2, TxMove
<1>2. CASE tx' = TxIdle
  <2>1. 0 <= VacantItems /\ 0 <= VacantBytes
    BY <1>v
  <2>2. tx' = Tx("idle", "idle", 0, 0, 0)
    BY <1>2 DEF TxIdle
  <2> QED
    BY <1>u, <1>c, <2>1, <2>2, TxMove
<1> QED
  BY <1>1, <1>2 DEF WaitVacantEnds

(* A yes of vacant_units_for promises what RoomAsTold says and no more.      *)
LEMMA VacantUnitsForStep ==
  ASSUME Inv, NEW i \in 1..ControlCapacity, NEW b \in 1..PayloadCapacity,
         VacantUnitsFor(i, b)
  PROVE  Inv'
<1> USE DEF Inv
<1>c. /\ 0 \in 0..PayloadCapacity /\ i \in 0..ControlCapacity /\ b \in 0..PayloadCapacity
      /\ i \in Nat /\ b \in Nat /\ closed \in 0..2 /\ shutdown \in BOOLEAN
  BY Sizes DEF TypeOK
<1>v. VacantItems \in Nat /\ VacantBytes \in Nat
  BY Vacancies, Sizes
<1>u. /\ tx.at # "pushed" /\ UNCHANGED <<ringVars, closed, shutdown, rx>>
      /\ tx' = Tx("idle", "told", 0, i, b)
  BY DEF VacantUnitsFor, Told
<1>t. /\ tx'.at = "idle" /\ tx'.then = "told" /\ tx'.items = i /\ tx'.bytes = b
      /\ tx' \in TxState
  BY <1>u, <1>c, TxPlace
<1>1. i <= VacantItems /\ (b <= VacantBytes \/ i < VacantItems)
  <2>1. VacantItems > i \/ (VacantItems = i /\ VacantBytes >= b)
    BY DEF VacantUnitsFor, AtLeast
  <2> QED
    BY <2>1, <1>c, <1>v
<1>2. VacantItems' = VacantItems /\ VacantBytes' = VacantBytes
  BY <1>u DEF VacantItems, VacantBytes, WaitingItems, WaitingBytes, ringVars
<1>3. TxInv'
  <2>1. RoomAsTold'
    BY <1>t, <1>1, <1>2 DEF RoomAsTold
  <2> QED
    BY <1>t, <2>1 DEF TxInv
<1>4. closed' >= closed /\ closed' \in 0..2 /\ shutdown' \in BOOLEAN
  BY <1>u, <1>c
<1> QED
  BY <1>u, <1>t, <1>3, <1>4, TxStep

LEMMA CloseStep == ASSUME Inv, MarkClosed \/ MarkPayloadClosed PROVE Inv'
<1> USE DEF Inv
<1>c. /\ 0 \in 0..PayloadCapacity /\ 0 \in 0..ControlCapacity /\ closed \in 0..2
      /\ shutdown \in BOOLEAN
  BY Sizes DEF TypeOK
<1>v. 0 <= VacantItems /\ 0 <= VacantBytes
  BY Vacancies, Sizes
<1>1. CASE MarkClosed
  <2>1. /\ tx.at # "pushed" /\ UNCHANGED <<ringVars, shutdown, rx>>
        /\ closed = 0 /\ closed' = 1 /\ tx' = Tx("closing", "idle", 0, 0, 0)
    BY <1>1 DEF MarkClosed
  <2>2. tx'.at = "closing"
    BY <2>1, <1>c, TxPlace
  <2>3. tx' \in TxState /\ TxInv'
    BY <2>1, <2>2, <1>c, TxPlace DEF TxInv, RoomAsTold
  <2> QED
    BY <2>1, <2>2, <2>3, <1>c, TxStep
<1>2. CASE MarkPayloadClosed
  <2>1. /\ tx.at # "pushed" /\ UNCHANGED <<ringVars, shutdown, rx>>
        /\ closed = 1 /\ closed' = 2 /\ tx' = Tx("idle", "idle", 0, 0, 0)
    BY <1>2 DEF MarkPayloadClosed, TxIdle, TxInv
  <2>2. tx'.at = "idle" /\ tx'.items = 0 /\ tx'.bytes = 0
    BY <2>1, <1>c, TxPlace
  <2>3. tx' \in TxState /\ TxInv'
    BY <2>1, <2>2, <1>c, TxPlace DEF TxInv, RoomAsTold
  <2> QED
    BY <2>1, <2>2, <2>3, <1>c, <1>v, TxStep
<1> QED
  BY <1>1, <1>2

(* The shutdown signal, and steps that change nothing. *)
LEMMA SignalStep ==
  ASSUME Inv, UNCHANGED <<ringVars, closed, tx, rx>>, shutdown' \in BOOLEAN
  PROVE  Inv'
<1> USE DEF Inv
<1>u. /\ items' = items /\ cr' = cr /\ pw' = pw /\ pr' = pr /\ out' = out
      /\ closed' = closed /\ tx' = tx /\ rx' = rx
  BY DEF ringVars
<1>0. /\ Len(items)' = Len(items) /\ \A n : Before(n)' = Before(n)
      /\ Layout'
  BY <1>u, SameItems
<1>1. TypeOK'
  BY <1>u DEF TypeOK, RxState, TxState
<1>2. /\ WaitingItems' = WaitingItems /\ WaitingBytes' = WaitingBytes
      /\ VacantItems' = VacantItems /\ VacantBytes' = VacantBytes
      /\ Pending' = Pending /\ Owed' = Owed /\ Ahead' = Ahead
  BY <1>0, <1>u DEF WaitingItems, WaitingBytes, VacantItems, VacantBytes, Pending, Owed, Ahead
<1>3. Paired' /\ SlicesInRange' /\ PromisesKept'
  BY <1>0, <1>2, <1>u DEF Paired, SlicesInRange, PromisesKept
<1>4. TxInv' /\ Taking' /\ Looked'
  BY <1>0, <1>2, <1>u DEF TxInv, RoomAsTold, Taking, Looked
<1> QED
  BY <1>0, <1>1, <1>3, <1>4

-----------------------------------------------------------------------------
LEMMA NextInv == ASSUME Inv, WholeTargets, [Next]_vars PROVE Inv'
<1>1. CASE Producer
  <2>1. ASSUME NEW len \in Lengths,
               TrySend(len) \/ SendAsync(len) \/ SliceNext(len) \/ IterNext(len)
        PROVE  Inv'
    BY <2>1, SendStep
  <2>2. ASSUME SendAsyncRoom \/ SendAsyncGivesUp \/ SendSlice \/ SendIter \/ IterUnblocks
               \/ LoopEnds
        PROVE  Inv'
    BY <2>2, SendEndsStep
  <2>3. ASSUME PushItem PROVE Inv'
    BY <2>3, PushItemStep
  <2>4. ASSUME WaitVacantEnds PROVE Inv'
    BY <2>4, WaitVacantEndsStep
  <2>5. ASSUME MarkClosed \/ MarkPayloadClosed PROVE Inv'
    BY <2>5, CloseStep
  <2>6. ASSUME NEW until \in RoomWaits, NEW i \in 1..ControlCapacity,
               NEW b \in 0 .. PayloadCapacity + 1, WaitVacant(until, i, b)
        PROVE  Inv'
    BY <2>6, WaitVacantStep
  <2>7. ASSUME NEW i \in 1..ControlCapacity, NEW b \in 1..PayloadCapacity,
               VacantUnitsFor(i, b)
        PROVE  Inv'
    BY <2>7, VacantUnitsForStep
  <2> QED
    BY <1>1, <2>1, <2>2, <2>3, <2>4, <2>5, <2>6, <2>7 DEF Producer
<1>2. CASE Consumer
  <2>1. CASE TryTake
    BY <2>1, TryTakeStep
  <2>2. CASE TryTakePayload
    BY <2>2, TryTakePayloadStep
  <2>3. CASE PeekItems
    BY <2>3, PeekItemsStep
  <2>4. CASE AdvancePayload
    BY <2>4, AdvancePayloadStep
  <2>5. CASE AdvanceControl
    BY <2>5, AdvanceControlStep
  <2>6. ASSUME NEW max \in 1..ControlCapacity, NEW target \in Targets, TakeSlice(max, target)
        PROVE  Inv'
    BY <2>6, TakeSliceStep
  <2>7. ASSUME NEW n \in 0..ControlCapacity, PeekPayload(n) PROVE Inv'
    BY <2>7, PeekPayloadStep
  <2>8. ASSUME NEW until \in Waits, NEW n \in 1..ControlCapacity, WaitAvail(until, n)
        PROVE  Inv'
    BY <2>8, WaitAvailStep
  <2>9. CASE WaitAvailEnds
    BY <2>9, WaitAvailEndsStep
  <2>10. CASE IsEmpty \/ IsClosed \/ IsPayloadEmpty \/ IsPayloadClosed
    BY <2>10, LooksStep
  <2> QED
    BY <1>2, <2>1, <2>2, <2>3, <2>4, <2>5, <2>6, <2>7, <2>8, <2>9, <2>10 DEF Consumer
<1>3. CASE Shutdown \/ Quiescent \/ Entangled \/ UNCHANGED vars
  <2>1. UNCHANGED <<ringVars, closed, tx, rx>>
    BY <1>3 DEF Shutdown, Quiescent, Entangled, vars
  <2>2. shutdown' \in BOOLEAN
    BY <1>3 DEF Shutdown, Quiescent, Entangled, vars, Inv, TypeOK
  <2> QED
    BY <2>1, <2>2, SignalStep
<1> QED
  BY <1>1, <1>2, <1>3 DEF Next

LEMMA Inductive == ASSUME WholeTargets PROVE Spec => []Inv
<1>1. Init => Inv
  BY InitInv
<1>2. Inv /\ [Next]_vars => Inv'
  BY NextInv
<1> QED
  BY <1>1, <1>2, PTL DEF Spec

(* The variables keep their types: no index of a ring passes the other.      *)
THEOREM TypeCorrect == ASSUME WholeTargets PROVE Spec => []TypeOK
<1>1. Inv => TypeOK
  BY DEF Inv
<1> QED
  BY <1>1, Inductive, PTL

(* The two rings, which nothing but the order of the code's pushes and pops  *)
(* ties together, hold one another's items and bytes at every step.          *)
THEOREM AlwaysPaired == ASSUME WholeTargets PROVE Spec => []Paired
<1>1. Inv => Paired
  BY DEF Inv
<1> QED
  BY <1>1, Inductive, PTL

(* Whenever the consumer looks, the bytes of every item in sight are there:  *)
(* no cut out of the slices of the payload ring panics.                      *)
THEOREM SlicesAlwaysInRange == ASSUME WholeTargets PROVE Spec => []SlicesInRange
<1>1. Inv => SlicesInRange
  BY DEF Inv
<1> QED
  BY <1>1, Inductive, PTL

(* What a wait or a count has promised to one side, the other does not take  *)
(* away.                                                                     *)
THEOREM PromisesAlwaysKept == ASSUME WholeTargets PROVE Spec => []PromisesKept
<1>1. Inv => PromisesKept
  BY DEF Inv
<1> QED
  BY <1>1, Inductive, PTL

(* A yes of vacant_units_for is worth the room for the items, and the room   *)
(* for the bytes only when no item's room was to spare.                      *)
THEOREM RoomIsAsTold == ASSUME WholeTargets PROVE Spec => []RoomAsTold
<1>1. Inv => RoomAsTold
  BY DEF Inv, TxInv
<1> QED
  BY <1>1, Inductive, PTL

(* A consumer that is told the stream has ended leaves no bytes behind.      *)
THEOREM FinishedAlwaysLeavesNoBytes ==
  ASSUME WholeTargets PROVE Spec => []FinishedLeavesNoBytes
<1>1. Inv => FinishedLeavesNoBytes
  BY DEF Inv, Looked, FinishedLeavesNoBytes
<1> QED
  BY <1>1, Inductive, PTL

-----------------------------------------------------------------------------
(* The two rings implement one queue of items with their bytes.              *)
LEMMA SameBefore == \A n : Fifo!Before(n) = Before(n)
BY DEF Before, End, Fifo!Before, Fifo!End

LEMMA FifoInit == Init => Fifo!Init
BY DEF Init, Fifo!Init, Received, RxIdle, Rx

(* A step that neither pushes an item nor hands one over. *)
LEMMA Stutters ==
  ASSUME items' = items, out' = out, cr' = cr, rx.at # "copied", rx'.at # "copied"
  PROVE  UNCHANGED Fifo!vars
BY DEF Fifo!vars, Received

LEMMA PushItemSends == ASSUME Inv, PushItem PROVE Fifo!Send
<1> USE DEF Inv
<1>u. /\ items' = Append(items, [first |-> Before(Len(items)), len |-> tx.len])
      /\ cr' = cr /\ rx' = rx /\ out' = out /\ tx.at = "pushed"
  BY DEF PushItem
<1>c. /\ Len(items) \in Nat /\ cr \in Nat /\ pw \in Nat /\ pr \in Nat /\ cr <= Len(items)
      /\ rx.count \in Nat /\ rx.need \in Nat /\ tx.len \in Nat /\ tx.items \in Nat
      /\ WaitingItems \in Nat /\ ControlCapacity \in Nat /\ PayloadCapacity \in Nat
  BY Counts, RxFields, TxFields, Sizes
<1>r. Received \in Nat /\ cr <= Received /\ Received <= Len(items)
  <2>1. rx.at = "copied" => rx.count <= WaitingItems
    BY DEF Taking
  <2> QED
    BY <2>1, <1>c DEF Received, WaitingItems
<1>1. Len(items) < Received + ControlCapacity
  <2>1. tx.items <= VacantItems - 1
    BY <1>u DEF PromisesKept, TxInv
  <2>2. Len(items) - cr <= ControlCapacity - 1
    BY <2>1, <1>c DEF VacantItems, WaitingItems
  <2> QED
    BY <2>2, <1>r, <1>c
<1>2. tx.len \in 0 .. PayloadCapacity + Before(Received) - Before(Len(items))
  <2>1. Before(cr) \in Nat /\ Before(Received) \in Nat /\ Before(Len(items)) \in Nat
    BY <1>c, <1>r, BeforeIsNat
  <2>2. pr <= Before(Received)
    <3>1. CASE rx.at = "copied"
      <4>1. Received = cr + rx.count /\ rx.need = Before(cr + rx.count) - Before(cr)
            /\ Owed = 0 /\ Ahead = rx.need
        BY <3>1 DEF Received, Taking, Owed, Ahead
      <4>2. pr = Before(cr) + (Before(Received) - Before(cr))
        BY <4>1, <2>1 DEF Paired
      <4> QED
        BY <4>2, <2>1
    <3>2. CASE rx.at # "copied"
      <4>1. Received = cr /\ Ahead = 0 /\ Owed \in Nat
        BY <3>2, <1>c DEF Received, Owed, Ahead
      <4>2. pr = Before(cr) - Owed
        BY <4>1, <2>1 DEF Paired
      <4> QED
        BY <4>1, <4>2, <2>1
    <3> QED
      BY <3>1, <3>2
  <2>3. pw = Before(Len(items)) + tx.len /\ pw - pr <= PayloadCapacity
    BY <1>u DEF Paired, Pending, WaitingBytes
  <2>4. tx.len <= PayloadCapacity + Before(Received) - Before(Len(items))
    BY <2>1, <2>2, <2>3, <1>c
  <2> QED
    BY <2>1, <2>4, <1>c
<1>3. Received' = Received
  BY <1>u DEF Received
<1>4. \E len \in 0 .. PayloadCapacity + Fifo!Before(Received) - Fifo!Before(Len(items)) :
        items' = Append(items, [first |-> Fifo!Before(Len(items)), len |-> len])
  BY <1>u, <1>2, SameBefore
<1> QED
  BY <1>1, <1>3, <1>4, <1>u DEF Fifo!Send

LEMMA TryTakeReceives == ASSUME Inv, TryTake PROVE Fifo!Receive
<1> USE DEF Inv
<1> DEFINE len == items[cr + 1].len
<1>u. /\ items' = items /\ cr' = cr + 1 /\ rx' = Rx("owing", 0, {}, len)
      /\ out' = [items |-> {cr + 1}, from |-> pr, to |-> pr + len]
      /\ rx.at = "idle" /\ WaitingItems > 0
  BY DEF TryTake, Deliver
<1>c. /\ Len(items) \in Nat /\ cr \in Nat /\ cr + 1 \in cr .. Len(items) /\ pr \in Nat
      /\ cr \in 0 .. Len(items) - 1 /\ cr \in 0 .. Len(items) /\ cr + 1 \in 0 .. Len(items)
  BY <1>u, Counts DEF WaitingItems
<1>r. Received = cr /\ Received' = cr + 1
  BY <1>u DEF Received, Rx
<1>b. Before(cr) \in Nat /\ Before(cr + 1) \in Nat /\ len = Before(cr + 1) - Before(cr)
  BY <1>c, BeforeIsNat, ItemBytes
<1>1. pr = Before(cr)
  <2>1. Owed = 0 /\ Ahead = 0
    BY <1>u DEF Owed, Ahead
  <2> QED
    BY <2>1, <1>b DEF Paired
<1>2. pr + len = Before(cr + 1)
  BY <1>1, <1>b
<1>3. {cr + 1} = cr + 1 .. cr + 1
  BY <1>c
<1> HIDE DEF len
<1>4. out' = [items |-> Received + 1 .. cr + 1,
              from |-> Fifo!Before(Received), to |-> Fifo!Before(cr + 1)]
  BY <1>u, <1>r, <1>1, <1>2, <1>3, SameBefore
<1> QED
  BY <1>4, <1>c, <1>r, <1>u DEF Fifo!Receive

LEMMA AdvancePayloadReceives == ASSUME Inv, AdvancePayload PROVE Fifo!Receive
<1> USE DEF Inv
<1>s. Smaller(rx.need, WaitingBytes) = rx.need
  BY AdvancePayloadStep
<1>u. /\ items' = items /\ cr' = cr /\ rx' = Rx("copied", rx.count, rx.take, rx.need)
      /\ out' = [items |-> rx.take, from |-> pr, to |-> pr + rx.need] /\ rx.at = "copying"
  BY <1>s DEF AdvancePayload, Deliver
<1>t. /\ rx.count <= WaitingItems /\ rx.need = Before(cr + rx.count) - Before(cr)
      /\ rx.take = cr + 1 .. cr + rx.count
  BY <1>u DEF Taking
<1>c. /\ Len(items) \in Nat /\ cr \in Nat /\ cr <= Len(items) /\ pr \in Nat
      /\ rx.count \in Nat
  BY Counts, RxFields
<1>d. cr + rx.count \in cr .. Len(items) /\ cr + rx.count \in 0 .. Len(items)
      /\ cr \in 0 .. Len(items)
  BY <1>t, <1>c DEF WaitingItems
<1>r. Received = cr /\ Received' = cr + rx.count
  BY <1>u DEF Received, Rx
<1>b. Before(cr) \in Nat /\ Before(cr + rx.count) \in Nat
  BY <1>d, BeforeIsNat
<1>1. pr = Before(cr)
  <2>1. Owed = 0 /\ Ahead = 0
    BY <1>u DEF Owed, Ahead
  <2> QED
    BY <2>1, <1>b DEF Paired
<1>2. pr + rx.need = Before(cr + rx.count)
  BY <1>1, <1>b, <1>t
<1>3. out' = [items |-> Received + 1 .. cr + rx.count,
              from |-> Fifo!Before(Received), to |-> Fifo!Before(cr + rx.count)]
  BY <1>u, <1>r, <1>1, <1>2, <1>t, SameBefore
<1> QED
  BY <1>3, <1>d, <1>r, <1>u DEF Fifo!Receive

LEMMA AdvanceControlStutters == ASSUME AdvanceControl PROVE UNCHANGED Fifo!vars
<1>1. /\ items' = items /\ out' = out /\ cr' = cr + rx.count /\ rx.at = "copied"
      /\ rx'.at = "idle"
  BY DEF AdvanceControl, RxIdle, Rx
<1> QED
  BY <1>1 DEF Fifo!vars, Received

LEMMA ProducerStutters == ASSUME Producer, ~PushItem PROVE UNCHANGED Fifo!vars
<1>1. items' = items /\ out' = out /\ cr' = cr /\ rx' = rx
  <2> USE DEF ringVars, PushPayload
  <2>1. ASSUME NEW len \in Lengths,
               TrySend(len) \/ SendAsync(len) \/ SliceNext(len) \/ IterNext(len)
        PROVE  items' = items /\ out' = out /\ cr' = cr /\ rx' = rx
    BY <2>1 DEF TrySend, SendAsync, SliceNext, IterNext
  <2>2. CASE SendAsyncRoom \/ SendAsyncGivesUp \/ SendSlice \/ SendIter \/ IterUnblocks
             \/ LoopEnds \/ WaitVacantEnds \/ MarkClosed \/ MarkPayloadClosed
    BY <2>2 DEF SendAsyncRoom, SendAsyncGivesUp, SendSlice, SendIter, IterUnblocks, LoopEnds,
                WaitVacantEnds, MarkClosed, MarkPayloadClosed
  <2>3. ASSUME NEW until \in RoomWaits, NEW i \in 1..ControlCapacity,
               NEW b \in 0 .. PayloadCapacity + 1, WaitVacant(until, i, b)
        PROVE  items' = items /\ out' = out /\ cr' = cr /\ rx' = rx
    BY <2>3 DEF WaitVacant
  <2>4. ASSUME NEW i \in 1..ControlCapacity, NEW b \in 1..PayloadCapacity,
               VacantUnitsFor(i, b)
        PROVE  items' = items /\ out' = out /\ cr' = cr /\ rx' = rx
    BY <2>4 DEF VacantUnitsFor
  <2> QED
    BY <2>1, <2>2, <2>3, <2>4 DEF Producer
<1> QED
  BY <1>1 DEF Fifo!vars, Received

LEMMA ConsumerLooks ==
  ASSUME Consumer, ~TryTake, ~AdvancePayload, ~AdvanceControl PROVE UNCHANGED Fifo!vars
<1> USE DEF ringVars, Rx, Waits
<1>1. CASE TryTakePayload \/ PeekItems \/ WaitAvailEnds
           \/ IsEmpty \/ IsClosed \/ IsPayloadEmpty \/ IsPayloadClosed
  <2>1. CASE TryTakePayload \/ PeekItems
    <3>1. rx.at # "copied" /\ rx'.at # "copied"
      BY <2>1 DEF TryTakePayload, PeekItems, RxIdle
    <3>2. items' = items /\ out' = out /\ cr' = cr
      BY <2>1 DEF TryTakePayload, PeekItems
    <3> QED
      BY <3>1, <3>2, Stutters
  <2>2. CASE WaitAvailEnds
    <3>1. rx.at # "copied"
      BY <2>2 DEF WaitAvailEnds
    <3>2. rx' = Rx("idle", rx.count, {}, 0) \/ rx' = Rx("idle", 0, {}, 0)
      BY <2>2, Zenon DEF WaitAvailEnds, Offer, RxIdle
    <3>3. items' = items /\ out' = out /\ cr' = cr
      BY <2>2 DEF WaitAvailEnds
    <3>4. rx'.at = "idle"
      <4>1. ASSUME NEW n, rx' = Rx("idle", n, {}, 0) PROVE rx'.at = "idle"
        BY <4>1
      <4> QED
        BY <3>2, <4>1, Zenon
    <3> QED
      BY <3>1, <3>3, <3>4, Stutters
  <2>3. CASE IsEmpty \/ IsClosed \/ IsPayloadEmpty \/ IsPayloadClosed
    <3>1. ASSUME NEW at, NEW then, NEW yes, Look(at, yes, then),
                 at # "copied", then # "copied"
          PROVE  UNCHANGED Fifo!vars
      <4>1. rx.at # "copied" /\ items' = items /\ out' = out /\ cr' = cr
        BY <3>1 DEF Look
      <4>2. rx' = [at |-> then, count |-> 0, take |-> {}, need |-> 0]
            \/ rx' = [at |-> "idle", count |-> 0, take |-> {}, need |-> 0]
        BY <3>1, Zenon DEF Look, RxIdle
      <4>3. rx'.at # "copied"
        BY <4>2, <3>1
      <4> QED
        BY <4>1, <4>3, Stutters
    <3> QED
      BY <2>3, <3>1 DEF IsEmpty, IsClosed, IsPayloadEmpty, IsPayloadClosed
  <2> QED
    BY <1>1, <2>1, <2>2, <2>3
<1>2. ASSUME NEW max \in 1..ControlCapacity, NEW target \in Targets, TakeSlice(max, target)
      PROVE  UNCHANGED Fifo!vars
  BY <1>2, Stutters DEF TakeSlice
<1>3. ASSUME NEW n \in 0..ControlCapacity, PeekPayload(n) PROVE UNCHANGED Fifo!vars
  BY <1>3, Stutters DEF PeekPayload
<1>4. ASSUME NEW until \in Waits, NEW n \in 1..ControlCapacity, WaitAvail(until, n)
      PROVE  UNCHANGED Fifo!vars
  BY <1>4, Stutters DEF WaitAvail
<1> QED
  BY <1>1, <1>2, <1>3, <1>4 DEF Consumer

LEMMA StepRefines == ASSUME Inv, [Next]_vars PROVE [Fifo!Next]_(Fifo!vars)
<1>1. CASE PushItem
  BY <1>1, PushItemSends DEF Fifo!Next
<1>2. CASE TryTake
  BY <1>2, TryTakeReceives DEF Fifo!Next
<1>3. CASE AdvancePayload
  BY <1>3, AdvancePayloadReceives DEF Fifo!Next
<1>4. CASE AdvanceControl
  BY <1>4, AdvanceControlStutters
<1>5. CASE Producer /\ ~PushItem
  BY <1>5, ProducerStutters
<1>6. CASE Consumer /\ ~TryTake /\ ~AdvancePayload /\ ~AdvanceControl
  BY <1>6, ConsumerLooks
<1>7. CASE Shutdown \/ Quiescent \/ Entangled \/ UNCHANGED vars
  BY <1>7 DEF Shutdown, Quiescent, Entangled, vars, ringVars, Fifo!vars, Received
<1> QED
  BY <1>1, <1>2, <1>3, <1>4, <1>5, <1>6, <1>7 DEF Next

(* Two lock-free rings and the order in which the code touches them are one  *)
(* first-in first-out queue: every item arrives once, in the order of the    *)
(* sending and with its own bytes.                                           *)
THEOREM StreamIsFifo == ASSUME WholeTargets PROVE Spec => ImplementsStream
<1>1. Init => Fifo!Init
  BY FifoInit
<1>2. Inv /\ [Next]_vars => [Fifo!Next]_(Fifo!vars)
  BY StepRefines
<1> QED
  BY <1>1, <1>2, Inductive, PTL DEF Spec, ImplementsStream, Fifo!Spec

(* The last delivery is a run of items that have been sent. *)
Run ==
  out.items # {} => \E i, j \in 1 .. Len(items) :
    /\ i <= j /\ out.items = i..j
    /\ out.from = items[i].first /\ out.to = End(j)

LEMMA RunIsWhole == ASSUME TypeOK, Run PROVE DeliveredWhole
<1> SUFFICES ASSUME out.items # {}
             PROVE  \E i, j \in out.items :
                      /\ out.items = i..j
                      /\ out.from = items[i].first /\ out.to = End(j)
  BY DEF DeliveredWhole
<1>1. PICK i \in 1 .. Len(items), j \in 1 .. Len(items) :
        /\ i <= j /\ out.items = i..j
        /\ out.from = items[i].first /\ out.to = End(j)
  BY DEF Run
<1>2. i \in out.items /\ j \in out.items
  BY <1>1, Counts
<1> QED
  BY <1>1, <1>2

LEMMA RunOfReceive == ASSUME Inv, Fifo!Receive, Received \in 0 .. Len(items) PROVE Run'
<1> USE DEF Inv
<1>1. PICK n \in Received .. Len(items) :
        /\ out' = [items |-> Received + 1 .. n,
                   from |-> Fifo!Before(Received), to |-> Fifo!Before(n)]
        /\ items' = items
  BY DEF Fifo!Receive
<1>2. /\ out'.items = Received + 1 .. n /\ out'.from = Before(Received)
      /\ out'.to = Before(n)
  BY <1>1, SameBefore
<1> SUFFICES ASSUME out'.items # {} PROVE Run'
  BY DEF Run
<1>3. Len(items) \in Nat /\ Received \in Nat /\ n \in Nat /\ Received + 1 <= n
  BY <1>1, <1>2, Counts
<1>4. Received + 1 \in 1 .. Len(items) /\ n \in 1 .. Len(items) /\ n # 0
      /\ (Received + 1) - 1 = Received
  BY <1>1, <1>3
<1>5. items[Received + 1].first = Before(Received) /\ End(n) = Before(n)
  BY <1>4 DEF Layout, Before
<1> QED
  BY <1>1, <1>2, <1>3, <1>4, <1>5 DEF Run, End

LEMMA RunStep == ASSUME Inv, Run, [Next]_vars PROVE Run'
<1> USE DEF Inv
<1>1. [Fifo!Next]_(Fifo!vars)
  BY StepRefines
<1>2. CASE Fifo!Receive
  <2>1. Len(items) \in Nat /\ cr \in Nat /\ cr <= Len(items) /\ rx.count \in Nat
        /\ (rx.at = "copied" => rx.count <= WaitingItems)
    BY Counts, RxFields DEF Taking
  <2>2. Received \in 0 .. Len(items)
    BY <2>1 DEF Received, WaitingItems
  <2> QED
    BY <1>2, <2>2, RunOfReceive
<1>3. CASE UNCHANGED <<items, out>>
  BY <1>3 DEF Run, End
<1>4. CASE Fifo!Send
  <2>1. PICK len \in 0 .. PayloadCapacity + Fifo!Before(Received) - Fifo!Before(Len(items)) :
          items' = Append(items, [first |-> Before(Len(items)), len |-> len]) /\ out' = out
    BY <1>4, SameBefore DEF Fifo!Send
  <2>2. /\ Len(items') = Len(items) + 1
        /\ \A i \in 1 .. Len(items) : items'[i] = items[i]
    BY <2>1, AppendProperties DEF TypeOK
  <2>3. \A i \in 1 .. Len(items) : i \in 1 .. Len(items')
    BY <2>2, Counts
  <2> QED
    BY <2>1, <2>2, <2>3 DEF Run, End
<1> QED
  BY <1>1, <1>2, <1>3, <1>4 DEF Fifo!Next, Fifo!vars

(* Every delivery hands over a run of items with all of their bytes and no   *)
(* others; what take_slice does with a smaller buffer is the one exception.  *)
THEOREM AlwaysDeliveredWhole == ASSUME WholeTargets PROVE Spec => []DeliveredWhole
<1>1. Init => Run
  BY DEF Init, Run
<1>2. Inv /\ Run /\ [Next]_vars => Run'
  BY RunStep
<1>3. Inv /\ Run => DeliveredWhole
  BY RunIsWhole DEF Inv
<1> QED
  BY <1>1, <1>2, <1>3, Inductive, PTL DEF Spec
=============================================================================
