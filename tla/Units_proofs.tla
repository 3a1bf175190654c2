---------------------------- MODULE Units_proofs -----------------------------
(***************************************************************************)
(* The units that store things, the ones MCUnits drives, for every size    *)
(* and every set of values: the ring is a bounded FIFO queue, the order    *)
(* table a map from references to orders, the quote RAM answers in time,   *)
(* the engine runs every callback it accepted once per step, and the demo  *)
(* driver gives the pipeline the clock its model is built on.              *)
(***************************************************************************)
EXTENDS RingBuffer, OrderTableBench, BramBench, EngineBench, TraceRig,
        SequenceTheorems, FiniteSetTheorems, TLAPS

(***************************************************************************)
(* RingBuffer implements BoundedFifo, for every capacity and value set.    *)
(***************************************************************************)

\* The remainders push and pop take stay below two turns of the ring, where
\* they are a conditional subtraction.
LEMMA Wrap ==
  ASSUME NEW a \in Nat, a < 2 * Count
  PROVE  a % Count = IF a < Count THEN a ELSE a - Count
<1>0. Count \in Nat /\ Count > 0
  BY RingAssumption
<1>1. CASE a < Count
  BY <1>0, <1>1
<1>2. CASE a >= Count
  BY <1>0, <1>2
<1> QED
  BY <1>0, <1>1, <1>2

\* The position an index denotes on the ring, without the remainder.
Turn(a) == IF a < Count THEN a ELSE a - Count

\* The tail is where a push writes, and it is the slot after the contents.
LEMMA TailTurn ==
  ASSUME RingInv
  PROVE  tail = Turn(head + size)
<1>1. head \in Nat /\ size \in Nat /\ head + size < 2 * Count
  BY RingAssumption DEF RingInv, RingTypeOK, Index
<1> QED
  BY <1>1, Wrap, RingAssumption DEF RingInv, IndicesAgree, Turn

\* The contents are the slots from head on, read around the end of the slab.
LEMMA ContentsTurn ==
  ASSUME RingInv
  PROVE  Contents = [i \in 1 .. size |-> slots[Turn(head + i - 1)]]
<1>1. ASSUME NEW i \in 1 .. size
      PROVE  (head + i - 1) % Count = Turn(head + i - 1)
  <2>1. head + i - 1 \in Nat /\ head + i - 1 < 2 * Count
    BY RingAssumption DEF RingInv, RingTypeOK, Index
  <2> QED
    BY <2>1, Wrap DEF Turn
<1> QED
  BY <1>1 DEF Contents

------------------------------------------------------------------------------
\* push and pop keep the indices inside the slab and in step with the count.
THEOREM RingInvariant == RingSpec => []RingInv
<1>1. RingInit => RingInv
  BY RingAssumption
  DEF RingInit, RingInv, RingTypeOK, IndicesAgree, Index, Fifo!Results
<1>2. RingInv /\ [RingNext]_ringVars => RingInv'
  <2> SUFFICES ASSUME RingInv, [RingNext]_ringVars
               PROVE  RingInv'
    OBVIOUS
  <2> USE RingAssumption
  <2>t. tail = Turn(head + size)
    BY TailTurn
  <2>1. CASE UNCHANGED ringVars
    BY <2>1 DEF ringVars, RingInv, RingTypeOK, IndicesAgree
  <2>2. CASE PopEmpty
    BY <2>2 DEF PopEmpty, RingInv, RingTypeOK, IndicesAgree, Fifo!Results
  <2>3. ASSUME NEW v \in Values, PushFull(v)
        PROVE  RingInv'
    BY <2>3 DEF PushFull, RingInv, RingTypeOK, IndicesAgree, Fifo!Results
  <2>4. CASE PopTaken
    <3>1. size \in 1 .. Count /\ head \in 0 .. Count - 1 /\ size' = size - 1
      BY <2>4 DEF PopTaken, RingInv, RingTypeOK, Index
    <3>2. head' = Turn(head + 1)
      BY <2>4, <3>1, Wrap DEF PopTaken, Turn
    <3>3. (head' + size') % Count = Turn(head' + size')
      BY <3>1, <3>2, Wrap DEF Turn
    <3>4. tail' = (head' + size') % Count
      BY <2>4, <2>t, <3>1, <3>2, <3>3 DEF PopTaken, Turn
    <3>5. result' \in Fifo!Results
      <4>1. slots[head] \in Values
        BY DEF RingInv, RingTypeOK
      <4> QED
        BY <2>4, <4>1 DEF PopTaken, Fifo!Results
    <3>6. RingTypeOK'
      BY <2>4, <3>1, <3>2, <3>5 DEF PopTaken, RingInv, RingTypeOK, Index, Turn
    <3> QED
      BY <3>4, <3>6 DEF RingInv, IndicesAgree
  <2>5. ASSUME NEW v \in Values, PushStored(v)
        PROVE  RingInv'
    <3>1. size \in 0 .. Count - 1 /\ tail \in 0 .. Count - 1 /\ head \in 0 .. Count - 1
          /\ size' = size + 1 /\ head' = head
      BY <2>5 DEF PushStored, RingInv, RingTypeOK, Index
    <3>2. tail' = Turn(tail + 1)
      BY <2>5, <3>1, Wrap DEF PushStored, Turn
    <3>3. (head' + size') % Count = Turn(head' + size')
      BY <3>1, Wrap DEF Turn
    <3>4. tail' = (head' + size') % Count
      BY <2>t, <3>1, <3>2, <3>3 DEF Turn
    <3>5. RingTypeOK'
      BY <2>5, <3>1, <3>2
      DEF PushStored, RingInv, RingTypeOK, Index, Turn, Fifo!Results
    <3> QED
      BY <3>4, <3>5 DEF RingInv, IndicesAgree
  <2> QED
    BY <2>1, <2>2, <2>3, <2>4, <2>5 DEF RingNext
<1> QED
  BY <1>1, <1>2, PTL DEF RingSpec

\* A pop takes the head of the contents and leaves the rest in order.
LEMMA PopStep ==
  ASSUME RingInv, RingInv', PopTaken
  PROVE  Fifo!Pop
<1> USE RingAssumption
<1>1. size \in 1 .. Count /\ head \in 0 .. Count - 1 /\ size' = size - 1
      /\ head' = Turn(head + 1) /\ slots' = slots
  <2>1. size \in 1 .. Count /\ head \in 0 .. Count - 1 /\ size' = size - 1
        /\ slots' = slots /\ head' = (head + 1) % Count
    BY DEF PopTaken, RingInv, RingTypeOK, Index
  <2> QED
    BY <2>1, Wrap DEF Turn
<1>2. Contents = [i \in 1 .. size |-> slots[Turn(head + i - 1)]]
  BY ContentsTurn
<1>3. Contents' = [i \in 1 .. size' |-> slots'[Turn(head' + i - 1)]]
  <2>1. ASSUME NEW i \in 1 .. size'
        PROVE  (head' + i - 1) % Count = Turn(head' + i - 1)
    <3>1. head' + i - 1 \in Nat /\ head' + i - 1 < 2 * Count
      BY <1>1 DEF Turn
    <3> QED
      BY <3>1, Wrap DEF Turn
  <2> QED
    BY <2>1 DEF Contents
<1>4. Contents \in Seq(Values) /\ Len(Contents) = size
  <2>1. \A i \in 1 .. size : slots[Turn(head + i - 1)] \in Values
    BY <1>1 DEF RingInv, RingTypeOK, Index, Turn
  <2> QED
    BY <1>1, <1>2, <2>1
<1>5. Contents # <<>> /\ Head(Contents) = slots[head]
  BY <1>1, <1>2, <1>4 DEF Turn
<1>6. Contents' = Tail(Contents)
  <2>1. \A i \in 1 .. size - 1 : Turn(head' + i - 1) = Turn(head + (i + 1) - 1)
    BY <1>1 DEF Turn
  <2>2. Tail(Contents) = [i \in 1 .. size - 1 |-> Contents[i + 1]]
    <3>1. Tail(Contents) \in Seq(Values) /\ Len(Tail(Contents)) = size - 1
          /\ \A i \in 1 .. size - 1 : Tail(Contents)[i] = Contents[i + 1]
      BY <1>4, <1>5, HeadTailProperties
    <3> QED
      BY <3>1, LenProperties
  <2>3. \A i \in 1 .. size - 1 : Contents[i + 1] = slots[Turn(head + (i + 1) - 1)]
    BY <1>1, <1>2
  <2> QED
    BY <1>1, <1>3, <2>1, <2>2, <2>3
<1> QED
  BY <1>5, <1>6 DEF Fifo!Pop, PopTaken

\* A push of a ring that is not full appends to the contents: the slot it
\* writes holds none of them.
LEMMA PushStep ==
  ASSUME RingInv, RingInv', NEW v \in Values, PushStored(v)
  PROVE  Fifo!Push(v)
<1> USE RingAssumption
<1>1. size \in 0 .. Count - 1 /\ head \in 0 .. Count - 1 /\ tail \in 0 .. Count - 1
      /\ size' = size + 1 /\ head' = head
      /\ slots' = [slots EXCEPT ![tail] = v] /\ slots \in [Index -> Values]
  BY DEF PushStored, RingInv, RingTypeOK, Index
<1>2. tail = Turn(head + size)
  BY TailTurn
<1>3. Contents = [i \in 1 .. size |-> slots[Turn(head + i - 1)]]
  BY ContentsTurn
<1>4. Contents' = [i \in 1 .. size' |-> slots'[Turn(head' + i - 1)]]
  <2>1. ASSUME NEW i \in 1 .. size'
        PROVE  (head' + i - 1) % Count = Turn(head' + i - 1)
    <3>1. head' + i - 1 \in Nat /\ head' + i - 1 < 2 * Count
      BY <1>1
    <3> QED
      BY <3>1, Wrap DEF Turn
  <2> QED
    BY <2>1 DEF Contents
<1>5. Contents \in Seq(Values) /\ Len(Contents) = size
  <2>1. \A i \in 1 .. size : slots[Turn(head + i - 1)] \in Values
    BY <1>1 DEF Index, Turn
  <2> QED
    BY <1>1, <1>3, <2>1
<1>6. Contents' = Append(Contents, v)
  <2>1. \A i \in 1 .. size : slots'[Turn(head + i - 1)] = Contents[i]
    <3>1. \A i \in 1 .. size : Turn(head + i - 1) \in Index /\ Turn(head + i - 1) # tail
      BY <1>1, <1>2 DEF Turn, Index
    <3> QED
      BY <1>1, <1>3, <3>1
  <2>2. slots'[Turn(head + (size + 1) - 1)] = v
    BY <1>1, <1>2 DEF Turn, Index
  <2>3. Append(Contents, v)
          = [i \in 1 .. size + 1 |-> IF i <= size THEN Contents[i] ELSE v]
    <3>1. Append(Contents, v) \in Seq(Values) /\ Len(Append(Contents, v)) = size + 1
          /\ \A i \in 1 .. size : Append(Contents, v)[i] = Contents[i]
          /\ Append(Contents, v)[size + 1] = v
      BY <1>5, AppendProperties
    <3>2. \A i \in 1 .. size + 1 :
            Append(Contents, v)[i] = IF i <= size THEN Contents[i] ELSE v
      BY <1>1, <3>1
    <3> QED
      BY <3>1, <3>2, LenProperties
  <2>4. \A i \in 1 .. size + 1 :
          slots'[Turn(head + i - 1)] = IF i <= size THEN Contents[i] ELSE v
    BY <1>1, <2>1, <2>2
  <2> QED
    BY <1>1, <1>4, <2>3, <2>4
<1> QED
  BY <1>1, <1>5, <1>6 DEF Fifo!Push, PushStored

\* The ring buffer is a bounded FIFO queue.
THEOREM RingImplementsFifo == RingSpec => ImplementsFifo
<1>1. RingInit => Fifo!FifoInit
  BY DEF RingInit, Fifo!FifoInit, Contents
<1>2. RingInv /\ RingInv' /\ [RingNext]_ringVars => [Fifo!FifoNext]_Fifo!fifoVars
  <2> SUFFICES ASSUME RingInv, RingInv', [RingNext]_ringVars
               PROVE  [Fifo!FifoNext]_Fifo!fifoVars
    OBVIOUS
  <2>1. CASE UNCHANGED ringVars
    BY <2>1 DEF ringVars, Fifo!fifoVars, Contents
  <2>2. CASE PopEmpty
    <3>1. Contents = <<>> /\ Contents' = Contents
      BY <2>2 DEF PopEmpty, Contents
    <3> QED
      BY <2>2, <3>1 DEF PopEmpty, Fifo!FifoNext, Fifo!Pop
  <2>3. ASSUME NEW v \in Values, PushFull(v)
        PROVE  Fifo!FifoNext
    <3>1. Contents' = Contents
      BY <2>3 DEF PushFull, Contents
    <3>2. Len(Contents) = Count
      BY <2>3, RingAssumption DEF PushFull, Contents
    <3> QED
      BY <2>3, <3>1, <3>2 DEF PushFull, Fifo!FifoNext, Fifo!Push
  <2>4. CASE PopTaken
    BY <2>4, PopStep DEF Fifo!FifoNext
  <2>5. ASSUME NEW v \in Values, PushStored(v)
        PROVE  Fifo!FifoNext
    BY <2>5, PushStep DEF Fifo!FifoNext
  <2> QED
    BY <2>1, <2>2, <2>3, <2>4, <2>5 DEF RingNext
<1> QED
  BY <1>1, <1>2, RingInvariant, PTL DEF RingSpec, ImplementsFifo, Fifo!FifoSpec

(***************************************************************************)
(* The order table keeps at most one slot per live reference               *)
(* (TableInvariant), and so the linear search over the slots implements a  *)
(* map from references to orders (TableImplementsMap), for every capacity  *)
(* and every set of references, prices and shares.                         *)
(***************************************************************************)

FullEntry ==
  [reference : References, price : Prices, remaining : Nat \ {0},
   bid : BOOLEAN, live : {TRUE}]

\* The two conjuncts of TableInv, for any table.
TypedTable(t) == t \in [Slots -> {NoEntry} \cup FullEntry]
UniqueTable(t) ==
  \A i, j \in Slots : t[i].live /\ t[j].live /\ t[i].reference = t[j].reference => i = j

\* TableInv is the two of them about the table in use.
LEMMA TableInvParts == TableInv <=> TypedTable(entries) /\ UniqueTable(entries)
  BY DEF TableInv, TypedTable, UniqueTable, FullEntry

\* The search of reduce stops at the one slot that holds the reference: with
\* no reference live twice, the first match is the only match.
LEMMA HoldingSlot ==
  ASSUME NEW t, UniqueTable(t), NEW r, Known(t, r)
  PROVE  /\ Min(Holding(t, r)) \in Slots
         /\ t[Min(Holding(t, r))].live
         /\ t[Min(Holding(t, r))].reference = r
<1>1. PICK i \in Slots : t[i].live /\ t[i].reference = r
  BY DEF Known, Holding
<1>2. Holding(t, r) = {i}
  BY <1>1 DEF UniqueTable, Holding
<1>3. i \in Int
  BY CapacityAssumption DEF Slots
<1>4. Min(Holding(t, r)) = i
  <2>1. \E k \in {i} : \A j \in {i} : k <= j
    BY <1>3
  <2> QED
    BY <1>2, <2>1 DEF Min
<1> QED
  BY <1>1, <1>4

\* A live slot of a typed table holds an order with at least one share.
LEMMA LiveSlotFull ==
  ASSUME NEW t, TypedTable(t), NEW i \in Slots, t[i].live
  PROVE  t[i] \in FullEntry
<1>1. t[i] \in {NoEntry} \cup FullEntry
  BY DEF TypedTable
<1>2. t[i] # NoEntry
  BY DEF NoEntry
<1> QED
  BY <1>1, <1>2

\* insert: the new order takes one slot, and its reference was live in none.
LEMMA InsertKeeps ==
  ASSUME NEW t, TypedTable(t), UniqueTable(t), NEW r \in References, NEW b \in BOOLEAN,
         NEW p \in Prices, NEW n \in Shares
  PROVE  TypedTable(Insert(t, r, b, p, n)) /\ UniqueTable(Insert(t, r, b, p, n))
<1>1. CASE ~InsertOk(t, r)
  BY <1>1 DEF Insert
<1>2. CASE InsertOk(t, r)
  <2> DEFINE e == [reference |-> r, price |-> p, remaining |-> n, bid |-> b, live |-> TRUE]
             x == Min(Vacant(t))
             u == [t EXCEPT ![x] = e]
  <2>1. Insert(t, r, b, p, n) = u
    BY <1>2 DEF Insert
  <2>2. e \in FullEntry /\ e.reference = r
    BY BenchAssumption DEF FullEntry
  <2>3. \A i \in Slots : t[i].live => t[i].reference # r
    BY <1>2 DEF InsertOk, Known, Holding
  <2> HIDE DEF e, x
  <2>4. u \in [Slots -> {NoEntry} \cup FullEntry]
    BY <2>2 DEF TypedTable
  <2>5. \A i \in Slots : u[i] = IF i = x THEN e ELSE t[i]
    BY DEF TypedTable
  <2> HIDE DEF u
  <2>6. UniqueTable(u)
    BY <2>2, <2>3, <2>5 DEF UniqueTable
  <2> QED
    BY <2>1, <2>4, <2>6 DEF TypedTable
<1> QED
  BY <1>1, <1>2

\* reduce: the slot keeps its reference and at least one share, or is erased.
LEMMA ReduceKeeps ==
  ASSUME NEW t, TypedTable(t), UniqueTable(t), NEW r \in References, NEW n \in Shares
  PROVE  TypedTable(Reduce(t, r, n)) /\ UniqueTable(Reduce(t, r, n))
<1>1. CASE ~Known(t, r)
  BY <1>1 DEF Reduce
<1>2. CASE Known(t, r)
  <2> DEFINE x == Min(Holding(t, r))
             o == t[x]
             applied == Applied(t, r, n)
             e == IF o.remaining - applied <= 0
                    THEN NoEntry ELSE [o EXCEPT !.remaining = o.remaining - applied]
             u == [t EXCEPT ![x] = e]
  <2>1. x \in Slots /\ o.live /\ o.reference = r
    BY <1>2, HoldingSlot
  <2>2. o \in FullEntry
    BY <2>1, LiveSlotFull
  <2>3. Reduce(t, r, n) = u
    BY <1>2, <2>1 DEF Reduce, Entry, TypedTable
  <2>4. applied = IF n < o.remaining THEN n ELSE o.remaining
    BY DEF Applied, Entry
  <2>5. t[x].live /\ t[x].reference = r
    BY <2>1
  <2> HIDE DEF x, o, applied
  <2>6. n \in Nat
    BY BenchAssumption
  <2>7. o.remaining \in Nat
    BY <2>2 DEF FullEntry
  <2>8. o.remaining - applied \in Int
    BY <2>4, <2>6, <2>7
  <2>9. e = NoEntry \/ (e \in FullEntry /\ e.reference = r)
    <3>1. CASE o.remaining - applied <= 0
      BY <3>1
    <3>2. CASE ~(o.remaining - applied <= 0)
      <4>1. o.remaining - applied \in Nat \ {0}
        BY <3>2, <2>8
      <4>2. e = [o EXCEPT !.remaining = o.remaining - applied]
        BY <3>2
      <4> HIDE DEF e
      <4> QED
        BY <2>1, <2>2, <4>1, <4>2 DEF FullEntry
    <3> QED
      BY <3>1, <3>2
  <2> HIDE DEF e
  <2>10. u \in [Slots -> {NoEntry} \cup FullEntry]
    BY <2>9 DEF TypedTable
  <2>11. \A i \in Slots : u[i] = IF i = x THEN e ELSE t[i]
    BY DEF TypedTable
  <2> HIDE DEF u
  <2>12. \A i \in Slots : u[i].live => t[i].live /\ t[i].reference = u[i].reference
    <3>1. ~NoEntry.live
      BY DEF NoEntry
    <3>2. e.live => e.reference = r
      BY <2>9, <3>1
    <3> QED
      BY <2>5, <2>11, <3>2
  <2>13. UniqueTable(u)
    BY <2>12 DEF UniqueTable
  <2> QED
    BY <2>3, <2>10, <2>13 DEF TypedTable
<1> QED
  BY <1>1, <1>2

\* The table the constructor and reset() leave satisfies both.
LEMMA EmptyTable ==
  TypedTable([i \in Slots |-> NoEntry]) /\ UniqueTable([i \in Slots |-> NoEntry])
  BY DEF TypedTable, UniqueTable, NoEntry

\* Over any sequence of insert, reduce and reset calls, whatever the capacity,
\* every slot is free or holds an order with shares left, and no reference is
\* live in two slots.
THEOREM TableInvariant == TableSpec => []TableInv
<1>1. TableBenchInit => TableInv
  BY EmptyTable, TableInvParts DEF TableBenchInit, TableInit
<1>2. TableInv /\ [TableNext]_tableVars => TableInv'
  <2> SUFFICES ASSUME TypedTable(entries), UniqueTable(entries), [TableNext]_tableVars
               PROVE  TypedTable(entries') /\ UniqueTable(entries')
    BY TableInvParts DEF TableInv, TypedTable, UniqueTable, FullEntry
  <2>1. CASE ResetCall
    BY <2>1, EmptyTable DEF ResetCall, TableReset
  <2>2. ASSUME NEW r \in References, NEW n \in Shares, ReduceCall(r, n)
        PROVE  TypedTable(entries') /\ UniqueTable(entries')
    BY <2>2, ReduceKeeps DEF ReduceCall
  <2>3. ASSUME NEW r \in References, NEW n \in Shares, NEW b \in BOOLEAN, NEW p \in Prices,
               InsertCall(r, b, p, n)
        PROVE  TypedTable(entries') /\ UniqueTable(entries')
    BY <2>3, InsertKeeps DEF InsertCall
  <2>4. CASE UNCHANGED tableVars
    BY <2>4 DEF tableVars, TypedTable, UniqueTable
  <2> QED
    BY <2>1, <2>2, <2>3, <2>4 DEF TableNext
<1> QED
  BY <1>1, <1>2, PTL DEF TableSpec

\* A set of naturals that is not empty has a least element, which Min returns.
LEMMA MinOfSet ==
  ASSUME NEW S, S \subseteq Nat, S # {}
  PROVE  Min(S) \in S /\ \A y \in S : Min(S) <= y
  <1> DEFINE R == {ss \in Nat \X Nat : ss[1] < ss[2]}
  <1>1. IsWellFoundedOn(R, Nat)
    BY NatLessThanWellFounded DEF OpToRel
  <1>2. PICK x \in S : \A y \in S : ~(<<y, x>> \in R)
    <2> HIDE DEF R
    <2> QED
      BY <1>1, WFMin
  <1>3. \A y \in S : x <= y
    <2> SUFFICES ASSUME NEW y \in S, ~(x <= y) PROVE FALSE
      OBVIOUS
    <2>1. x \in Nat /\ y \in Nat
      OBVIOUS
    <2>2. y < x
      BY <2>1
    <2>3. PICK z : z = <<y, x>>
      OBVIOUS
    <2>4. z \in Nat \X Nat /\ z[1] = y /\ z[2] = x
      BY <2>1, <2>3
    <2>5. z \in R
      BY <2>2, <2>4
    <2>6. QED
      BY <1>2, <2>3, <2>5
  <1>4. QED
    BY <1>3 DEF Min

(***************************************************************************)
(* The map a table stands for, and what the calls do to it.                *)
(***************************************************************************)
Live(t) == {j \in Slots : t[j].live}
Refs(t) == {t[i].reference : i \in Live(t)}
OrderIn(e) == [bid |-> e.bid, price |-> e.price, remaining |-> e.remaining]
Content(t) == [r \in Refs(t) |-> OrderIn(Entry(t, r))]

\* Orders is the content of the table in use.
LEMMA OrdersIsContent ==
  /\ Orders = Content(entries) /\ Orders' = Content(entries')
  /\ DOMAIN Orders = Refs(entries)
  BY DEF Orders, Content, LiveReferences, Refs, Live, OrderIn

\* A live slot is the one the search finds for its reference.
LEMMA EntryOfSlot ==
  ASSUME NEW t, UniqueTable(t), NEW i \in Live(t)
  PROVE  /\ t[i].reference \in Refs(t) /\ Known(t, t[i].reference)
         /\ Min(Holding(t, t[i].reference)) = i
         /\ Entry(t, t[i].reference) = t[i]
  <1>1. i \in Slots /\ t[i].live
    BY DEF Live
  <1>2. Known(t, t[i].reference)
    BY <1>1 DEF Known, Holding
  <1>3. Min(Holding(t, t[i].reference)) = i
    BY <1>1, <1>2, HoldingSlot DEF UniqueTable
  <1>4. QED
    BY <1>2, <1>3 DEF Refs, Entry

\* The references in the map are the ones the search finds.
LEMMA KnownIsLive ==
  ASSUME NEW t, NEW r
  PROVE  Known(t, r) <=> r \in Refs(t)
  BY DEF Known, Holding, Refs, Live

\* There is a free slot exactly when fewer than Capacity references are live.
LEMMA RoomIsCounted ==
  ASSUME NEW t, UniqueTable(t)
  PROVE  Vacant(t) # {} <=> Cardinality(Refs(t)) < Capacity
  <1> DEFINE f == [i \in Live(t) |-> t[i].reference]
  <1>1. IsFiniteSet(Slots) /\ Cardinality(Slots) = Capacity /\ Capacity \in Nat
    <2>1. Capacity \in Nat /\ Capacity > 0
      BY CapacityAssumption
    <2>2. IsFiniteSet(1 .. Capacity)
            /\ Cardinality(1 .. Capacity) = IF 1 > Capacity THEN 0 ELSE Capacity - 1 + 1
      BY <2>1, FS_Interval
    <2>3. QED
      BY <2>1, <2>2 DEF Slots
  <1>2. Live(t) \in SUBSET Slots
    BY DEF Live
  <1>3. /\ IsFiniteSet(Live(t)) /\ Cardinality(Live(t)) <= Capacity
        /\ Cardinality(Live(t)) = Capacity => Live(t) = Slots
    BY <1>1, <1>2, FS_Subset
  <1>4. Cardinality(Live(t)) \in Nat
    BY <1>3, FS_CardinalityType
  <1>5. f \in Surjection(Live(t), Refs(t))
    BY DEF Surjection, Refs
  <1>6. f \in Injection(Live(t), Refs(t))
    <2>1. f \in [Live(t) -> Refs(t)]
      BY DEF Refs
    <2>2. \A i, j \in Live(t) : f[i] = f[j] => i = j
      BY DEF UniqueTable, Live
    <2>3. QED
      BY <2>1, <2>2 DEF Injection, IsInjective
  <1>7. Cardinality(Refs(t)) = Cardinality(Live(t))
    <2> HIDE DEF f
    <2> QED
      BY <1>3, <1>5, <1>6, FS_Surjection
  <1>8. Vacant(t) = {} <=> Live(t) = Slots
    BY DEF Vacant, Live
  <1>9. QED
    BY <1>1, <1>3, <1>4, <1>7, <1>8

\* insert adds the order to the map.
LEMMA InsertContent ==
  ASSUME NEW t, TypedTable(t), UniqueTable(t), NEW r \in References, NEW b \in BOOLEAN,
         NEW p \in Prices, NEW n \in Shares, InsertOk(t, r)
  PROVE  Content(Insert(t, r, b, p, n)) =
           [s \in Refs(t) \cup {r} |->
              IF s = r THEN [bid |-> b, price |-> p, remaining |-> n] ELSE Content(t)[s]]
  <1> DEFINE e == [reference |-> r, price |-> p, remaining |-> n, bid |-> b, live |-> TRUE]
             x == Min(Vacant(t))
             u == Insert(t, r, b, p, n)
  <1>1. UniqueTable(u)
    BY InsertKeeps
  <1>2. x \in Slots /\ ~t[x].live
    <2>1. Vacant(t) # {} /\ Vacant(t) \subseteq Nat
      BY CapacityAssumption DEF InsertOk, Vacant, Slots
    <2>2. x \in Vacant(t)
      BY <2>1, MinOfSet
    <2>3. QED
      BY <2>2 DEF Vacant
  <1>3. \A i \in Slots : u[i] = IF i = x THEN e ELSE t[i]
    BY DEF Insert, TypedTable
  <1>4. e.live = TRUE /\ e.reference = r /\ OrderIn(e) = [bid |-> b, price |-> p, remaining |-> n]
    BY DEF OrderIn
  <1>5. r \notin Refs(t)
    BY KnownIsLive DEF InsertOk
  <1> HIDE DEF e, x, u
  <1>6. Live(u) = Live(t) \cup {x} /\ x \notin Live(t)
    BY <1>2, <1>3, <1>4 DEF Live
  <1>7. u[x] = e /\ \A i \in Live(t) : u[i] = t[i]
    BY <1>2, <1>3 DEF Live
  <1>8. Refs(u) = Refs(t) \cup {r}
    BY <1>4, <1>6, <1>7 DEF Refs
  <1>9. Entry(u, r) = e
    <2>1. x \in Live(u)
      BY <1>6
    <2>2. QED
      BY <1>1, <1>4, <1>7, <2>1, EntryOfSlot
  <1>10. \A s \in Refs(t) : Entry(u, s) = Entry(t, s)
    <2> TAKE s \in Refs(t)
    <2>1. PICK i \in Live(t) : t[i].reference = s
      BY DEF Refs
    <2>2. i \in Live(u) /\ u[i] = t[i]
      BY <1>6, <1>7
    <2>3. Entry(u, s) = u[i]
      BY <1>1, <2>1, <2>2, EntryOfSlot
    <2>4. Entry(t, s) = t[i]
      BY <2>1, EntryOfSlot
    <2>5. QED
      BY <2>2, <2>3, <2>4
  <1>11. Content(u) = [s \in Refs(t) \cup {r} |->
              IF s = r THEN [bid |-> b, price |-> p, remaining |-> n] ELSE Content(t)[s]]
    BY <1>4, <1>5, <1>8, <1>9, <1>10 DEF Content
  <1>12. QED
    BY <1>11 DEF u

\* reduce takes the shares off the order in the map, the last with the order.
LEMMA ReduceContent ==
  ASSUME NEW t, TypedTable(t), UniqueTable(t), NEW r \in References, NEW n \in Shares,
         Known(t, r)
  PROVE  LET o == Content(t)[r]
             applied == IF n < o.remaining THEN n ELSE o.remaining
         IN  /\ r \in Refs(t)
             /\ Entry(t, r).bid = o.bid /\ Entry(t, r).price = o.price
             /\ Applied(t, r, n) = applied
             /\ Content(Reduce(t, r, n)) =
                  IF applied = o.remaining
                    THEN [s \in Refs(t) \ {r} |-> Content(t)[s]]
                    ELSE [Content(t) EXCEPT ![r].remaining = @ - applied]
  <1> DEFINE x == Min(Holding(t, r))
             f == t[x]
             a == Applied(t, r, n)
             e == IF f.remaining - a <= 0
                    THEN NoEntry ELSE [f EXCEPT !.remaining = f.remaining - a]
             u == Reduce(t, r, n)
  <1>1. x \in Slots /\ f.live /\ f.reference = r
    BY HoldingSlot
  <1>2. f \in FullEntry
    BY <1>1, LiveSlotFull
  <1>3. Entry(t, r) = f /\ r \in Refs(t)
    BY KnownIsLive DEF Entry
  <1>4. u = [t EXCEPT ![x] = e]
    BY <1>1 DEF Reduce, Entry, TypedTable
  <1>5. \A i \in Slots : u[i] = IF i = x THEN e ELSE t[i]
    BY <1>4 DEF TypedTable
  <1>6. a = IF n < f.remaining THEN n ELSE f.remaining
    BY DEF Applied, Entry
  <1>7. Content(t)[r] = OrderIn(f)
    BY <1>3 DEF Content
  <1>8. OrderIn(f).bid = f.bid /\ OrderIn(f).price = f.price /\ OrderIn(f).remaining = f.remaining
    BY DEF OrderIn
  <1>9. UniqueTable(u)
    BY ReduceKeeps
  <1>10. n \in Nat /\ f.remaining \in Nat /\ f.remaining > 0 /\ a \in Nat /\ a <= f.remaining
    <2>1. n \in Nat /\ f.remaining \in Nat \ {0}
      BY <1>2, BenchAssumption DEF FullEntry
    <2> HIDE DEF f, a
    <2>2. QED
      BY <1>6, <2>1
  <1>11. x \in Live(t) /\ \A i \in Live(t) : i # x => t[i].reference # r
    <2>1. x \in Live(t)
      BY <1>1 DEF Live
    <2>2. QED
      BY <1>1, <2>1 DEF UniqueTable, Live
  <1>12. ASSUME NEW s \in Refs(t), s # r
         PROVE  s \in Refs(u) /\ Entry(u, s) = Entry(t, s)
    <2>1. PICK i \in Live(t) : t[i].reference = s
      BY DEF Refs
    <2>2. i # x
      BY <1>1, <1>12, <2>1
    <2>3. i \in Slots /\ t[i].live
      BY DEF Live
    <2>4. u[i] = t[i]
      BY <1>5, <2>2, <2>3
    <2>5. i \in Live(u)
      BY <2>3, <2>4 DEF Live
    <2>6. Entry(u, s) = u[i] /\ s \in Refs(u)
      BY <1>9, <2>1, <2>4, <2>5, EntryOfSlot
    <2>7. Entry(t, s) = t[i]
      BY <2>1, EntryOfSlot
    <2>8. QED
      BY <2>4, <2>6, <2>7
  <1>13. CASE a = f.remaining
    <2>1. e = NoEntry
      BY <1>10, <1>13
    <2>2. ~NoEntry.live
      BY DEF NoEntry
    <2> HIDE DEF e, f, u, x, a
    <2>3. Live(u) = Live(t) \ {x}
      BY <1>1, <1>5, <2>1, <2>2 DEF Live
    <2>4. \A i \in Live(u) : u[i] = t[i]
      BY <1>5, <2>3 DEF Live
    <2>5. Refs(u) = Refs(t) \ {r}
      <3>1. \A s \in Refs(u) : s \in Refs(t) /\ s # r
        BY <1>11, <2>3, <2>4 DEF Refs
      <3>2. QED
        BY <1>12, <3>1
    <2>6. Content(u) = [s \in Refs(t) \ {r} |-> Content(t)[s]]
      BY <1>12, <2>5 DEF Content
    <2>7. QED
      BY <1>3, <1>6, <1>7, <1>8, <1>13, <2>6 DEF u, a
  <1>14. CASE a # f.remaining
    <2>1. e = [f EXCEPT !.remaining = f.remaining - a] /\ f.remaining - a \in Nat \ {0}
      BY <1>10, <1>14
    <2> HIDE DEF e, a
    <2>2. e.live = TRUE /\ e.reference = r /\ OrderIn(e) = [OrderIn(f) EXCEPT !.remaining = @ - a]
      <3>1. f.live = TRUE /\ f.reference = r
        BY <1>1, <1>2 DEF FullEntry
      <3>2. PICK g \in FullEntry : g = f
        BY <1>2
      <3>3. PICK k \in Nat : k = f.remaining - a
        BY <2>1
      <3>4. e = [g EXCEPT !.remaining = k]
        BY <2>1, <3>2, <3>3
      <3>5. e.live = g.live /\ e.reference = g.reference /\ e.bid = g.bid /\ e.price = g.price
            /\ e.remaining = k
        BY <3>4 DEF FullEntry
      <3>6. OrderIn(e) = [bid |-> g.bid, price |-> g.price, remaining |-> k]
        BY <3>5 DEF OrderIn
      <3>7. [OrderIn(g) EXCEPT !.remaining = @ - a]
              = [bid |-> g.bid, price |-> g.price, remaining |-> g.remaining - a]
        BY DEF OrderIn
      <3>8. QED
        BY <3>1, <3>2, <3>3, <3>5, <3>6, <3>7
    <2> HIDE DEF f, u, x
    <2>3. Live(u) = Live(t)
      BY <1>1, <1>5, <1>11, <2>2 DEF Live
    <2>4. Refs(u) = Refs(t) /\ Entry(u, r) = e
      <3>1. u[x] = e /\ \A i \in Live(t) : u[i].reference = t[i].reference
        BY <1>1, <1>5, <2>2 DEF Live, f
      <3>2. Refs(u) = Refs(t)
        BY <2>3, <3>1 DEF Refs
      <3>3. x \in Live(u)
        BY <1>11, <2>3
      <3>4. QED
        BY <1>9, <2>2, <3>1, <3>2, <3>3, EntryOfSlot
    <2>6. Content(u) = [Content(t) EXCEPT ![r].remaining = @ - a]
      <3>1. Content(u) = [s \in Refs(t) |-> IF s = r THEN OrderIn(e) ELSE OrderIn(Entry(t, s))]
        BY <1>12, <2>4 DEF Content
      <3>2. Content(t) = [s \in Refs(t) |-> OrderIn(Entry(t, s))]
        BY DEF Content
      <3>3. [Content(t) EXCEPT ![r].remaining = @ - a]
              = [s \in Refs(t) |-> IF s = r THEN [Content(t)[r] EXCEPT !.remaining = @ - a]
                                           ELSE Content(t)[s]]
        BY <3>2
      <3>4. QED
        BY <1>7, <2>2, <3>1, <3>2, <3>3
    <2>7. QED
      BY <1>3, <1>6, <1>7, <1>8, <1>14, <2>6 DEF u, a
  <1>15. QED
    BY <1>13, <1>14

\* The array of slots implements the map: insert refuses exactly a live
\* reference or a full table, whichever slots earlier orders left vacant, and
\* reduce answers with the one order of its reference, clamped to what
\* remains, and forgets it with its last share.
THEOREM TableImplementsMap == TableSpec => ImplementsOrderMap
  <1>1. TableBenchInit => Map!MapInit
    <2> SUFFICES ASSUME TableBenchInit PROVE Orders = <<>> /\ reply = Map!NoReply
      BY DEF Map!MapInit
    <2>1. LiveReferences = {}
      BY DEF TableBenchInit, TableInit, LiveReferences, NoEntry
    <2>2. Orders = <<>>
      BY <2>1 DEF Orders
    <2>3. QED
      BY <2>2 DEF TableBenchInit
  <1>2. TableInv /\ [TableNext]_tableVars => [Map!MapNext]_<<Orders, reply>>
    <2> SUFFICES ASSUME TypedTable(entries), UniqueTable(entries), [TableNext]_tableVars
                 PROVE  [Map!MapNext]_<<Orders, reply>>
      BY TableInvParts
    <2>1. CASE ResetCall
      <3>1. Orders' = <<>>
        <4>1. LiveReferences' = {}
          BY <2>1 DEF ResetCall, TableReset, LiveReferences, NoEntry
        <4>2. QED
          BY <4>1 DEF Orders
      <3>2. Map!Reset
        BY <2>1, <3>1 DEF ResetCall, Map!Reset
      <3>3. QED
        BY <3>2 DEF Map!MapNext
    <2>2. ASSUME NEW r \in References, NEW n \in Shares, ReduceCall(r, n)
          PROVE  Map!MapNext
      <3>1. CASE ~Known(entries, r)
        <4>1. Map!ReduceUnknown(r)
          BY <2>2, <3>1, KnownIsLive, OrdersIsContent DEF ReduceCall, Reduce, Map!ReduceUnknown
        <4>2. QED
          BY <4>1 DEF Map!MapNext
      <3>2. CASE Known(entries, r)
        <4>1. Map!Reduce(r, n)
          <5> DEFINE o == Orders[r]
                     applied == IF n < o.remaining THEN n ELSE o.remaining
          <5>1. Orders = Content(entries) /\ Orders' = Content(entries')
                /\ DOMAIN Orders = Refs(entries)
            BY OrdersIsContent
          <5>2. /\ r \in Refs(entries)
                /\ Entry(entries, r).bid = o.bid /\ Entry(entries, r).price = o.price
                /\ Applied(entries, r, n) = applied
                /\ Content(Reduce(entries, r, n)) =
                     IF applied = o.remaining
                       THEN [s \in Refs(entries) \ {r} |-> Content(entries)[s]]
                       ELSE [Content(entries) EXCEPT ![r].remaining = @ - applied]
            BY <3>2, <5>1, ReduceContent
          <5>3. reply' = <<"reduce", TRUE, o.bid, o.price, applied>>
            BY <2>2, <3>2, <5>2, Zenon DEF ReduceCall
          <5>4. Orders' = IF applied = o.remaining
                            THEN [s \in DOMAIN Orders \ {r} |-> Orders[s]]
                            ELSE [Orders EXCEPT ![r].remaining = @ - applied]
            BY <2>2, <5>1, <5>2 DEF ReduceCall
          <5>5. r \in DOMAIN Orders
            BY <5>1, <5>2
          <5>6. QED
            BY <5>3, <5>4, <5>5, Zenon DEF Map!Reduce
        <4>2. QED
          BY <4>1 DEF Map!MapNext
      <3>3. QED
        BY <3>1, <3>2
    <2>3. ASSUME NEW r \in References, NEW n \in Shares, NEW b \in BOOLEAN, NEW p \in Prices,
                 InsertCall(r, b, p, n)
          PROVE  Map!MapNext
      <3>1. InsertOk(entries, r)
              <=> r \notin Refs(entries) /\ Cardinality(Refs(entries)) < Capacity
        BY KnownIsLive, RoomIsCounted DEF InsertOk
      <3>2. Map!Insert(r, [bid |-> b, price |-> p, remaining |-> n])
        <4> DEFINE ok == r \notin DOMAIN Orders /\ Cardinality(DOMAIN Orders) < Capacity
                   order == [bid |-> b, price |-> p, remaining |-> n]
        <4>1. Orders = Content(entries) /\ Orders' = Content(entries')
              /\ DOMAIN Orders = Refs(entries)
          BY OrdersIsContent
        <4>2. InsertOk(entries, r) = ok
          BY <3>1, <4>1 DEF InsertOk, Known
        <4>3. reply' = <<"insert", ok>>
          BY <2>3, <4>2, Zenon DEF InsertCall
        <4>4. entries' = Insert(entries, r, b, p, n)
          BY <2>3 DEF InsertCall
        <4>5. ASSUME ok
              PROVE  Orders' = [s \in DOMAIN Orders \cup {r} |->
                                  IF s = r THEN order ELSE Orders[s]]
          <5>1. InsertOk(entries, r)
            BY <3>1, <4>1, <4>5
          <5>2. Content(entries') =
                  [s \in Refs(entries) \cup {r} |->
                     IF s = r THEN order ELSE Content(entries)[s]]
            BY <4>4, <5>1, InsertContent
          <5>3. QED
            BY <4>1, <5>2
        <4>6. ASSUME ~ok PROVE Orders' = Orders
          <5>1. ~InsertOk(entries, r)
            BY <3>1, <4>1, <4>6
          <5>2. entries' = entries
            BY <4>4, <5>1 DEF Insert
          <5>3. QED
            BY <4>1, <5>2
        <4>7. Orders' = IF ok THEN [s \in DOMAIN Orders \cup {r} |->
                                      IF s = r THEN order ELSE Orders[s]]
                              ELSE Orders
          BY <4>5, <4>6
        <4>8. Map!Cardinality(DOMAIN Orders) = Cardinality(DOMAIN Orders)
          BY Zenon DEF Map!Cardinality, Cardinality
        <4>9. QED
          BY <4>3, <4>7, <4>8, Zenon DEF Map!Insert
      <3>3. QED
        BY <3>2 DEF Map!MapNext
    <2>4. CASE UNCHANGED tableVars
      BY <2>4, OrdersIsContent DEF tableVars
    <2>5. QED
      BY <2>1, <2>2, <2>3, <2>4 DEF TableNext
  <1>3. QED
    BY <1>1, <1>2, TableInvariant, PTL DEF TableSpec, ImplementsOrderMap, Map!MapSpec

(***************************************************************************)
(* The quote RAM, for every depth, every set of words and a request        *)
(* pipeline of one stage, which is all the program instantiates. With more *)
(* stages the in-place copy of posedge answers early, so the property is   *)
(* false.                                                                  *)
(***************************************************************************)

\* Between the edges the memory lags the mirror by exactly the pair in the
\* pipeline, whose answers are due; between cycles it has caught up and the
\* answers are out.
BramInv ==
  /\ edge \in {"pos", "neg"}
  /\ edge = "pos" => mirror = memory /\ <<responseA, responseB>> = due[1]
  /\ edge = "neg" => /\ mirror = Written(Written(memory, pending[0].a), pending[0].b)
                     /\ due[1] = <<Answer(mirror, pending[0].a), Answer(mirror, pending[0].b)>>

\* A pipeline of one stage holds the pair issued at the last posedge.
LEMMA OneStageCopy ==
  ASSUME BramLatency = 1, NEW a, NEW b, BramPosedge(a, b)
  PROVE  pending'[0] = [a |-> a, b |-> b]
  <1> DEFINE pair == [a |-> a, b |-> b]
             f == [i \in Stage |-> pair]
             def(g) == g = [i \in Stage |-> IF i = 0 THEN pair ELSE g[i - 1]]
  <1>1. Stage = {0}
    BY DEF Stage
  <1>2. def(f)
    <2> HIDE DEF pair
    <2> QED
      BY <1>1
  <1>3. pending' = CHOOSE g : def(g)
    BY DEF BramPosedge
  <1>4. def(pending')
    <2> HIDE DEF def, f
    <2> QED
      BY <1>2, <1>3, Zenon
  <1>5. QED
    BY <1>1, <1>4

\* Every pair of requests is answered one cycle later, from the memory with
\* the pair's own writes and every earlier one in it.
THEOREM AnswersComeInTime ==
  ASSUME BramLatency = 1
  PROVE  BenchSpec => []AnswersAfterLatency
  <1>1. BenchInit => BramInv
    BY BramAssumption DEF BenchInit, BramInit, BramInv, NothingDue
  <1>2. BramInv /\ [BenchNext]_benchVars => BramInv'
    <2> SUFFICES ASSUME BramInv, [BenchNext]_benchVars PROVE BramInv'
      OBVIOUS
    <2>1. ASSUME NEW a \in Requests, NEW b \in Requests, PosedgeStep(a, b) PROVE BramInv'
      <3>1. edge = "pos" /\ edge' = "neg" /\ mirror = memory /\ memory' = memory
        BY <2>1 DEF BramInv, PosedgeStep, BramPosedge
      <3>2. pending'[0].a = a /\ pending'[0].b = b
        <4>1. BramPosedge(a, b)
          BY <2>1 DEF PosedgeStep
        <4>2. pending'[0] = [a |-> a, b |-> b]
          BY <4>1, OneStageCopy, Zenon
        <4>3. QED
          BY <4>2
      <3>3. mirror' = Written(Written(memory, a), b)
        BY <2>1, <3>1 DEF PosedgeStep
      <3>4. due'[1] = <<Answer(mirror', a), Answer(mirror', b)>>
        BY <2>1 DEF PosedgeStep
      <3>5. mirror' = Written(Written(memory', pending'[0].a), pending'[0].b)
        BY <3>1, <3>2, <3>3
      <3>6. due'[1] = <<Answer(mirror', pending'[0].a), Answer(mirror', pending'[0].b)>>
        BY <3>2, <3>4
      <3>7. QED
        BY <3>1, <3>5, <3>6, Zenon DEF BramInv
    <2>2. CASE NegedgeStep
      <3>1. edge' = "pos" /\ mirror' = mirror /\ due' = due
        BY <2>2 DEF NegedgeStep
      <3>2. memory' = mirror /\ responseA' = Answer(mirror, pending[0].a)
              /\ responseB' = Answer(mirror, pending[0].b)
              /\ due[1] = <<Answer(mirror, pending[0].a), Answer(mirror, pending[0].b)>>
        BY <2>2 DEF BramInv, NegedgeStep, BramNegedge
      <3>3. QED
        BY <3>1, <3>2 DEF BramInv
    <2>3. CASE ResetStep
      BY <2>3 DEF BramInv, ResetStep, BramReset, NothingDue
    <2>4. CASE UNCHANGED benchVars
      BY <2>4 DEF BramInv, benchVars, bramVars, Written, Answer, NoResponse, Address
    <2>5. QED
      BY <2>1, <2>2, <2>3, <2>4 DEF BenchNext
  <1>3. BramInv => AnswersAfterLatency
    BY DEF BramInv, AnswersAfterLatency
  <1>4. QED
    BY <1>1, <1>2, <1>3, PTL DEF BenchSpec

(***************************************************************************)
(* The engine, for every number of slots and every set of clients.  The    *)
(* calls made and the calls the step still has to make add up to the calls *)
(* owed, and what a step owes is what the two arrays hold.                 *)
(***************************************************************************)

\* A call of a step, and a list of them.
Request(e, c) == [edge |-> e, callback |-> c]
CallList == Seq([edge : Edges, callback : Callbacks])

\* The places of a list of calls at which a call stands.
Places(list, x) == {i \in 1 .. Len(list) : list[i] = x}

\* The slots of an array of callbacks that hold c, of the first n.
Taking(callbacks, n, c) == {i \in 1 .. n : callbacks[i] = c}

\* Moving a finite set of numbers along does not change its size.
LEMMA ShiftedSize ==
  ASSUME NEW S, S \subseteq Int, IsFiniteSet(S), NEW k \in Int, NEW T, T = {i + k : i \in S}
  PROVE  IsFiniteSet(T) /\ Cardinality(T) = Cardinality(S)
  <1> DEFINE f == [i \in S |-> i + k]
  <1>1. f \in Bijection(S, T)
    <2>1. f \in [S -> T]
      OBVIOUS
    <2>2. \A a, b \in S : f[a] = f[b] => a = b
      OBVIOUS
    <2>3. \A t \in T : \E s \in S : f[s] = t
      OBVIOUS
    <2> HIDE DEF f
    <2>4. f \in Injection(S, T)
      BY <2>1, <2>2 DEF Injection, IsInjective
    <2>5. f \in Surjection(S, T)
      BY <2>1, <2>3 DEF Surjection
    <2>6. QED
      BY <2>4, <2>5 DEF Bijection
  <1>2. ExistsBijection(S, T)
    BY <1>1 DEF ExistsBijection
  <1>3. QED
    BY <1>2, FS_Bijection

\* A set of places is finite.
LEMMA PlacesFinite ==
  ASSUME NEW list \in CallList, NEW x
  PROVE  /\ IsFiniteSet(Places(list, x)) /\ Cardinality(Places(list, x)) \in Nat
         /\ Places(list, x) \subseteq Int
  <1>1. Len(list) \in Nat
    BY DEF CallList
  <1>2. IsFiniteSet(1 .. Len(list))
    BY <1>1, FS_Interval
  <1>3. Places(list, x) \in SUBSET (1 .. Len(list))
    BY DEF Places
  <1>4. QED
    BY <1>2, <1>3, FS_Subset, FS_CardinalityType

\* Slots are counted by naturals.
LEMMA TakingFinite ==
  ASSUME NEW n \in Nat, NEW callbacks, NEW c
  PROVE  /\ IsFiniteSet(Taking(callbacks, n, c)) /\ Cardinality(Taking(callbacks, n, c)) \in Nat
         /\ Taking(callbacks, n, c) \subseteq Int
  <1>1. IsFiniteSet(1 .. n)
    BY FS_Interval
  <1>2. Taking(callbacks, n, c) \in SUBSET (1 .. n)
    BY DEF Taking
  <1>3. QED
    BY <1>1, <1>2, FS_Subset, FS_CardinalityType

\* Making the first call of the list leaves one place less for it.
LEMMA PlacesOfTail ==
  ASSUME NEW list \in CallList, list # <<>>, NEW x
  PROVE  /\ Tail(list) \in CallList
         /\ Cardinality(Places(list, x)) =
              Cardinality(Places(Tail(list), x)) + (IF Head(list) = x THEN 1 ELSE 0)
  <1>1. PICK n \in Nat : n = Len(list) /\ n > 0 /\ Len(Tail(list)) = n - 1
    BY HeadTailProperties DEF CallList
  <1>2. Tail(list) \in CallList /\ \A i \in 1 .. n - 1 : Tail(list)[i] = list[i + 1]
    BY <1>1, HeadTailProperties DEF CallList
  <1>3. Head(list) = list[1]
    BY DEF CallList
  <1> DEFINE S == Places(Tail(list), x)
             T == {i + 1 : i \in S}
  <1>4. IsFiniteSet(S) /\ S \subseteq Int /\ S \subseteq 1 .. n - 1
    BY <1>1, <1>2, PlacesFinite DEF Places
  <1>5. IsFiniteSet(T) /\ Cardinality(T) = Cardinality(S)
    <2>1. 1 \in Int /\ T = {i + 1 : i \in S}
      OBVIOUS
    <2> HIDE DEF S, T
    <2>2. QED
      BY <1>4, <2>1, ShiftedSize, Zenon
  <1>6. T = {i \in 2 .. n : list[i] = x}
    <2>1. ASSUME NEW i \in S PROVE i + 1 \in 2 .. n /\ list[i + 1] = x
      BY <1>1, <1>2, <1>4, <2>1 DEF Places
    <2>2. ASSUME NEW j \in 2 .. n, list[j] = x PROVE j - 1 \in S /\ j = (j - 1) + 1
      <3>1. j - 1 \in 1 .. n - 1 /\ j = (j - 1) + 1
        BY <1>1
      <3>2. Tail(list)[j - 1] = x
        BY <1>2, <2>2, <3>1
      <3>3. QED
        BY <1>1, <3>1, <3>2 DEF Places
    <2> HIDE DEF S
    <2>3. QED
      BY <2>1, <2>2
  <1>7. 1 \notin T
    BY <1>1, <1>6
  <1>8. Cardinality(S) \in Nat
    BY <1>2, PlacesFinite
  <1> HIDE DEF T
  <1>9. CASE Head(list) = x
    <2>1. Places(list, x) = T \cup {1}
      BY <1>1, <1>3, <1>6, <1>9 DEF Places
    <2>2. Cardinality(T \cup {1}) = Cardinality(T) + 1
      BY <1>5, <1>7, FS_AddElement
    <2>3. QED
      BY <1>2, <1>5, <1>8, <1>9, <2>1, <2>2
  <1>10. CASE Head(list) # x
    <2>1. Places(list, x) = T
      BY <1>1, <1>3, <1>6, <1>10 DEF Places
    <2>2. QED
      BY <1>2, <1>5, <1>8, <1>10, <2>1
  <1>11. QED
    BY <1>9, <1>10

\* An array of callbacks of which the first n slots are taken by clients.
Slotted(callbacks, n) ==
  n \in 0 .. MaxCallbacks /\ callbacks \in [1 .. MaxCallbacks -> Callbacks]

\* A list names each client of two arrays as often as the arrays hold it.
Lists(list, p, n, q, m) ==
  /\ list \in CallList
  /\ \A c \in Callbacks :
       /\ Cardinality(Places(list, Request("pos", c))) = Cardinality(Taking(p, n, c))
       /\ Cardinality(Places(list, Request("neg", c))) = Cardinality(Taking(q, m, c))

\* The list of calls of a step names each client of an array as often as the
\* array holds it.
LEMMA PlacesOfStep ==
  ASSUME NEW p, NEW n, Slotted(p, n), NEW q, NEW m, Slotted(q, m),
         NEW list, list = Calls("pos", p, n) \o Calls("neg", q, m)
  PROVE  Lists(list, p, n, q, m)
  <1>1. n \in Nat /\ m \in Nat
    BY EngineAssumption DEF Slotted
  <1>2. /\ Calls("pos", p, n) \in CallList /\ Len(Calls("pos", p, n)) = n
        /\ \A i \in 1 .. n : Calls("pos", p, n)[i] = Request("pos", p[i])
    <2>1. \A i \in 1 .. n : p[i] \in Callbacks
      BY <1>1, EngineAssumption DEF Slotted
    <2>2. \A i \in 1 .. n : [edge |-> "pos", callback |-> p[i]] \in [edge : Edges, callback : Callbacks]
      BY <2>1 DEF Edges
    <2>3. QED
      BY <1>1, <2>2 DEF Calls, CallList, Request
  <1>3. /\ Calls("neg", q, m) \in CallList /\ Len(Calls("neg", q, m)) = m
        /\ \A i \in 1 .. m : Calls("neg", q, m)[i] = Request("neg", q[i])
    <2>1. \A i \in 1 .. m : q[i] \in Callbacks
      BY <1>1, EngineAssumption DEF Slotted
    <2>2. \A i \in 1 .. m : [edge |-> "neg", callback |-> q[i]] \in [edge : Edges, callback : Callbacks]
      BY <2>1 DEF Edges
    <2>3. QED
      BY <1>1, <2>2 DEF Calls, CallList, Request
  <1>4. /\ list \in CallList /\ Len(list) = n + m
        /\ \A i \in 1 .. n + m :
             list[i] = IF i <= n THEN Calls("pos", p, n)[i] ELSE Calls("neg", q, m)[i - n]
    <2> DEFINE a == Calls("pos", p, n)
               b == Calls("neg", q, m)
               S == [edge : Edges, callback : Callbacks]
    <2>1. a \in Seq(S) /\ b \in Seq(S) /\ Len(a) = n /\ Len(b) = m /\ list = a \o b
      BY <1>2, <1>3 DEF CallList
    <2> HIDE DEF a, b, S
    <2>2. /\ a \o b \in Seq(S) /\ Len(a \o b) = Len(a) + Len(b)
          /\ \A i \in 1 .. Len(a) + Len(b) :
               (a \o b)[i] = IF i <= Len(a) THEN a[i] ELSE b[i - Len(a)]
      BY <2>1, ConcatProperties
    <2>3. /\ list \in Seq(S) /\ Len(list) = n + m
          /\ \A i \in 1 .. n + m : list[i] = IF i <= n THEN a[i] ELSE b[i - n]
      BY <2>1, <2>2
    <2>4. QED
      BY <2>3 DEF a, b, S, CallList
  <1>5. \A i \in 1 .. n + m :
          list[i] = IF i <= n THEN Request("pos", p[i]) ELSE Request("neg", q[i - n])
    <2> SUFFICES ASSUME NEW i \in 1 .. n + m
                 PROVE  list[i] = IF i <= n THEN Request("pos", p[i])
                                            ELSE Request("neg", q[i - n])
      OBVIOUS
    <2>1. CASE i <= n
      <3>1. i \in 1 .. n
        BY <1>1, <2>1
      <3>2. QED
        BY <1>2, <1>4, <2>1, <3>1
    <2>2. CASE ~(i <= n)
      <3>1. i - n \in 1 .. m
        BY <1>1, <2>2
      <3>2. QED
        BY <1>3, <1>4, <2>2, <3>1
    <2>3. QED
      BY <2>1, <2>2
  <1> SUFFICES ASSUME NEW c \in Callbacks
               PROVE  /\ Cardinality(Places(list, Request("pos", c))) = Cardinality(Taking(p, n, c))
                      /\ Cardinality(Places(list, Request("neg", c))) = Cardinality(Taking(q, m, c))
    BY <1>4 DEF Lists
  <1>6. Places(list, Request("pos", c)) = Taking(p, n, c)
    <2>1. ASSUME NEW i \in 1 .. n + m
          PROVE  list[i] = Request("pos", c) <=> i <= n /\ p[i] = c
      <3>1. "pos" # "neg"
        OBVIOUS
      <3>2. CASE i <= n
        <4>1. list[i] = Request("pos", p[i])
          BY <1>5, <3>2
        <4>2. Request("pos", p[i]) = Request("pos", c) <=> "pos" = "pos" /\ p[i] = c
          BY DEF Request
        <4>3. QED
          BY <3>1, <3>2, <4>1, <4>2
      <3>3. CASE ~(i <= n)
        <4>1. list[i] = Request("neg", q[i - n])
          BY <1>5, <3>3
        <4>2. Request("neg", q[i - n]) = Request("pos", c) <=> "neg" = "pos" /\ q[i - n] = c
          BY DEF Request
        <4>3. QED
          BY <3>1, <3>3, <4>1, <4>2
      <3>4. QED
        BY <3>2, <3>3
    <2>2. QED
      BY <1>1, <1>4, <2>1 DEF Places, Taking
  <1>7. Places(list, Request("neg", c)) = {i + n : i \in Taking(q, m, c)}
    <2>1. ASSUME NEW i \in 1 .. n + m
          PROVE  list[i] = Request("neg", c) <=> ~(i <= n) /\ q[i - n] = c
      <3>1. "pos" # "neg"
        OBVIOUS
      <3>2. CASE i <= n
        <4>1. list[i] = Request("pos", p[i])
          BY <1>5, <3>2
        <4>2. Request("pos", p[i]) = Request("neg", c) <=> "pos" = "neg" /\ p[i] = c
          BY DEF Request
        <4>3. QED
          BY <3>1, <3>2, <4>1, <4>2
      <3>3. CASE ~(i <= n)
        <4>1. list[i] = Request("neg", q[i - n])
          BY <1>5, <3>3
        <4>2. Request("neg", q[i - n]) = Request("neg", c) <=> "neg" = "neg" /\ q[i - n] = c
          BY DEF Request
        <4>3. QED
          BY <3>1, <3>3, <4>1, <4>2
      <3>4. QED
        BY <3>2, <3>3
    <2>2. ASSUME NEW i \in Taking(q, m, c) PROVE i + n \in Places(list, Request("neg", c))
      <3>1. i \in 1 .. m /\ q[i] = c /\ i + n \in 1 .. n + m /\ ~(i + n <= n) /\ (i + n) - n = i
        BY <1>1, <2>2 DEF Taking
      <3>2. QED
        BY <1>4, <2>1, <3>1 DEF Places
    <2>3. ASSUME NEW j \in Places(list, Request("neg", c))
          PROVE  j - n \in Taking(q, m, c) /\ j = (j - n) + n
      <3>1. j \in 1 .. n + m /\ list[j] = Request("neg", c)
        BY <1>4, <2>3 DEF Places
      <3>2. ~(j <= n) /\ q[j - n] = c
        BY <2>1, <3>1
      <3>3. j - n \in 1 .. m /\ j = (j - n) + n
        BY <1>1, <3>1, <3>2
      <3>4. QED
        BY <3>2, <3>3 DEF Taking
    <2>4. QED
      BY <2>2, <2>3
  <1>8. Cardinality(Places(list, Request("neg", c))) = Cardinality(Taking(q, m, c))
    <2>1. IsFiniteSet(Taking(q, m, c)) /\ Taking(q, m, c) \subseteq Int /\ n \in Int
      BY <1>1, TakingFinite
    <2>2. QED
      BY <1>7, <2>1, ShiftedSize
  <1>9. QED
    BY <1>6, <1>8

\* One slot more than before is taken by d, and none by anyone else.
OneMore(r, k, p, n, d) ==
  \A c : Cardinality(Taking(r, k, c)) =
           Cardinality(Taking(p, n, c)) + (IF c = d THEN 1 ELSE 0)

\* A registration takes the next slot, and with it one slot more is the
\* client's.
LEMMA TakingMore ==
  ASSUME NEW p, NEW n, Slotted(p, n), n < MaxCallbacks, NEW d \in Callbacks,
         NEW r, r = [p EXCEPT ![n + 1] = d]
  PROVE  Slotted(r, n + 1) /\ OneMore(r, n + 1, p, n, d)
  <1>1. n \in Nat /\ n + 1 \in 1 .. MaxCallbacks /\ MaxCallbacks \in Nat
    BY EngineAssumption DEF Slotted
  <1>2. Slotted(r, n + 1) /\ r[n + 1] = d /\ \A i \in 1 .. n : r[i] = p[i]
    BY <1>1 DEF Slotted
  <1> SUFFICES ASSUME NEW c
               PROVE  Cardinality(Taking(r, n + 1, c)) =
                        Cardinality(Taking(p, n, c)) + (IF c = d THEN 1 ELSE 0)
    BY <1>2 DEF OneMore
  <1>3. IsFiniteSet(Taking(p, n, c)) /\ Cardinality(Taking(p, n, c)) \in Nat
    BY <1>1, TakingFinite
  <1>4. n + 1 \notin Taking(p, n, c)
    BY <1>1 DEF Taking
  <1>5. CASE c = d
    <2>1. Taking(r, n + 1, c) = Taking(p, n, c) \cup {n + 1}
      BY <1>1, <1>2, <1>5 DEF Taking
    <2>2. QED
      BY <1>2, <1>3, <1>4, <1>5, <2>1, FS_AddElement
  <1>6. CASE c # d
    <2>1. Taking(r, n + 1, c) = Taking(p, n, c)
      BY <1>1, <1>2, <1>6 DEF Taking
    <2>2. QED
      BY <1>2, <1>3, <1>6, <2>1
  <1>7. QED
    BY <1>5, <1>6

\* A number of calls for each edge and client.
Tally == [Edges -> [Callbacks -> Nat]]

\* A registration that was accepted is a slot taken.
AcceptedAre(tally, p, n, q, m) ==
  /\ tally \in Tally
  /\ \A c \in Callbacks : /\ tally["pos"][c] = Cardinality(Taking(p, n, c))
                          /\ tally["neg"][c] = Cardinality(Taking(q, m, c))

\* The calls made and the calls still on the list are the calls owed.
Accounts(made, list, debt) ==
  /\ made \in Tally /\ debt \in Tally /\ list \in CallList
  /\ \A e \in Edges, c \in Callbacks :
       made[e][c] + Cardinality(Places(list, Request(e, c))) = debt[e][c]

\* The inductive invariant.
EngineInv ==
  /\ Slotted(posedge, count) /\ Slotted(negedge, negedgeCount)
  /\ AcceptedAre(accepted, posedge, count, negedge, negedgeCount)
  /\ Accounts(calls, todo, owed)
  /\ stepping \in BOOLEAN /\ (~stepping => todo = <<>>)

\* An empty list has no places.
LEMMA NoPlaces == \A x : Cardinality(Places(<<>>, x)) = 0
  <1>1. \A x : Places(<<>>, x) = {}
    BY DEF Places
  <1>2. QED
    BY <1>1, FS_EmptySet

\* With nothing left on the list all that is owed has been called.
LEMMA Settled ==
  ASSUME NEW made, NEW list, NEW debt, Accounts(made, list, debt), list = <<>>
  PROVE  made = debt
  <1>1. ASSUME NEW e \in Edges, NEW c \in Callbacks PROVE made[e][c] = debt[e][c]
    <2>1. Cardinality(Places(list, Request(e, c))) = 0
      BY NoPlaces
    <2>2. made[e][c] \in Nat /\ made[e][c] + 0 = debt[e][c]
      BY <2>1 DEF Accounts, Tally
    <2>3. QED
      BY <2>2
  <1>2. QED
    BY <1>1 DEF Accounts, Tally

\* No callback registered, none called.
LEMMA EngineStarts == ClientsInit => EngineInv
  <1> SUFFICES ASSUME ClientsInit PROVE EngineInv
    OBVIOUS
  <1>1. Slotted(posedge, count) /\ Slotted(negedge, negedgeCount)
    BY EngineAssumption DEF ClientsInit, EngineInit, Slotted, Callbacks
  <1>2. NoCalls \in Tally /\ \A e \in Edges, c \in Callbacks : NoCalls[e][c] = 0
    BY DEF NoCalls, Tally
  <1>3. AcceptedAre(NoCalls, posedge, count, negedge, negedgeCount)
    <2>1. \A c : Taking(posedge, count, c) = {} /\ Taking(negedge, negedgeCount, c) = {}
      BY DEF ClientsInit, EngineInit, Taking
    <2>2. QED
      BY <1>2, <2>1, FS_EmptySet DEF AcceptedAre, Edges
  <1>4. Accounts(NoCalls, <<>>, NoCalls)
    <2>1. <<>> \in CallList
      BY DEF CallList
    <2>2. QED
      BY <1>2, <2>1, NoPlaces DEF Accounts
  <1>5. QED
    BY <1>1, <1>3, <1>4 DEF EngineInv, ClientsInit, EngineInit

\* A tally with one more for d at the edge f.
Counted(new, tally, f, d) ==
  /\ new \in Tally
  /\ \A e \in Edges, c \in Callbacks :
       new[e][c] = IF e = f /\ c = d THEN tally[e][c] + 1 ELSE tally[e][c]

\* What the assignment to a tally does.
LEMMA CountOne ==
  ASSUME NEW tally \in Tally, NEW f \in Edges, NEW d \in Callbacks,
         NEW new, new = [tally EXCEPT ![f][d] = @ + 1]
  PROVE  Counted(new, tally, f, d)
  BY DEF Tally, Counted

\* One registration more, on the posedge or the negedge.
LEMMA AcceptOne ==
  ASSUME NEW tally, NEW p, NEW n, Slotted(p, n), NEW q, NEW m, Slotted(q, m),
         AcceptedAre(tally, p, n, q, m), NEW d \in Callbacks
  PROVE  /\ n < MaxCallbacks =>
              AcceptedAre([tally EXCEPT !["pos"][d] = @ + 1],
                          [p EXCEPT ![n + 1] = d], n + 1, q, m)
         /\ m < MaxCallbacks =>
              AcceptedAre([tally EXCEPT !["neg"][d] = @ + 1],
                          p, n, [q EXCEPT ![m + 1] = d], m + 1)
  <1>1. tally \in Tally /\ "pos" \in Edges /\ "neg" \in Edges /\ "pos" # "neg"
    BY DEF AcceptedAre, Edges
  <1>3. ASSUME n < MaxCallbacks, NEW new, new = [tally EXCEPT !["pos"][d] = @ + 1],
               NEW r, r = [p EXCEPT ![n + 1] = d]
        PROVE  AcceptedAre(new, r, n + 1, q, m)
    <2>1. Counted(new, tally, "pos", d)
      BY <1>1, <1>3, CountOne, Zenon
    <2>0. OneMore(r, n + 1, p, n, d)
      BY <1>3, TakingMore, Zenon
    <2>2. ASSUME NEW c \in Callbacks
          PROVE  /\ new["pos"][c] = Cardinality(Taking(r, n + 1, c))
                 /\ new["neg"][c] = Cardinality(Taking(q, m, c))
      <3>1. Cardinality(Taking(r, n + 1, c)) =
              Cardinality(Taking(p, n, c)) + (IF c = d THEN 1 ELSE 0)
        BY <2>0 DEF OneMore
      <3>2. PICK k \in Nat : k = tally["pos"][c] /\ k = Cardinality(Taking(p, n, c))
        BY <1>1 DEF AcceptedAre, Tally
      <3>3. new["pos"][c] = IF c = d THEN k + 1 ELSE k
        BY <1>1, <2>1, <3>2 DEF Counted
      <3>4. new["neg"][c] = Cardinality(Taking(q, m, c))
        BY <1>1, <2>1 DEF AcceptedAre, Counted
      <3>5. QED
        BY <3>1, <3>2, <3>3, <3>4
    <2>3. QED
      BY <2>1, <2>2 DEF AcceptedAre, Counted
  <1>4. ASSUME m < MaxCallbacks, NEW new, new = [tally EXCEPT !["neg"][d] = @ + 1],
               NEW r, r = [q EXCEPT ![m + 1] = d]
        PROVE  AcceptedAre(new, p, n, r, m + 1)
    <2>1. Counted(new, tally, "neg", d)
      BY <1>1, <1>4, CountOne, Zenon
    <2>0. OneMore(r, m + 1, q, m, d)
      BY <1>4, TakingMore, Zenon
    <2>2. ASSUME NEW c \in Callbacks
          PROVE  /\ new["neg"][c] = Cardinality(Taking(r, m + 1, c))
                 /\ new["pos"][c] = Cardinality(Taking(p, n, c))
      <3>1. Cardinality(Taking(r, m + 1, c)) =
              Cardinality(Taking(q, m, c)) + (IF c = d THEN 1 ELSE 0)
        BY <2>0 DEF OneMore
      <3>2. PICK k \in Nat : k = tally["neg"][c] /\ k = Cardinality(Taking(q, m, c))
        BY <1>1 DEF AcceptedAre, Tally
      <3>3. new["neg"][c] = IF c = d THEN k + 1 ELSE k
        BY <1>1, <2>1, <3>2 DEF Counted
      <3>4. new["pos"][c] = Cardinality(Taking(p, n, c))
        BY <1>1, <2>1 DEF AcceptedAre, Counted
      <3>5. QED
        BY <3>1, <3>2, <3>3, <3>4
    <2>3. QED
      BY <2>1, <2>2 DEF AcceptedAre, Counted
  <1>5. QED
    BY <1>3, <1>4, Zenon

\* A registration that is accepted takes one slot, a refused one none.
LEMMA RegisterKeeps ==
  ASSUME EngineInv, NEW d \in Callbacks, Register(d)
  PROVE  EngineInv'
  <1>1. stepping' = stepping /\ todo' = todo /\ calls' = calls /\ owed' = owed
    BY DEF Register, on_posedge, on_negedge, stepVars
  <1>2. CASE on_posedge(d) /\ Record("pos", d, PosedgeOk(d))
    <2>1. negedge' = negedge /\ negedgeCount' = negedgeCount
      BY <1>2 DEF on_posedge
    <2>2. CASE ~PosedgeOk(d)
      <3>1. posedge' = posedge /\ count' = count /\ accepted' = accepted
        BY <1>2, <2>2 DEF on_posedge, Record
      <3>2. QED
        BY <1>1, <2>1, <3>1 DEF EngineInv
    <2>3. CASE PosedgeOk(d)
      <3>1. /\ posedge' = [posedge EXCEPT ![count + 1] = d] /\ count' = count + 1
            /\ count < MaxCallbacks /\ accepted' = [accepted EXCEPT !["pos"][d] = @ + 1]
        BY <1>2, <2>3 DEF on_posedge, Record, PosedgeOk
      <3>2. Slotted(posedge', count')
        BY <3>1, TakingMore DEF EngineInv
      <3>3. AcceptedAre(accepted', posedge', count', negedge', negedgeCount')
        <4>1. AcceptedAre([accepted EXCEPT !["pos"][d] = @ + 1],
                          [posedge EXCEPT ![count + 1] = d], count + 1, negedge, negedgeCount)
          BY <3>1, AcceptOne DEF EngineInv
        <4>2. QED
          BY <2>1, <3>1, <4>1
      <3>4. QED
        BY <1>1, <2>1, <3>2, <3>3 DEF EngineInv
    <2>4. QED
      BY <2>2, <2>3
  <1>3. CASE on_negedge(d) /\ Record("neg", d, NegedgeOk(d))
    <2>1. posedge' = posedge /\ count' = count
      BY <1>3 DEF on_negedge
    <2>2. CASE ~NegedgeOk(d)
      <3>1. negedge' = negedge /\ negedgeCount' = negedgeCount /\ accepted' = accepted
        BY <1>3, <2>2 DEF on_negedge, Record
      <3>2. QED
        BY <1>1, <2>1, <3>1 DEF EngineInv
    <2>3. CASE NegedgeOk(d)
      <3>1. /\ negedge' = [negedge EXCEPT ![negedgeCount + 1] = d]
            /\ negedgeCount' = negedgeCount + 1 /\ negedgeCount < MaxCallbacks
            /\ accepted' = [accepted EXCEPT !["neg"][d] = @ + 1]
        BY <1>3, <2>3 DEF on_negedge, Record, NegedgeOk
      <3>2. Slotted(negedge', negedgeCount')
        BY <3>1, TakingMore DEF EngineInv
      <3>3. AcceptedAre(accepted', posedge', count', negedge', negedgeCount')
        <4>1. AcceptedAre([accepted EXCEPT !["neg"][d] = @ + 1], posedge, count,
                          [negedge EXCEPT ![negedgeCount + 1] = d], negedgeCount + 1)
          BY <3>1, AcceptOne DEF EngineInv
        <4>2. QED
          BY <2>1, <3>1, <4>1
      <3>4. QED
        BY <1>1, <2>1, <3>2, <3>3 DEF EngineInv
    <2>4. QED
      BY <2>2, <2>3
  <1>4. QED
    BY <1>2, <1>3 DEF Register

\* A step begins with every registered callback on its list, and owes as many.
LEMMA StepKeeps ==
  ASSUME EngineInv, Step
  PROVE  EngineInv'
  <1>1. /\ ~stepping /\ todo = <<>> /\ stepping' = TRUE
        /\ todo' = Calls("pos", posedge, count) \o Calls("neg", negedge, negedgeCount)
        /\ posedge' = posedge /\ count' = count /\ negedge' = negedge
        /\ negedgeCount' = negedgeCount /\ accepted' = accepted /\ calls' = calls
    BY DEF Step, BeginStep, callbackVars, EngineInv
  <1>2. PICK list : list = Calls("pos", posedge, count) \o Calls("neg", negedge, negedgeCount)
    OBVIOUS
  <1>3. Lists(list, posedge, count, negedge, negedgeCount)
    BY <1>2, PlacesOfStep, Zenon DEF EngineInv
  <1>4. PICK new : new = owed'
    OBVIOUS
  <1>5. /\ new \in Tally /\ accepted \in Tally /\ owed \in Tally
        /\ \A e \in Edges, c \in Callbacks : new[e][c] = owed[e][c] + accepted[e][c]
    BY <1>4 DEF Step, EngineInv, AcceptedAre, Accounts, Tally
  <1>6. calls = owed
    BY <1>1, Settled DEF EngineInv
  <1>7. Accounts(calls, list, new)
    <2>1. ASSUME NEW e \in Edges, NEW c \in Callbacks
          PROVE  calls[e][c] + Cardinality(Places(list, Request(e, c))) = new[e][c]
      <3>1. Cardinality(Places(list, Request(e, c))) = accepted[e][c]
        <4>1. CASE e = "pos"
          BY <1>3, <4>1 DEF EngineInv, AcceptedAre, Lists
        <4>2. CASE e = "neg"
          BY <1>3, <4>2 DEF EngineInv, AcceptedAre, Lists
        <4>3. QED
          BY <4>1, <4>2 DEF Edges
      <3>2. QED
        BY <1>5, <1>6, <3>1
    <2>2. list \in CallList
      BY <1>3 DEF Lists
    <2>3. QED
      BY <1>5, <1>6, <2>1, <2>2 DEF Accounts
  <1>8. QED
    BY <1>1, <1>2, <1>4, <1>7 DEF EngineInv

\* A call that is made leaves the list and is counted.
LEMMA CallKeeps ==
  ASSUME EngineInv, NEW f \in Edges, NEW d \in Callbacks, RunCallback(f, d)
  PROVE  EngineInv'
  <1>1. /\ todo # <<>> /\ Head(todo) = Request(f, d) /\ todo' = Tail(todo)
        /\ calls' = [calls EXCEPT ![f][d] = @ + 1]
        /\ posedge' = posedge /\ count' = count /\ negedge' = negedge
        /\ negedgeCount' = negedgeCount /\ accepted' = accepted /\ owed' = owed
        /\ stepping' = stepping
    BY DEF RunCallback, Call, callbackVars, Request
  <1>2. todo \in CallList /\ calls \in Tally /\ owed \in Tally
    BY DEF EngineInv, Accounts
  <1>3. \A x : /\ Tail(todo) \in CallList
               /\ Cardinality(Places(todo, x)) =
                    Cardinality(Places(Tail(todo), x)) + (IF Head(todo) = x THEN 1 ELSE 0)
    BY <1>1, <1>2, PlacesOfTail
  <1>4. PICK new : new = [calls EXCEPT ![f][d] = @ + 1]
    OBVIOUS
  <1>5. /\ new \in Tally
        /\ \A e \in Edges, c \in Callbacks :
             new[e][c] = calls[e][c] + (IF e = f /\ c = d THEN 1 ELSE 0)
    BY <1>2, <1>4 DEF Tally
  <1>6. Accounts(new, Tail(todo), owed)
    <2>1. ASSUME NEW e \in Edges, NEW c \in Callbacks
          PROVE  new[e][c] + Cardinality(Places(Tail(todo), Request(e, c))) = owed[e][c]
      <3>1. Request(f, d) = Request(e, c) <=> e = f /\ c = d
        BY DEF Request
      <3>2. PICK k \in Nat : k = calls[e][c]
        BY <1>2 DEF Tally
      <3>3. PICK j \in Nat : j = Cardinality(Places(Tail(todo), Request(e, c)))
        BY <1>3, PlacesFinite
      <3>4. owed[e][c] = k + (j + (IF e = f /\ c = d THEN 1 ELSE 0))
        <4>1. owed[e][c] = k + Cardinality(Places(todo, Request(e, c)))
          BY <3>2 DEF EngineInv, Accounts
        <4>2. QED
          BY <1>1, <1>3, <3>1, <3>3, <4>1
      <3>5. new[e][c] = k + (IF e = f /\ c = d THEN 1 ELSE 0)
        BY <1>5, <3>2
      <3>6. QED
        BY <3>3, <3>4, <3>5
    <2>2. QED
      BY <1>2, <1>3, <1>5, <2>1 DEF Accounts
  <1>7. QED
    BY <1>1, <1>4, <1>6 DEF EngineInv

\* Every accepted registration runs exactly once in every later step, for any
\* number of slots, clients and steps.
THEOREM EngineRunsAccepted == ClientsSpec => []AcceptedCallbacksRun
  <1>1. ClientsInit => EngineInv
    BY EngineStarts
  <1>2. EngineInv /\ [ClientsNext]_clientVars => EngineInv'
    <2> SUFFICES ASSUME EngineInv, [ClientsNext]_clientVars PROVE EngineInv'
      OBVIOUS
    <2>1. ASSUME NEW c \in Callbacks, Register(c) PROVE EngineInv'
      BY <2>1, RegisterKeeps
    <2>2. ASSUME NEW e \in Edges, NEW c \in Callbacks, RunCallback(e, c) PROVE EngineInv'
      BY <2>2, CallKeeps
    <2>3. CASE Step
      BY <2>3, StepKeeps
    <2>4. CASE StepDone
      BY <2>4 DEF StepDone, EndStep, callbackVars, EngineInv
    <2>5. CASE ResetCycle
      BY <2>5 DEF ResetCycle, reset, callbackVars, EngineInv
    <2>6. CASE UNCHANGED clientVars
      BY <2>6 DEF clientVars, engineVars, callbackVars, stepVars, EngineInv
    <2>7. QED
      BY <2>1, <2>2, <2>3, <2>4, <2>5, <2>6 DEF ClientsNext
  <1>3. EngineInv => AcceptedCallbacksRun
    BY Settled DEF EngineInv, AcceptedCallbacksRun
  <1>4. QED
    BY <1>1, <1>2, <1>3, PTL DEF ClientsSpec

(***************************************************************************)
(* The demo driver's engine gives the pipeline the clock it is built on.   *)
(***************************************************************************)
RisingCall == [edge |-> "pos", callback |-> "pipeline"]
FallingCall == [edge |-> "neg", callback |-> "pipeline"]
LoggerCall == [edge |-> "neg", callback |-> "logger"]

\* What main has registered when it stands somewhere.
Registered ==
  /\ main # "failed" => count \in Nat /\ negedgeCount \in Nat
  /\ main = "register pipeline posedge" => count = 0 /\ negedgeCount = 0
  /\ main = "register pipeline negedge" => count = 1 /\ negedgeCount = 0
  /\ main = "register logger" => count = 1 /\ negedgeCount = 1
  /\ main \in {"run", "ended"} => count = 1 /\ negedgeCount = 2
  /\ main \in {"register pipeline negedge", "register logger", "run", "ended"} =>
       posedge[1] = "pipeline"
  /\ main \in {"register logger", "run", "ended"} => negedge[1] = "pipeline"
  /\ main \in {"run", "ended"} => negedge[2] = "logger"

\* How far a step of the engine is.
RigInv ==
  /\ Registered
  /\ DOMAIN posedge = 1 .. MaxCallbacks /\ DOMAIN negedge = 1 .. MaxCallbacks
  /\ cycle \in Nat
  /\ ~stepping => todo = <<>>
  /\ stepping => /\ main = "run"
                 /\ todo \in {<<RisingCall, FallingCall, LoggerCall>>,
                              <<FallingCall, LoggerCall>>, <<LoggerCall>>, <<>>}

\* Whether the pipeline's call for an edge is among the calls left.
Waits(left, e) == \E k \in DOMAIN left : left[k] = [edge |-> e, callback |-> "pipeline"]

\* The edge the pipeline waits for, in each of these positions.
LEMMA WaitsFor ==
  ASSUME NEW t
  PROVE  /\ t = <<RisingCall, FallingCall, LoggerCall>> => Waits(t, "pos") /\ Waits(t, "neg")
         /\ t = <<FallingCall, LoggerCall>> => ~Waits(t, "pos") /\ Waits(t, "neg")
         /\ t = <<LoggerCall>> => ~Waits(t, "pos") /\ ~Waits(t, "neg")
         /\ t = <<>> => ~Waits(t, "pos") /\ ~Waits(t, "neg")
  <1>1. /\ Waits(t, "pos") <=> \E k \in DOMAIN t : t[k] = RisingCall
        /\ Waits(t, "neg") <=> \E k \in DOMAIN t : t[k] = FallingCall
    BY DEF Waits, RisingCall, FallingCall
  <1>2. RisingCall # FallingCall /\ RisingCall # LoggerCall /\ FallingCall # LoggerCall
    BY DEF RisingCall, FallingCall, LoggerCall
  <1>3. ASSUME t = <<RisingCall, FallingCall, LoggerCall>>
        PROVE  Waits(t, "pos") /\ Waits(t, "neg")
    BY <1>1, <1>3
  <1>4. ASSUME t = <<FallingCall, LoggerCall>> PROVE ~Waits(t, "pos") /\ Waits(t, "neg")
    BY <1>1, <1>2, <1>4
  <1>5. ASSUME t = <<LoggerCall>> PROVE ~Waits(t, "pos") /\ ~Waits(t, "neg")
    BY <1>1, <1>2, <1>5
  <1>6. ASSUME t = <<>> PROVE ~Waits(t, "pos") /\ ~Waits(t, "neg")
    BY <1>1, <1>6
  <1>7. QED
    BY <1>3, <1>4, <1>5, <1>6

\* The same, said of the calls a step has left before and after it goes on.
LEMMA WaitingFor ==
  /\ todo = <<RisingCall, FallingCall, LoggerCall>> => Waiting("pos") /\ Waiting("neg")
  /\ todo = <<FallingCall, LoggerCall>> => ~Waiting("pos") /\ Waiting("neg")
  /\ todo = <<LoggerCall>> => ~Waiting("pos") /\ ~Waiting("neg")
  /\ todo = <<>> => ~Waiting("pos") /\ ~Waiting("neg")
  <1>1. (Waiting("pos") <=> Waits(todo, "pos")) /\ (Waiting("neg") <=> Waits(todo, "neg"))
    BY DEF Waiting, Waits, Range
  <1>2. QED
    BY <1>1, WaitsFor

\* The same in the state after a step.
LEMMA WaitingAfter ==
  /\ todo' = <<RisingCall, FallingCall, LoggerCall>> => Waiting("pos")' /\ Waiting("neg")'
  /\ todo' = <<FallingCall, LoggerCall>> => ~Waiting("pos")' /\ Waiting("neg")'
  /\ todo' = <<LoggerCall>> => ~Waiting("pos")' /\ ~Waiting("neg")'
  /\ todo' = <<>> => ~Waiting("pos")' /\ ~Waiting("neg")'
  <1>1. PICK t : t = todo'
    OBVIOUS
  <1>2. (Waiting("pos")' <=> Waits(t, "pos")) /\ (Waiting("neg")' <=> Waits(t, "neg"))
    BY <1>1 DEF Waiting, Waits, Range
  <1>3. QED
    BY <1>1, <1>2, WaitsFor

\* A tick of that clock, or none.
SeenTick(c, e, d, f) ==
  \/ c = d /\ e = f
  \/ e = "pos" /\ f = "neg" /\ d = c
  \/ e = "neg" /\ f = "pos" /\ d = c + 1

SeenCycle == IF stepping /\ ~Waiting("neg") THEN cycle + 1 ELSE cycle
SeenEdge == IF stepping /\ ~Waiting("pos") /\ Waiting("neg") THEN "neg" ELSE "pos"

\* Between two steps the pipeline waits for the posedge of the cycle.
LEMMA SeenBetween ==
  ASSUME RigInv, RigInv', UNCHANGED <<cycle, stepping, todo>>
  PROVE  SeenTick(SeenCycle, SeenEdge, SeenCycle', SeenEdge')
  <1>1. SeenCycle' = SeenCycle /\ SeenEdge' = SeenEdge
    BY DEF SeenCycle, SeenEdge, Waiting
  <1>2. QED
    BY <1>1 DEF SeenTick

\* The registrations, and the steps of the loop.
LEMMA RigRegisters ==
  ASSUME RigInv, RegisterPipelinePosedge \/ RegisterNegedges \/ LoopEnd
  PROVE  RigInv' /\ UNCHANGED <<cycle, stepping, todo>>
  <1>0. MaxCallbacks \in Nat /\ 1 \in 1 .. MaxCallbacks
    BY EngineAssumption
  <1>1. ~stepping /\ todo = <<>> /\ UNCHANGED <<cycle, stepping, todo>>
    BY DEF RigInv, RegisterPipelinePosedge, RegisterNegedges, LoopEnd, on_posedge, on_negedge,
           stepVars, engineVars
  <1>2. CASE RegisterPipelinePosedge
    <2>1. /\ count = 0 /\ negedgeCount = 0 /\ UNCHANGED <<negedge, negedgeCount>>
          /\ DOMAIN posedge = 1 .. MaxCallbacks /\ DOMAIN negedge = 1 .. MaxCallbacks
      BY <1>2 DEF RegisterPipelinePosedge, on_posedge, Then, PosedgeOk, RigInv, Registered
    <2>2. CASE PosedgeOk("pipeline")
      <3>1. /\ main' = "register pipeline negedge" /\ count' = count + 1
            /\ posedge' = [posedge EXCEPT ![count + 1] = "pipeline"]
        BY <1>2, <2>2 DEF RegisterPipelinePosedge, on_posedge, Then, PosedgeOk
      <3>2. count + 1 = 1
        BY <2>1
      <3>3. main' = "register pipeline negedge"
        BY <3>1
      <3>4. count' = 1 /\ posedge'[1] = "pipeline" /\ DOMAIN posedge' = 1 .. MaxCallbacks
        BY <1>0, <2>1, <3>1, <3>2
      <3>5. Registered'
        BY <2>1, <3>3, <3>4 DEF Registered
      <3>6. QED
        BY <1>1, <2>1, <3>4, <3>5 DEF RigInv
    <2>3. CASE ~PosedgeOk("pipeline")
      <3>1. main' = "failed" /\ posedge' = posedge
        BY <1>2, <2>3 DEF RegisterPipelinePosedge, on_posedge, Then, PosedgeOk
      <3>2. QED
        BY <1>0, <1>1, <2>1, <3>1 DEF RigInv, Registered
    <2>4. QED
      BY <2>2, <2>3
  <1>3. CASE RegisterNegedges
    <2>1. /\ UNCHANGED <<posedge, count>> /\ DOMAIN negedge = 1 .. MaxCallbacks
          /\ DOMAIN posedge = 1 .. MaxCallbacks
      BY <1>3 DEF RegisterNegedges, on_negedge, Then, NegedgeOk, RigInv
    <2>2. CASE main' = "failed"
      <3>1. DOMAIN negedge' = 1 .. MaxCallbacks
        BY <1>3, <2>1 DEF RegisterNegedges, on_negedge, Then, NegedgeOk
      <3>2. QED
        BY <1>1, <2>1, <2>2, <3>1 DEF RigInv, Registered
    <2>3. CASE main = "register pipeline negedge" /\ main' # "failed"
      <3>1. /\ main' = "register logger" /\ NegedgeOk("pipeline") /\ on_negedge("pipeline")
        BY <1>3, <2>3 DEF RegisterNegedges, Then, NegedgeOk
      <3>2. count = 1 /\ negedgeCount = 0 /\ posedge[1] = "pipeline"
        BY <2>3 DEF RigInv, Registered
      <3>3. /\ negedgeCount' = negedgeCount + 1
            /\ negedge' = [negedge EXCEPT ![negedgeCount + 1] = "pipeline"]
        BY <3>1 DEF on_negedge, NegedgeOk
      <3>4. negedgeCount + 1 = 1
        BY <3>2
      <3>5. negedgeCount' = 1 /\ negedge'[1] = "pipeline" /\ DOMAIN negedge' = 1 .. MaxCallbacks
        BY <1>0, <2>1, <3>3, <3>4
      <3>6. QED
        BY <1>0, <1>1, <2>1, <3>1, <3>2, <3>5 DEF RigInv, Registered
    <2>4. CASE main = "register logger" /\ main' # "failed"
      <3>1. /\ main' = "run" /\ NegedgeOk("logger") /\ on_negedge("logger")
        BY <1>3, <2>4 DEF RegisterNegedges, Then, NegedgeOk
      <3>2. /\ count = 1 /\ negedgeCount = 1 /\ posedge[1] = "pipeline"
            /\ negedge[1] = "pipeline"
        BY <2>4 DEF RigInv, Registered
      <3>3. /\ negedgeCount' = negedgeCount + 1 /\ negedgeCount < MaxCallbacks
            /\ negedge' = [negedge EXCEPT ![negedgeCount + 1] = "logger"]
        BY <3>1 DEF on_negedge, NegedgeOk
      <3>4. negedgeCount + 1 = 2 /\ 2 \in 1 .. MaxCallbacks
        BY <1>0, <3>2, <3>3
      <3>5. /\ negedgeCount' = 2 /\ negedge'[2] = "logger" /\ negedge'[1] = "pipeline"
            /\ DOMAIN negedge' = 1 .. MaxCallbacks
        BY <1>0, <2>1, <3>2, <3>3, <3>4
      <3>6. QED
        BY <1>0, <1>1, <2>1, <3>1, <3>2, <3>5 DEF RigInv, Registered
    <2>5. QED
      BY <1>3, <2>2, <2>3, <2>4 DEF RegisterNegedges, Then, NegedgeOk
  <1>4. CASE LoopEnd
    BY <1>1, <1>4 DEF RigInv, Registered, LoopEnd, engineVars, callbackVars
  <1>5. QED
    BY <1>1, <1>2, <1>3, <1>4

\* A step starts with all three calls to make.
LEMMA RigBegins ==
  ASSUME RigInv, LoopStep
  PROVE  /\ RigInv' /\ ~stepping /\ stepping' /\ cycle' = cycle
         /\ todo' = <<RisingCall, FallingCall, LoggerCall>>
  <1>1. /\ main = "run" /\ ~stepping /\ stepping' = TRUE /\ cycle' = cycle /\ main' = main
        /\ UNCHANGED <<posedge, negedge, count, negedgeCount>>
        /\ todo' = Calls("pos", posedge, count) \o Calls("neg", negedge, negedgeCount)
    BY DEF LoopStep, BeginStep, callbackVars
  <1>2. /\ count = 1 /\ negedgeCount = 2 /\ posedge[1] = "pipeline" /\ negedge[1] = "pipeline"
        /\ negedge[2] = "logger"
    BY <1>1 DEF RigInv, Registered
  <1>3. PICK f, g, h : f = RisingCall /\ g = FallingCall /\ h = LoggerCall
    OBVIOUS
  <1>4. Calls("pos", posedge, count) = <<f>>
    BY <1>2, <1>3 DEF Calls, RisingCall
  <1>5. Calls("neg", negedge, negedgeCount) = <<g, h>>
    BY <1>2, <1>3 DEF Calls, FallingCall, LoggerCall
  <1>6. <<f>> \o <<g, h>> = <<f, g, h>>
    <2> DEFINE S == {f, g, h}
               s == <<f>>
               t == <<g, h>>
               u == <<f, g, h>>
    <2>1. /\ s \in Seq(S) /\ t \in Seq(S) /\ u \in Seq(S)
          /\ Len(s) = 1 /\ Len(t) = 2 /\ Len(u) = 3 /\ s[1] = f /\ t[1] = g /\ t[2] = h
          /\ u[1] = f /\ u[2] = g /\ u[3] = h
      OBVIOUS
    <2> HIDE DEF S, s, t, u
    <2>2. /\ s \o t \in Seq(S) /\ Len(s \o t) = Len(s) + Len(t)
          /\ \A i \in 1 .. Len(s) + Len(t) :
               (s \o t)[i] = IF i <= Len(s) THEN s[i] ELSE t[i - Len(s)]
      BY <2>1, ConcatProperties
    <2>3. Len(s \o t) = 3 /\ \A i \in 1 .. 3 : (s \o t)[i] = u[i]
      BY <2>1, <2>2
    <2>4. s \o t = u
      BY <2>1, <2>2, <2>3, SeqEqual
    <2>5. QED
      BY <2>4 DEF s, t, u
  <1>7. todo' = <<RisingCall, FallingCall, LoggerCall>>
    BY <1>1, <1>3, <1>4, <1>5, <1>6
  <1>8. QED
    BY <1>1, <1>7 DEF RigInv, Registered

\* The calls of a step are made in the order of the registrations.
LEMMA RigCalls ==
  ASSUME RigInv, PipelinePosedge \/ PipelineNegedge \/ LoggerNegedge
  PROVE  /\ RigInv' /\ stepping /\ stepping' /\ cycle' = cycle
         /\ \/ todo = <<RisingCall, FallingCall, LoggerCall>> /\ todo' = <<FallingCall, LoggerCall>>
            \/ todo = <<FallingCall, LoggerCall>> /\ todo' = <<LoggerCall>>
            \/ todo = <<LoggerCall>> /\ todo' = <<>>
  <1>1. /\ todo # <<>> /\ todo' = Tail(todo) /\ main' = main
        /\ UNCHANGED <<posedge, negedge, count, negedgeCount, cycle, stepping>>
    BY DEF PipelinePosedge, PipelineNegedge, LoggerNegedge, Call, callbackVars
  <1>2. stepping /\ main = "run"
    BY <1>1 DEF RigInv
  <1>3. PICK f, g, h : f = RisingCall /\ g = FallingCall /\ h = LoggerCall
    OBVIOUS
  <1>4. Tail(<<f, g, h>>) = <<g, h>> /\ Tail(<<g, h>>) = <<h>> /\ Tail(<<h>>) = <<>>
    OBVIOUS
  <1>5. \/ todo = <<f, g, h>> /\ todo' = <<g, h>>
        \/ todo = <<g, h>> /\ todo' = <<h>>
        \/ todo = <<h>> /\ todo' = <<>>
    BY <1>1, <1>2, <1>3, <1>4 DEF RigInv
  <1>6. QED
    BY <1>1, <1>2, <1>3, <1>5 DEF RigInv, Registered

\* The cycle counter moves on when no call is left.
LEMMA RigEnds ==
  ASSUME RigInv, StepEnds
  PROVE  RigInv' /\ stepping /\ ~stepping' /\ todo = <<>> /\ cycle' = cycle + 1
  BY DEF RigInv, Registered, StepEnds, EndStep, callbackVars

\* Every step keeps the invariant and is at most one tick of the clock.
LEMMA RigTicks ==
  ASSUME RigInv, [RigNext]_rigVars
  PROVE  RigInv' /\ SeenTick(SeenCycle, SeenEdge, SeenCycle', SeenEdge')
  <1>0. cycle \in Nat
    BY DEF RigInv
  <1>1. CASE RegisterPipelinePosedge \/ RegisterNegedges \/ LoopEnd
    BY <1>1, RigRegisters, SeenBetween
  <1>2. CASE LoopStep
    <2>1. /\ RigInv' /\ ~stepping /\ stepping' /\ cycle' = cycle
          /\ todo' = <<RisingCall, FallingCall, LoggerCall>>
      BY <1>2, RigBegins
    <2>2. SeenCycle = cycle /\ SeenEdge = "pos"
      BY <2>1 DEF SeenCycle, SeenEdge
    <2>3. Waiting("pos")' /\ Waiting("neg")'
      BY <2>1, WaitingAfter
    <2>4. QED
      BY <2>1, <2>2, <2>3 DEF SeenCycle, SeenEdge, SeenTick
  <1>3. CASE PipelinePosedge \/ PipelineNegedge \/ LoggerNegedge
    <2>1. /\ RigInv' /\ stepping /\ stepping' /\ cycle' = cycle
          /\ \/ todo = <<RisingCall, FallingCall, LoggerCall>> /\ todo' = <<FallingCall, LoggerCall>>
             \/ todo = <<FallingCall, LoggerCall>> /\ todo' = <<LoggerCall>>
             \/ todo = <<LoggerCall>> /\ todo' = <<>>
      BY <1>3, RigCalls
    <2>2. QED
      BY <1>0, <2>1, WaitingFor, WaitingAfter DEF SeenCycle, SeenEdge, SeenTick
  <1>4. CASE StepEnds
    <2>1. RigInv' /\ stepping /\ ~stepping' /\ todo = <<>> /\ cycle' = cycle + 1
      BY <1>4, RigEnds
    <2>2. QED
      BY <1>0, <2>1, WaitingFor DEF SeenCycle, SeenEdge, SeenTick
  <1>5. CASE UNCHANGED rigVars
    <2>1. UNCHANGED <<posedge, negedge, count, negedgeCount, cycle, stepping, todo, main>>
      BY <1>5 DEF rigVars, engineVars, callbackVars, stepVars
    <2>2. RigInv'
      BY <2>1 DEF RigInv, Registered
    <2>3. QED
      BY <2>1, <2>2, SeenBetween
  <1>6. QED
    BY <1>1, <1>2, <1>3, <1>4, <1>5 DEF RigNext

\* A posedge and then a negedge in each cycle, cycle after cycle, is what the
\* pipeline's callbacks see of main.cpp's engine, for any number of slots and
\* any cycle limit, although the engine also calls the logger.
THEOREM RigGivesClock == RigSpec => PipelineClock
  <1>1. RigInit => RigInv
    <2> SUFFICES ASSUME RigInit PROVE RigInv
      OBVIOUS
    <2>1. /\ main = "register pipeline posedge" /\ count = 0 /\ negedgeCount = 0 /\ cycle = 0
          /\ DOMAIN posedge = 1 .. MaxCallbacks /\ DOMAIN negedge = 1 .. MaxCallbacks
          /\ todo = <<>>
      BY DEF RigInit, EngineInit
    <2>2. ~stepping
      BY Zenon DEF RigInit, EngineInit
    <2>3. QED
      BY <2>1, <2>2 DEF RigInv, Registered
  <1>2. RigInit => Clock!ClockInit
    BY DEF RigInit, EngineInit, Clock!ClockInit
  <1>3. RigInv /\ [RigNext]_rigVars => RigInv'
    BY RigTicks
  <1>4. RigInv /\ [RigNext]_rigVars => [Clock!AtPosedge \/ Clock!AtNegedge]_(Clock!clockVars)
    <2> SUFFICES ASSUME RigInv, [RigNext]_rigVars
                 PROVE  [Clock!AtPosedge \/ Clock!AtNegedge]_(Clock!clockVars)
      OBVIOUS
    <2>1. SeenTick(SeenCycle, SeenEdge, SeenCycle', SeenEdge')
      BY RigTicks
    <2>2. QED
      BY <2>1, Zenon DEF SeenTick, SeenCycle, SeenEdge, Clock!AtPosedge, Clock!AtNegedge,
                         Clock!clockVars
  <1>5. QED
    BY <1>1, <1>2, <1>3, <1>4, PTL DEF RigSpec, PipelineClock, Clock!ClockSpec
==============================================================================
