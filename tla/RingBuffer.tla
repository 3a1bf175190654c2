----------------------------- MODULE RingBuffer ------------------------------
(***************************************************************************)
(* RingBuffer<T, Count> of include/core/aligned_slab.hpp: a fixed array    *)
(* with a head index, a tail index and an explicit element count.  Every   *)
(* queue of the pipeline (bram_ring_, ofi_ring_, dma_q_) and the DMA       *)
(* engine's host ring is one of these.                                     *)
(***************************************************************************)
EXTENDS Naturals, Sequences

CONSTANTS Count,    \* number of slots
          Values,   \* values that may be stored
          Default   \* T{}, what every slot holds before the first push

ASSUME RingAssumption == Count \in Nat \ {0} /\ Default \in Values

VARIABLES slots,    \* slab_.entries
          head,     \* head_: index of the oldest element
          tail,     \* tail_: index the next push writes
          size,     \* size_
          result    \* the value returned by the last call

ringVars == <<slots, head, tail, size, result>>

Index == 0 .. Count - 1

\* The stored values, oldest first: the abstract queue this ring stands for.
Contents == [i \in 1 .. size |-> slots[(head + i - 1) % Count]]

Fifo == INSTANCE BoundedFifo WITH queue <- Contents

RingInit ==
  /\ slots = [i \in Index |-> Default]
  /\ head = 0 /\ tail = 0 /\ size = 0
  /\ result = Fifo!NoCall

(***************************************************************************)
(* push                                                                    *)
(***************************************************************************)
PushFull(v) ==
  /\ size = Count
  /\ result' = Fifo!Pushed(FALSE)
  /\ UNCHANGED <<slots, head, tail, size>>

\* Mutants of PushStored: no full test (a full ring overwrites its oldest
\* value), and a full ring that still counts the value it had no room for.
PushUnguarded(v) ==
  /\ slots' = [slots EXCEPT ![tail] = v]
  /\ tail' = (tail + 1) % Count
  /\ size' = IF size = Count THEN size ELSE size + 1
  /\ result' = Fifo!Pushed(TRUE)
  /\ UNCHANGED head

PushOverCounting(v) ==
  /\ slots' = [slots EXCEPT ![tail] = v]
  /\ tail' = IF size = Count THEN tail ELSE (tail + 1) % Count
  /\ size' = size + 1
  /\ result' = Fifo!Pushed(TRUE)
  /\ UNCHANGED head

PushStored(v) ==
  /\ size # Count
  /\ slots' = [slots EXCEPT ![tail] = v]
  /\ tail' = (tail + 1) % Count
  /\ size' = size + 1
  /\ result' = Fifo!Pushed(TRUE)
  /\ UNCHANGED head

(***************************************************************************)
(* pop                                                                     *)
(***************************************************************************)
PopEmpty ==
  /\ size = 0
  /\ result' = Fifo!Refused
  /\ UNCHANGED <<slots, head, tail, size>>

PopTaken ==
  /\ size # 0
  /\ result' = Fifo!Popped(slots[head])
  /\ head' = (head + 1) % Count
  /\ size' = size - 1
  /\ UNCHANGED <<slots, tail>>

RingNext ==
  \/ PopEmpty
  \/ PopTaken
  \/ \E v \in Values : PushFull(v) \/ PushStored(v)

RingSpec == RingInit /\ [][RingNext]_ringVars

------------------------------------------------------------------------------
(***************************************************************************)
(* Properties                                                              *)
(***************************************************************************)

\* Types of the ring's fields: the indices stay inside the slab and the
\* count between empty and full (push and pop wrap with % Count).
RingTypeOK ==
  /\ slots \in [Index -> Values]
  /\ head \in Index
  /\ tail \in Index
  /\ size \in 0 .. Count
  /\ result \in Fifo!Results

\* The three fields push and pop update separately stay in step: the tail is
\* always size slots after the head, also after both have wrapped.
IndicesAgree == tail = (head + size) % Count

\* The inductive invariant behind the refinement.
RingInv == RingTypeOK /\ IndicesAgree

\* push and pop of the slab ring are push and pop of a bounded FIFO queue:
\* values leave in the order they came in, none is lost, duplicated or
\* overwritten by a wrap, and calls are refused exactly when full or empty.
ImplementsFifo == Fifo!FifoSpec
==============================================================================
