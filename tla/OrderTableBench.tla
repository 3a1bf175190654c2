--------------------------- MODULE OrderTableBench ---------------------------
(***************************************************************************)
(* The order table alone: any sequence of insert, reduce and reset calls,  *)
(* with the value each call returns.                                       *)
(***************************************************************************)
EXTENDS OrderTable

CONSTANTS References, Prices, Shares

ASSUME BenchAssumption ==
  References \subseteq Nat /\ Prices \subseteq Nat /\ Shares \subseteq Nat \ {0}

VARIABLE reply

tableVars == <<entries, reply>>

\* The map the table stands for.
LiveReferences == {entries[i].reference : i \in {j \in Slots : entries[j].live}}
Orders ==
  [r \in LiveReferences |->
     LET e == Entry(entries, r) IN
     [bid |-> e.bid, price |-> e.price, remaining |-> e.remaining]]

Map == INSTANCE OrderMap WITH orders <- Orders

TableBenchInit == TableInit /\ reply = Map!NoReply

InsertCall(r, b, p, n) ==
  /\ entries' = Insert(entries, r, b, p, n)
  /\ reply' = <<"insert", InsertOk(entries, r)>>

ReduceCall(r, n) ==
  /\ entries' = Reduce(entries, r, n)
  /\ reply' = IF Known(entries, r)
                THEN <<"reduce", TRUE, Entry(entries, r).bid, Entry(entries, r).price,
                       Applied(entries, r, n)>>
                ELSE <<"reduce", FALSE>>

ResetCall == TableReset /\ reply' = Map!NoReply

TableNext ==
  \/ ResetCall
  \/ \E r \in References, n \in Shares :
       \/ ReduceCall(r, n)
       \/ \E b \in BOOLEAN, p \in Prices : InsertCall(r, b, p, n)

TableSpec == TableBenchInit /\ [][TableNext]_tableVars

\* The slots hold what the code may put there, and no reference is live in
\* two slots: insert looks at the whole table before it takes a free slot.
TableInv ==
  /\ entries \in [Slots -> {NoEntry} \cup
       [reference : References, price : Prices, remaining : Nat \ {0},
        bid : BOOLEAN, live : {TRUE}]]
  /\ \A i, j \in Slots :
       entries[i].live /\ entries[j].live /\ entries[i].reference = entries[j].reference
         => i = j

\* insert and reduce on the array of slots are insert and reduce on a map of
\* live references: slots freed and taken again in any order lose, duplicate
\* or mix up no order, and an insert is refused exactly when the reference is
\* live or Capacity orders are.
ImplementsOrderMap == Map!MapSpec
==============================================================================
