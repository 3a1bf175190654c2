------------------------------ MODULE OrderMap -------------------------------
(***************************************************************************)
(* What the order table promises: a map from live order references to      *)
(* orders, with room for Capacity of them.                                 *)
(***************************************************************************)
EXTENDS Integers, FiniteSets

CONSTANTS Capacity, References, Prices, Shares

VARIABLES orders,        \* [live references -> orders]
          reply          \* what the last call returned

NoReply == <<"none">>

MapInit == orders = <<>> /\ reply = NoReply

\* insert
Insert(r, order) ==
  LET ok == r \notin DOMAIN orders /\ Cardinality(DOMAIN orders) < Capacity IN
  /\ reply' = <<"insert", ok>>
  /\ orders' = IF ok THEN [s \in DOMAIN orders \cup {r} |->
                             IF s = r THEN order ELSE orders[s]]
                     ELSE orders

\* reduce of a reference that is not live
ReduceUnknown(r) ==
  /\ r \notin DOMAIN orders
  /\ reply' = <<"reduce", FALSE>>
  /\ UNCHANGED orders

\* reduce of a live order: at most what remains; the last share removes it
Reduce(r, shares) ==
  LET o == orders[r]
      applied == IF shares < o.remaining THEN shares ELSE o.remaining IN
  /\ r \in DOMAIN orders
  /\ reply' = <<"reduce", TRUE, o.bid, o.price, applied>>
  /\ orders' = IF applied = o.remaining
                 THEN [s \in DOMAIN orders \ {r} |-> orders[s]]
                 ELSE [orders EXCEPT ![r].remaining = @ - applied]

Reset == orders' = <<>> /\ reply' = NoReply

MapNext ==
  \/ Reset
  \/ \E r \in References :
       \/ ReduceUnknown(r)
       \/ \E n \in Shares : Reduce(r, n)
       \/ \E b \in BOOLEAN, p \in Prices, n \in Shares :
            Insert(r, [bid |-> b, price |-> p, remaining |-> n])

MapSpec == MapInit /\ [][MapNext]_<<orders, reply>>
==============================================================================
