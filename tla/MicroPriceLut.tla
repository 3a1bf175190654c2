---------------------------- MODULE MicroPriceLut ----------------------------
(***************************************************************************)
(* MicroPriceLut of include/modules/ofi_dsp.hpp: a table of 33 imbalances  *)
(* by 8 spreads and a lookup that clamps both arguments.  A state is one   *)
(* pair of arguments.                                                      *)
(***************************************************************************)
EXTENDS Integers

CONSTANTS Imbalances, Spreads      \* arguments of lookup

ASSUME LutAssumption == Imbalances \subseteq Int /\ Spreads \subseteq Nat

VARIABLES imbalance, spread

ImbalanceMin == -16
ImbalanceMax == 16
SpreadLevels == 8

\* C++ division truncates towards zero.
\* Mutant: division that rounds down.
DivFloor(a, b) == a \div b

Div(a, b) == IF a < 0 THEN -((-a) \div b) ELSE a \div b

Table ==
  [i \in 0 .. 32 |-> [s \in 0 .. SpreadLevels - 1 |-> Div((i - 16) * (s + 1) * 1000, 16)]]

ClampedSpread(s) == IF s = 0 THEN 1 ELSE IF s > SpreadLevels THEN SpreadLevels ELSE s

ClampedImbalance(i) ==
  IF i < ImbalanceMin THEN ImbalanceMin ELSE IF i > ImbalanceMax THEN ImbalanceMax ELSE i

Lookup(i, s) == Table[ClampedImbalance(i) - ImbalanceMin][ClampedSpread(s) - 1]

lutVars == <<imbalance, spread>>

LutInit == imbalance = 0 /\ spread = 0

\* A caller asks for any other pair.
Ask == imbalance' \in Imbalances /\ spread' \in Spreads

LutSpec == LutInit /\ [][Ask]_lutVars

------------------------------------------------------------------------------
\* The price adjustment treats buyers and sellers alike: the opposite
\* imbalance gives the opposite adjustment, and a stronger imbalance never a
\* weaker one, also outside the table and whatever is lost by rounding.
SymmetricAndMonotone ==
  /\ Lookup(-imbalance, spread) = -Lookup(imbalance, spread)
  /\ \A i \in Imbalances : i <= imbalance => Lookup(i, spread) <= Lookup(imbalance, spread)
==============================================================================
