----------------------------- MODULE ItchEvents ------------------------------
(***************************************************************************)
(* The messages Itch50Parser (include/modules/parser_itch50.hpp) knows and *)
(* the event it decodes from each of them.  A message is a record with the *)
(* fields of an event; what its bytes say at the offsets of a field its    *)
(* type does not have is not part of the event.                            *)
(***************************************************************************)
EXTENDS Integers

\* length_for: 0 for a type without a verified length.
KnownLengths == [A |-> 36, F |-> 40, E |-> 31, C |-> 36, X |-> 23, D |-> 19, U |-> 35]
LengthFor(type) == IF type \in DOMAIN KnownLengths THEN KnownLengths[type] ELSE 0

\* ItchEvent{}; the stock and the width of the fields are left out.
NoEvent == [type |-> "?", reference |-> 0, newReference |-> 0,
            bid |-> FALSE, price |-> 0, shares |-> 0]

\* The fields decode reads for each type.
Carried ==
  LET add == {"type", "reference", "bid", "shares", "price"}
      reduction == {"type", "reference", "shares"} IN
  [A |-> add, F |-> add, E |-> reduction, C |-> reduction, X |-> reduction,
   D |-> {"type", "reference"},
   U |-> {"type", "reference", "newReference", "shares", "price"}]

Decode(m) == [f \in DOMAIN NoEvent |-> IF f \in Carried[m.type] THEN m[f] ELSE NoEvent[f]]
==============================================================================
