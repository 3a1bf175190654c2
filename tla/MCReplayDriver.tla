--------------------------- MODULE MCReplayDriver ----------------------------
(***************************************************************************)
(* Slices for model checking the replay driver: up to MaxFrames frames of  *)
(* two stocks, both listed under one name, among them the longest book     *)
(* message, a longer message that is not for the book, one whose length is *)
(* wrong and an empty one, whole or cut in the body or in the header of    *)
(* the last frame.                                                         *)
(***************************************************************************)
EXTENDS ReplayDriver

CONSTANTS MaxFrames, Times

Frames(type, length, locates, times) ==
  {[type |-> type, length |-> length, locate |-> l, ts |-> t, stock |-> "XYZ"] :
     l \in locates, t \in times}

SomeTime == {CHOOSE t \in Times : TRUE}

Pool ==
  Frames("A", 36, {1}, Times) \cup Frames("F", 40, {1}, Times)
    \cup Frames("D", 19, {1}, Times) \cup Frames("A", 36, {2}, SomeTime)
    \cup Frames("R", 39, {1, 2}, SomeTime) \cup Frames("P", 44, {1}, SomeTime)
    \cup Frames("A", 35, {1}, SomeTime) \cup Frames("?", 0, {1}, SomeTime)

MCFiles ==
  UNION {{[frames |-> fs, size |-> SizeOf(fs) - cut] : cut \in {0, 1, Last(fs).length + 1}} :
           fs \in UNION {[1 .. n -> Pool] : n \in 1 .. MaxFrames}}
==============================================================================
