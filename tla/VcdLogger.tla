------------------------------ MODULE VcdLogger ------------------------------
(***************************************************************************)
(* VcdLogger of include/trace/vcd_logger.hpp.  The file is the sequence of *)
(* its lines after the header: time stamps, and values that hold from the  *)
(* last time stamp before them.  Formatting is left out but for the vector *)
(* of bits of the 32-bit ofi signal.                                       *)
(***************************************************************************)
EXTENDS Integers, Sequences

CONSTANT Width           \* bits of the ofi signal; 32 in the code

VARIABLES open,          \* file_ is not null
          trace,         \* the lines of the file
          lastTime       \* last_time_

vcdVars == <<open, trace, lastTime>>

\* One cycle is 512/165 ns, in femtoseconds and rounded to the nearest.
UnitsPerCycle == (512 * 1000000 + 165 \div 2) \div 165
UnitsPerHalfCycle == UnitsPerCycle \div 2

Line(signal, value) == [signal |-> signal, value |-> value]

\* write_vector(static_cast<std::uint32_t>(v)): bit 0 is the last of the line.
Vector(v) == [i \in 0 .. Width - 1 |-> ((v % 2 ^ Width) \div 2 ^ i) % 2]

VcdInit ==
  /\ open \in BOOLEAN    \* fopen may fail, and then nothing is ever written
  /\ trace = IF open THEN <<Line("time", 0), Line("clk", 0), Line("tick", FALSE),
                            Line("ofi", Vector(0))>> ELSE <<>>
  /\ lastTime = 0

\* stamp: no line for the time the file already stands at.
Stamp(t, last) == IF t # last THEN <<Line("time", t)>> ELSE <<>>

\* cycle(cycle, tick_valid, ofi)
LogCycle(c, tick, ofi) ==
  LET t == c * UnitsPerCycle
      half == t + UnitsPerHalfCycle IN
  /\ IF open
       THEN /\ trace' = trace \o Stamp(t, lastTime)
                          \o <<Line("clk", 1), Line("tick", tick), Line("ofi", Vector(ofi))>>
                          \o Stamp(half, t) \o <<Line("clk", 0)>>
            /\ lastTime' = half
       ELSE UNCHANGED <<trace, lastTime>>
  /\ UNCHANGED open
==============================================================================
