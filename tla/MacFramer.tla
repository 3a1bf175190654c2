------------------------------ MODULE MacFramer ------------------------------
(***************************************************************************)
(* MacFramer of include/modules/mac_framer.hpp: checks the gap before a    *)
(* frame and takes its AXI4-Stream beats of 64 bytes one at a time.        *)
(***************************************************************************)
EXTENDS Integers

VARIABLES previousEnd,   \* previous_end_: bytes of the frame taken so far
          ipgValid       \* ipg_valid_

macVars == <<previousEnd, ipgValid>>

MinimumIpgBytes == 12
BeatBytes == 64

MacInit == previousEnd = 0 /\ ipgValid = FALSE

\* verify_ipg(idle): records and returns whether the gap was long enough.
IpgOk(idle) == idle >= MinimumIpgBytes

\* accept(beat) of a beat that transfers; it returns AcceptOk(last).
EndAfter(last) == IF last THEN 0 ELSE previousEnd + BeatBytes
AcceptOk(last) == ipgValid \/ EndAfter(last) # 0
==============================================================================
