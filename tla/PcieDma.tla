------------------------------- MODULE PcieDma -------------------------------
(***************************************************************************)
(* PcieGen4x16Dma of include/modules/pcie_dma.hpp: a ring of posted TLPs   *)
(* shared with the host, a count of posts and the MSI-X line.  The ring is *)
(* used through its specification, BoundedFifo.  The operators give the    *)
(* engine's state after a call, because the pipeline makes several calls   *)
(* in one clock edge.                                                      *)
(***************************************************************************)
EXTENDS Integers, Sequences

CONSTANT HostRingDepth   \* ring_depth; 64 in the code

ASSUME HostRingAssumption == HostRingDepth \in Nat \ {0}

VARIABLE dmaEngine       \* ring_, posted_ and msix_

IdleEngine == [ring |-> <<>>, posted |-> 0, msix |-> FALSE]

DmaInit == dmaEngine = IdleEngine

\* post_write(tlp): refused, with nothing changed, when the ring is full.
PostOk(d) == Len(d.ring) # HostRingDepth
PostWrite(d, tlp) ==
  IF PostOk(d)
    THEN [ring |-> Append(d.ring, tlp), posted |-> d.posted + 1, msix |-> TRUE]
    ELSE d

\* consume(tlp): the oldest TLP, if any, leaves the ring.
ConsumeOk(d) == d.ring # <<>>
Consume(d) == IF ConsumeOk(d) THEN [d EXCEPT !.ring = Tail(@)] ELSE d

\* clear_msix() lowers the line whatever the ring still holds.
ClearMsix(d) == [d EXCEPT !.msix = FALSE]
==============================================================================
