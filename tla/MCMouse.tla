------------------------------- MODULE MCMouse -------------------------------
(***************************************************************************)
(* A frame buffer of 6 x 4 pixels and a mouse that moves by a pixel or     *)
(* two, far beyond the edge, or with an overflow, in every direction.      *)
(* The flags are 8 + 16 (x negative) + 32 (y negative) + 64 (x overflow).  *)
(***************************************************************************)
EXTENDS Mouse

MCPackets == {<<8, 1, 1>>, <<8, 2, 0>>, <<24, 255, 1>>, <<40, 0, 255>>,
              <<56, 254, 247>>, <<8, 255, 8>>, <<72, 3, 2>>, <<88, 247, 0>>}

\* Those whose movements cannot be taken for a first byte.
MCQuietPackets == {p \in MCPackets : ~Has(p[2], PS2_FIRST_BYTE)
                                     /\ ~Has(p[3], PS2_FIRST_BYTE)}

\* The packets of the instance are those that the theorems are about.
ASSUME InstanceAssumption ==
    QuietFirst /\ NoLongestMove
=============================================================================
