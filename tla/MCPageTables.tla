---------------------------- MODULE MCPageTables ----------------------------
(* A machine of 24 pages with tables of 4 entries: 256 virtual pages. *)
EXTENDS PageTables

\* Three machines, with different pages taken at boot.  The tables and the
\* heap need 21 frames in all, so each has enough.
MCFreeAtBoot == {1 .. 23, 2 .. 23, (1 .. 23) \ {3, 12}}
MCFrameBuffer == <<24, 25>>
\* The heap has a PML4 entry of its own, as at 0x100000000000.
MCHeapPages == {64, 65, 68}
MCDevicePages == {26, 28, 32}
\* Frames start out holding entries that look present.
MCLeftover == [i \in Slots |-> To((i * 5 + 1) % 24)]

ASSUME InstanceAssumption == EnoughFrames
=============================================================================
