--------------------------- MODULE MCTextConversion ---------------------------
(***************************************************************************)
(* The layout of the linked kernel and numbers of different lengths, some  *)
(* with a zero in them.  An uninitialized size is right, a little off, or  *)
(* such that the text is written behind its buffer, or before it.  An int   *)
(* ends at 1024, so that a double beyond it is short.                      *)
(***************************************************************************)
EXTENDS TextConversion

MCLayout == <<"uint", "hex64", "hex32", "hex16", "hex8", "int", "double">>
MCIntegers == {-40, 123456}
\* In eighths: -0.5, -100.375, and 1024.5, which is no int.
MCDoubles == {-4, -803, 8196}
MCHexValues == {10, 41200, 752658688}
=============================================================================
