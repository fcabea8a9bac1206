----------------------------- MODULE MCPipeBook -----------------------------
(* An instance of PipeBook for TLC: one pipe of each type.                  *)
EXTENDS PipeBook

\* One RGB, one VG and one DMA pipe, in the order initOverlay fills the LUT.
OnePerType == <<"RGB", "VG", "DMA">>
TypeOfPipe == [i \in 0 .. 2 |-> OnePerType[i + 1]]
=============================================================================
