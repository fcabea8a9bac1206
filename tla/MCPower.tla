------------------------------ MODULE MCPower ------------------------------
(* An instance of Power for TLC: six modes of gEDIDData, a panel of         *)
(* 2560x1600, larger than every sink, one sink whose best known mode is     *)
(* VGA and one that has the mode the user asks for, which is not its best.  *)
EXTENDS Power

Row(w, h, i) == [size |-> <<w, h>>, interlaced |-> i]

Table == <<Row(1440, 480, TRUE), Row(1920, 1080, TRUE), Row(640, 480, FALSE),
           Row(1280, 720, FALSE), Row(1600, 1200, FALSE),
           Row(1920, 1080, FALSE)>>

\* Eight is a mode the table does not know.
MCSinks == {<<1, 3, 8>>, <<2, 6, 4>>}
MCUserModes == {4}
Panel == <<1600, 2560>>

ASSUME MCPowerAssumption == Ordered /\ KnownModes /\ FourTimes
=============================================================================
