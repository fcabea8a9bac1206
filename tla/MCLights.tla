------------------------------ MODULE MCLights ------------------------------
(* An instance of Lights for TLC: steady, evenly and unevenly blinking      *)
(* lights in several colours, on an LED whose blue cannot blink.            *)
EXTENDS Lights

Light(r, g, b, flash, on, off) ==
  [color |-> [c \in Colour |-> CASE c = "red" -> r [] c = "green" -> g
                                 [] OTHER -> b],
   flash |-> flash, on |-> on, off |-> off]

MCStates == {Light(0, 0, 0, "none", 0, 0), Light(255, 0, 0, "none", 0, 0),
             Light(0, 255, 255, "none", 0, 0), Light(255, 0, 0, "timed", 1, 1),
             Light(0, 255, 255, "timed", 1, 2), Light(0, 9, 0, "timed", 1, 0),
             Light(0, 0, 0, "hardware", 3, 0)}
=============================================================================
