--------------------------- MODULE PipeOwnership ---------------------------
(***************************************************************************)
(* What liboverlay promises the display driver about overlay pipes: a pipe *)
(* that a display's mixer holds is given to nobody else before it has been *)
(* released (an UNSET), and one acquisition (a validateAndSet) concerns    *)
(* one display only.  overlay.h states the rule twice, at nextPipe and at  *)
(* the usage bitmap.  PipeBook implements this module.                     *)
(***************************************************************************)
CONSTANTS Pipe,      \* the overlay pipes of the target
          Display,   \* the displays that compose with them
          Mixer,     \* the mixers of a (split) display
          Format,    \* the format classes a pipe is attached for
          NoOwner    \* marks a pipe that nobody holds

VARIABLE owner       \* pipe -> the display, mixer and format it is set for

Owner == [display : Display, mixer : Mixer, format : Format]

Init == owner = [i \in Pipe |-> NoOwner]

\* Display d takes some free pipes; whatever it already holds stays as it is.
Acquire(d) ==
  /\ owner' \in [Pipe -> Owner \cup {NoOwner}]
  /\ \A i \in Pipe : owner'[i] # owner[i] =>
        owner[i] = NoOwner /\ owner'[i].display = d

\* Some held pipes are unset.
Release ==
  /\ owner' \in [Pipe -> Owner \cup {NoOwner}]
  /\ \A i \in Pipe : owner'[i] \in {owner[i], NoOwner}

Next == Release \/ \E d \in Display : Acquire(d)

Spec == Init /\ [][Next]_owner
=============================================================================
