------------------------------- MODULE Lights -------------------------------
(***************************************************************************)
(* The lights HAL (liblight/lights.c): the notification and battery lights *)
(* share one three-coloured LED, and a call of any of their devices writes *)
(* it anew; backlight, buttons and bluetooth have a node each.  Every call *)
(* holds g_lock from its first write to its last, so it is one action.     *)
(*                                                                         *)
(* A light state is [color, flash, on, off]: the level of each colour, the *)
(* flash mode and the milliseconds of a flash.  Writing a colour's level   *)
(* ends its blinking.                                                      *)
(***************************************************************************)
EXTENDS Integers

CONSTANTS
  BlinkNodes,  \* the colours whose LED can blink by itself
  States       \* the light states the clients ask for

Colour == {"red", "green", "blue"}

ASSUME LightsAssumption ==
  /\ BlinkNodes \subseteq Colour
  /\ \A s \in States : /\ s.color \in [Colour -> 0..255]
                       /\ s.on \in Nat /\ s.off \in Nat

VARIABLES
  g_battery, g_notification, g_attention,
  led,                          \* colour -> its level, or minus its blink mode
  lcd, button, bluetooth        \* levels

lamps == <<lcd, button, bluetooth>>
vars  == <<g_battery, g_notification, g_attention, led, lamps>>

Dark == [color |-> [c \in Colour |-> 0], flash |-> "none", on |-> 0, off |-> 0]

Init ==
  /\ g_battery = Dark /\ g_notification = Dark /\ g_attention = 0
  /\ led = [c \in Colour |-> 0]
  /\ lcd = 0 /\ button = 0 /\ bluetooth = 0

is_lit(state) == \E c \in Colour : state.color[c] # 0

\* The weights of the three colours sum up to 256.
rgb_to_brightness(state) ==
  (77 * state.color["red"] + 150 * state.color["green"]
     + 29 * state.color["blue"]) \div 256

\* How the LED blinks: in mode 2 if it is on as long as it is off; 0 if it is
\* steady.
Blink(state) ==
  CASE state.flash # "timed" \/ state.on = 0 \/ state.off = 0 -> 0
    [] state.flash = "timed" /\ state.on = state.off /\ state.on > 0 -> 2
    [] OTHER -> 1

\* To blink, only the colours in use are written; a colour that cannot blink is
\* turned off.
\* Mutant: so it is for a steady light.
OnlyUsed(state) ==
  [c \in Colour |->
     CASE state.color[c] = 0 -> led[c]
       [] state.color[c] # 0 /\ Blink(state) = 0 -> state.color[c]
       [] OTHER -> IF c \in BlinkNodes THEN -Blink(state) ELSE 0]

set_speaker_light_locked(state) ==
  IF Blink(state) = 0
    THEN state.color
    ELSE [c \in Colour |-> CASE state.color[c] = 0 -> led[c]
                             [] c \in BlinkNodes /\ state.color[c] # 0
                                  -> -Blink(state)
                             [] OTHER -> 0]

\* The battery goes before the notifications.
handle_speaker_battery_locked(battery, notification) ==
  led' = set_speaker_light_locked(IF is_lit(battery) THEN battery
                                  ELSE notification)

set_light_battery(state) ==
  /\ g_battery' = state
  /\ handle_speaker_battery_locked(state, g_notification)
  /\ UNCHANGED <<g_notification, g_attention, lamps>>

set_light_notifications(state) ==
  /\ g_notification' = state
  /\ handle_speaker_battery_locked(g_battery, state)
  /\ UNCHANGED <<g_battery, g_attention, lamps>>

set_light_attention(state) ==
  /\ g_attention' = CASE state.flash = "hardware" -> state.on
                      [] state.flash = "none" -> 0
                      [] OTHER -> g_attention
  /\ handle_speaker_battery_locked(g_battery, g_notification)
  /\ UNCHANGED <<g_battery, g_notification, lamps>>

set_light_backlight(state) ==
  /\ lcd' = rgb_to_brightness(state)
  /\ UNCHANGED <<g_battery, g_notification, g_attention, led, button, bluetooth>>

set_light_buttons(state) ==
  /\ button' = state.color["blue"]
  /\ UNCHANGED <<g_battery, g_notification, g_attention, led, lcd, bluetooth>>

set_light_bluetooth(state) ==
  /\ bluetooth' = state.color["blue"]
  /\ UNCHANGED <<g_battery, g_notification, g_attention, led, lcd, button>>

Next ==
  \E state \in States :
    \/ set_light_battery(state) \/ set_light_notifications(state)
    \/ set_light_attention(state) \/ set_light_backlight(state)
    \/ set_light_buttons(state) \/ set_light_bluetooth(state)

Spec == Init /\ [][Next]_vars

----------------------------------------------------------------------------
\* Whatever was shown before, and whichever device was called last: a steady
\* light in front, or none, is shown in its own colours alone, with nothing
\* left of what blinked before; and each colour that a blinking light in front
\* uses blinks its way, if it can blink.
FrontShown ==
  LET front == IF is_lit(g_battery) THEN g_battery ELSE g_notification
  IN  IF Blink(front) = 0
        THEN led = front.color
        ELSE \A c \in BlinkNodes :
               front.color[c] > 0 => led[c] = -Blink(front)
=============================================================================
