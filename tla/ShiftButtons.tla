---------------------------- MODULE ShiftButtons ----------------------------
(***************************************************************************)
(* The buttons of a controller, any of which may shift the others, and the  *)
(* types of its messages, for the two halves of a configuration.           *)
(***************************************************************************)
EXTENDS Integers

CONSTANTS
  NumButtons,   \* XBOX_BTN_MAX - 1
  Types         \* message types

Buttons == 1..NumButtons
Unknown == 0                           \* XBOX_BTN_UNKNOWN: no shift, no button

(* reset_all_outputs() sends an Xbox360Msg. *)
ResetType == "XBOX360"
=============================================================================
