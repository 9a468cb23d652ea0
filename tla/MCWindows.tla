----------------------------- MODULE MCWindows -----------------------------
(***************************************************************************)
(* Two types of events give a window, one gives modifiers.  A button that  *)
(* is held makes of two key states that differ the same modifiers.         *)
(***************************************************************************)
EXTENDS Windows

MCEventTypes == {"CLIENT_MESSAGE", "CONFIGURE_NOTIFY", "KEY_PRESS"}
MCKeyStates == {{"SHIFT"}, {"SHIFT", "BUTTON_1"}}
Symmetry == Permutations(Addresses)
=============================================================================
