----------------------------- MODULE MCKeyboard -----------------------------
(* Instances of the keyboard driver for TLC. *)
EXTENDS Keyboard

ASSUME KeyboardAssumption == KeyboardSetup
=============================================================================
