---------------------------- MODULE MCSettingsSync ----------------------------
(* Two processes and three updates, one of them with invalid settings.       *)
EXTENDS SettingsSync

CONSTANTS i1, i2, a, b, c
=============================================================================
