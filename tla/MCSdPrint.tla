----------------------------- MODULE MCSdPrint -----------------------------
(* An instance of SdPrint for TLC. *)
EXTENDS SdPrint

\* Home, heat up, change the filament, print.
SmallFile == <<"home", "heat", "pause", "move">>
=============================================================================
