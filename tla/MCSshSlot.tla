------------------------------ MODULE MCSshSlot ------------------------------
(* SshSlot for TLC.                                                          *)
EXTENDS SshSlotProps
=============================================================================
