---------------------------- MODULE MCDriveState -----------------------------
(* One report of the firmware: one success in two. *)
EXTENDS DriveState

MCReports == {<<1, 2>>}
=============================================================================
