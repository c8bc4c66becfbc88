--------------------------- MODULE MCAlertOutbox ---------------------------
(* Small instances of AlertOutbox for TLC. *)
EXTENDS AlertOutbox, TLC
=============================================================================
