--------------------------- MODULE MCDesktopPopup ---------------------------
(* Values of the constants of DesktopPopup for TLC: an entry with a field  *)
(* and a TOTP secret.                                                      *)
EXTENDS DesktopPopup, TLC

MCFieldCount == ("login" :> 1)
=============================================================================
