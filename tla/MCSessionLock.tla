----------------------------- MODULE MCSessionLock -----------------------------
(* TLC instance of SessionLock: two outputs, one or two lock screens.        *)
EXTENDS SessionLock
=============================================================================
