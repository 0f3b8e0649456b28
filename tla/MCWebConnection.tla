--------------------------- MODULE MCWebConnection ---------------------------
(* WebConnection for TLC, which needs only its bounds.                     *)
EXTENDS WebConnection
=============================================================================
