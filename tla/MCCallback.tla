----------------------------- MODULE MCCallback -----------------------------
(* An instance of Callback for TLC.                                        *)
EXTENDS Callback
=============================================================================
