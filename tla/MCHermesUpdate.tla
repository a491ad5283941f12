--------------------------- MODULE MCHermesUpdate ---------------------------
(* TLC instances of HermesUpdate; the .cfg files give the bounds.          *)
EXTENDS HermesUpdate
=============================================================================
