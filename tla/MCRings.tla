------------------------------ MODULE MCRings ------------------------------
(***************************************************************************)
(* Small rings for TLC: two byte values and a buffer of four, so that the  *)
(* data wraps in every way, fills the ring and pushes the reader.          *)
(***************************************************************************)
EXTENDS Rings

MCByte == {0, 1}
=============================================================================
