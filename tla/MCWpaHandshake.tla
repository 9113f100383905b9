--------------------------- MODULE MCWpaHandshake ---------------------------
(* Instance of the four-way handshake for TLC: one group key of two bits for
   a gtk buffer of two bytes.  Passphrases and nonces are interchangeable. *)
EXTENDS WpaHandshake, TLC

MCGtks == {<<0, 1>>}

Symmetry == Permutations(Pmks) \cup Permutations(Nonces)
=============================================================================
