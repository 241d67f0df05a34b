------------------------------- MODULE MC_Codecs ------------------------------
(* Instances of Codecs for TLC: bytes of two bits, numbers of up to four. *)
EXTENDS Codecs

SmallNumbers == -20..255
==============================================================================
