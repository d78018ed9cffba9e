--------------------------- MODULE MCProviderGroup ---------------------------
(* Instance of ProviderGroup.                                              *)
EXTENDS ProviderGroup

CONSTANTS k1, k2

TwoKeys == << k1, k2 >>
=============================================================================
