----------------------------- MODULE MCDatapath -----------------------------
(***************************************************************************)
(* 8-bit operands around every boundary of sign, byte and half.            *)
(***************************************************************************)
EXTENDS T5Imm

MCSamples == <<0, 1, 2, 3, 4, 7, 15, 16, 27, 63, 64, 85, 126, 127, 128, 129,
               170, 191, 192, 228, 240, 253, 254, 255>>
=============================================================================
