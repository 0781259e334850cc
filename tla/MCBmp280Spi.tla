----------------------------- MODULE MCBmp280Spi -----------------------------
(* Instances of Bmp280Spi for TLC. *)
EXTENDS Bmp280Spi, TLC

CONSTANTS r1, r2

=============================================================================
