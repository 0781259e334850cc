------------------------------ MODULE BtmtkStp ------------------------------
(***************************************************************************)
(* The receive path of hc05/btmtkuart.c: btmtkuart_recv and mtk_stp_split, *)
(* which take the STP header and trailer off a stream of bytes that comes  *)
(* in pieces of any size, and hand the payload to the H4 parser.           *)
(*                                                                         *)
(* A packet is a header of four bytes (the prefix, the length in two       *)
(* bytes, a checksum that nobody looks at), the payload and a trailer of   *)
(* two bytes.  The driver collects the trailer of one packet and the       *)
(* header of the next in a pad of six bytes.  Beside it runs a decoder     *)
(* that reads the same stream byte by byte.  H4 is external.               *)
(***************************************************************************)
EXTENDS Integers, Sequences

CONSTANTS
    Base,           \* the values of a byte: 256 in the code
    Mask,           \* the length is taken modulo Mask: 4096 in the code
    Prefix,         \* the first byte of a header: 0x80 in the code
    Limit,          \* the longest payload: 2048 in the code
    MaxPiece        \* a bound on the bytes that arrive at once

ASSUME StpAssumption ==
    /\ Base \in Nat \ {0} /\ Mask \in Nat \ {0}
    /\ Prefix \in 0..(Base - 1)
    /\ Limit \in Nat
    /\ MaxPiece \in Nat

Bytes == 0..(Base - 1)
Cells == 0..5
PadStart == 2       \* the cursor after a start: no trailer comes first

VARIABLES
    stp_pad, stp_cursor, stp_dlen,  \* the fields of btmtkuart_dev
    offered,        \* the bytes the serial core offers in this call
    left_over,      \* those that btmtkuart_recv has not looked at
    h4,             \* the payload handed to H4 last
    ref,            \* history: the state of the decoder beside it
    ref_h4,         \* history: the payload that decoder found in the same bytes
    astray          \* history: bytes were offered twice since the last start

stpVars == <<stp_pad, stp_cursor, stp_dlen, offered, left_over, h4, ref,
             ref_h4, astray>>
-----------------------------------------------------------------------------
(* The decoder that reads byte by byte: a header as far as it is known, the *)
(* bytes of payload and of trailer to come.                                *)

RefStart == [header |-> <<>>, payload |-> 0, trailer |-> 0, out |-> <<>>]

PacketLength(hi, lo) == (hi * Base + lo) % Mask

RefByte(r, b) ==
    IF r.payload > 0
    THEN [r EXCEPT !.payload = @ - 1, !.out = Append(@, b),
                   !.trailer = IF r.payload = 1 THEN 2 ELSE 0]
    ELSE IF r.trailer > 0
    THEN [r EXCEPT !.trailer = @ - 1]
    ELSE IF Len(r.header) < 3
    THEN [r EXCEPT !.header = Append(@, b)]
    ELSE LET n == PacketLength(r.header[2], r.header[3])
         IN  IF r.header[1] # Prefix \/ n > Limit
             THEN [r EXCEPT !.header = <<>>]
             ELSE [r EXCEPT !.header = <<>>, !.payload = n,
                            !.trailer = IF n = 0 THEN 2 ELSE 0]

\* The decoder after each of the bytes, from where it was.
RefAfter(r, bytes) ==
    LET after[n \in 0..Len(bytes)] ==
          IF n = 0 THEN r ELSE RefByte(after[n - 1], bytes[n])
    IN  after

RefRead(bytes) == RefAfter([ref EXCEPT !.out = <<>>], bytes)[Len(bytes)]
-----------------------------------------------------------------------------
StpInit ==
    /\ stp_pad = [c \in Cells |-> 0]
    /\ stp_cursor = PadStart /\ stp_dlen = 0
    /\ offered = <<>> /\ left_over = <<>> /\ h4 = <<>>
    /\ ref = RefStart /\ ref_h4 = <<>>
    /\ astray = FALSE

\* btmtkuart_open and btmtkuart_flush, between two calls of receive_buf: what
\* the serial core still holds is dropped with the port or offered afterwards.
StpReset ==
    /\ left_over \in {<<>>, offered}
    /\ left_over' \in {<<>>, left_over} /\ offered' = left_over'
    /\ stp_cursor' = PadStart /\ stp_dlen' = 0
    /\ h4' = <<>>
    /\ ref' = RefStart /\ ref_h4' = <<>>
    /\ astray' = FALSE
    /\ UNCHANGED stp_pad

\* btmtkuart_receive_buf is called with what the port has received.
StpOffer(bytes) ==
    /\ left_over = <<>> /\ bytes # <<>>
    /\ offered' = bytes /\ left_over' = bytes
    /\ h4' = <<>> /\ ref_h4' = <<>>
    /\ UNCHANGED <<stp_pad, stp_cursor, stp_dlen, ref, astray>>

\* mtk_stp_split resets the cursor when the last packet is consumed ...
Cursor0 == IF stp_dlen = 0 /\ stp_cursor >= 6 THEN 0 ELSE stp_cursor

\* ... fills the pad ...
Fill == IF 6 - Cursor0 <= Len(left_over) THEN 6 - Cursor0 ELSE Len(left_over)
Pad1 == [c \in Cells |->
          IF c \in Cursor0..(Cursor0 + Fill - 1)
          THEN left_over[c - Cursor0 + 1] ELSE stp_pad[c]]

\* ... and looks at the header when the pad is full.
Full == stp_dlen = 0 /\ Cursor0 + Fill >= 6
Announced == PacketLength(Pad1[3], Pad1[4])

\* Mutant: any length is accepted.
UnexpectedPrefix == Full /\ Pad1[2] # Prefix

\* The header is dropped for its prefix or its length.
Unexpected == Full /\ (Pad1[2] # Prefix \/ Announced > Limit)

Dlen1 == IF Unexpected THEN 0 ELSE IF Full THEN Announced ELSE stp_dlen
Rest == SubSeq(left_over, Fill + 1, Len(left_over))
ForH4 == IF Len(Rest) <= Dlen1 THEN Len(Rest) ELSE Dlen1

\* Mutant: after an unexpected header a trailer is expected.
Cursor1Trailer == IF Unexpected THEN 0 ELSE Cursor0 + Fill

\* An unexpected header is dropped: the next byte is taken for a prefix.
Cursor1 == IF Unexpected THEN PadStart ELSE Cursor0 + Fill

\* One turn of the loop of btmtkuart_recv; without a byte for H4 it ends.
StpTurn ==
    /\ left_over # <<>>
    /\ stp_pad' = Pad1
    /\ stp_cursor' = Cursor1
    /\ stp_dlen' = Dlen1 - ForH4
    /\ h4' = SubSeq(Rest, 1, ForH4)
    /\ left_over' = SubSeq(Rest, ForH4 + 1, Len(Rest))
    /\ IF astray
       THEN UNCHANGED ref /\ ref_h4' = h4'
       ELSE LET r == RefRead(SubSeq(left_over, 1, Fill + ForH4))
            IN  ref' = [r EXCEPT !.out = <<>>] /\ ref_h4' = r.out
    /\ UNCHANGED <<offered, astray>>

\* The same turn when H4 cannot reassemble a frame: receive_buf returns the
\* error, and the serial core offers the bytes of this call again, those that
\* were looked at included.
StpTurnFails ==
    /\ left_over # <<>>
    /\ ForH4 > 0
    /\ stp_pad' = Pad1
    /\ stp_cursor' = Cursor1
    /\ stp_dlen' = Dlen1 - ForH4
    /\ h4' = <<>> /\ ref_h4' = <<>>
    /\ left_over' = offered
    /\ ref' = RefStart
    /\ astray' = TRUE
    /\ UNCHANGED offered

Pieces == UNION {[1..n -> Bytes] : n \in 1..MaxPiece}

StpNext ==
    \/ StpReset
    \/ \E bytes \in Pieces : StpOffer(bytes)
    \/ StpTurn \/ StpTurnFails

StpSpec == StpInit /\ [][StpNext]_stpVars
-----------------------------------------------------------------------------
\* Every variable keeps to its range: above all the cursor never leaves the
\* six cells of the pad, and a length that was accepted is within the limit.
StpTypeOK ==
    /\ stp_pad \in [Cells -> Bytes]
    /\ stp_cursor \in 0..6
    /\ stp_dlen \in 0..Limit
    /\ offered \in Seq(Bytes) /\ left_over \in Seq(Bytes) /\ h4 \in Seq(Bytes)
    /\ astray \in BOOLEAN

\* However the stream is cut into pieces, and however garbage is mixed into it,
\* H4 is handed the bytes that a decoder reading one byte at a time takes for
\* payload, in the same turn, until H4 itself refuses some.
HandsPayload == h4 = ref_h4
=============================================================================
