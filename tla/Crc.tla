-------------------------------- MODULE Crc --------------------------------
(***************************************************************************)
(* The checksum of the observer's frames (crc.c, generated by pycrc): a    *)
(* CRC of 8 bits with polynomial x^8 + x^2 + x + 1, nothing reflected and  *)
(* nothing inverted, computed byte by byte with a table.  It runs beside   *)
(* the division of the message by that polynomial, and beside itself on a  *)
(* copy of the message that the line has damaged.                          *)
(***************************************************************************)
EXTENDS Naturals, Sequences, Bitwise

CONSTANTS
    Bytes,    \* the bytes of a message, a subset of 0..255
    Bursts,   \* the errors of the line, 16 bits over two bytes
    MaxBytes  \* bound on the length of a message

ConstantsAssumption ==
    /\ Bytes \subseteq 0..255 /\ Bursts \subseteq 1..65535 /\ MaxBytes \in Nat

VARIABLES
    crc,      \* the checksum of the message so far
    division, \* the remainder of its division
    bad,      \* the checksum of the damaged copy
    damaged,  \* the copy differs from the message
    left      \* bytes that may follow
vars == <<crc, division, bad, damaged, left>>

crc_table ==
  <<\h00, \h07, \h0e, \h09, \h1c, \h1b, \h12, \h15, \h38, \h3f, \h36, \h31, \h24, \h23, \h2a, \h2d,
    \h70, \h77, \h7e, \h79, \h6c, \h6b, \h62, \h65, \h48, \h4f, \h46, \h41, \h54, \h53, \h5a, \h5d,
    \he0, \he7, \hee, \he9, \hfc, \hfb, \hf2, \hf5, \hd8, \hdf, \hd6, \hd1, \hc4, \hc3, \hca, \hcd,
    \h90, \h97, \h9e, \h99, \h8c, \h8b, \h82, \h85, \ha8, \haf, \ha6, \ha1, \hb4, \hb3, \hba, \hbd,
    \hc7, \hc0, \hc9, \hce, \hdb, \hdc, \hd5, \hd2, \hff, \hf8, \hf1, \hf6, \he3, \he4, \hed, \hea,
    \hb7, \hb0, \hb9, \hbe, \hab, \hac, \ha5, \ha2, \h8f, \h88, \h81, \h86, \h93, \h94, \h9d, \h9a,
    \h27, \h20, \h29, \h2e, \h3b, \h3c, \h35, \h32, \h1f, \h18, \h11, \h16, \h03, \h04, \h0d, \h0a,
    \h57, \h50, \h59, \h5e, \h4b, \h4c, \h45, \h42, \h6f, \h68, \h61, \h66, \h73, \h74, \h7d, \h7a,
    \h89, \h8e, \h87, \h80, \h95, \h92, \h9b, \h9c, \hb1, \hb6, \hbf, \hb8, \had, \haa, \ha3, \ha4,
    \hf9, \hfe, \hf7, \hf0, \he5, \he2, \heb, \hec, \hc1, \hc6, \hcf, \hc8, \hdd, \hda, \hd3, \hd4,
    \h69, \h6e, \h67, \h60, \h75, \h72, \h7b, \h7c, \h51, \h56, \h5f, \h58, \h4d, \h4a, \h43, \h44,
    \h19, \h1e, \h17, \h10, \h05, \h02, \h0b, \h0c, \h21, \h26, \h2f, \h28, \h3d, \h3a, \h33, \h34,
    \h4e, \h49, \h40, \h47, \h52, \h55, \h5c, \h5b, \h76, \h71, \h78, \h7f, \h6a, \h6d, \h64, \h63,
    \h3e, \h39, \h30, \h37, \h22, \h25, \h2c, \h2b, \h06, \h01, \h08, \h0f, \h1a, \h1d, \h14, \h13,
    \hae, \ha9, \ha0, \ha7, \hb2, \hb5, \hbc, \hbb, \h96, \h91, \h98, \h9f, \h8a, \h8d, \h84, \h83,
    \hde, \hd9, \hd0, \hd7, \hc2, \hc5, \hcc, \hcb, \he6, \he1, \he8, \hef, \hfa, \hfd, \hf4, \hf3>>

\* Variant: the table is indexed with the byte alone.
crc_update_byte(c, byte) == crc_table[byte + 1]

\* One round of crc_update; the table of the code starts at 0.
crc_update(c, byte) == crc_table[(c ^^ byte) + 1]

\* The definition the table stands for: eight steps of the division.
Shift(r) == IF r < 128 THEN 2 * r ELSE ((2 * r) % 256) ^^ 7
Divide(r, byte) ==
    LET step[i \in 0..8] == IF i = 0 THEN r ^^ byte ELSE Shift(step[i-1]) IN step[8]

\* crc_init.
Init == crc = 0 /\ division = 0 /\ bad = 0 /\ damaged = FALSE /\ left = MaxBytes

\* A byte that arrives as it was sent.
Take ==
    /\ left > 0 /\ left' = left - 1
    /\ \E byte \in Bytes :
         /\ crc' = crc_update(crc, byte)
         /\ division' = Divide(division, byte)
         /\ bad' = crc_update(bad, byte)
    /\ UNCHANGED damaged

\* Two bytes with a burst of errors.
Damage ==
    /\ ~damaged /\ damaged' = TRUE
    /\ left > 1 /\ left' = left - 2
    /\ \E first, second \in Bytes, burst \in Bursts :
         /\ crc' = crc_update(crc_update(crc, first), second)
         /\ division' = Divide(Divide(division, first), second)
         /\ bad' = crc_update(crc_update(bad, first ^^ (burst \div 256)), second ^^ (burst % 256))

Next == Take \/ Damage

Spec == Init /\ [][Next]_vars

----------------------------------------------------------------------------
(* Properties *)

\* The table computes the division.
TableDivides == crc = division

\* A burst of errors no longer than the checksum is always noticed.
BurstsNoticed == damaged => bad # crc
=============================================================================
