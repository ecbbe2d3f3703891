------------------------------ MODULE Observer ------------------------------
(***************************************************************************)
(* The observer (impl_observer.c, uart.c): what the radio receives is      *)
(* copied to the UART as a frame.  The radio's interrupt (priority 6) puts *)
(* a frame into the transmit buffer byte by byte and does not look at what *)
(* app_uart_put returns; the UART's interrupt, which takes the bytes out,  *)
(* has the lowest priority and does not run meanwhile.                     *)
(*                                                                         *)
(* The fields are one unit each, whatever their bytes; a payload is as     *)
(* many units as it has.                                                   *)
(***************************************************************************)
EXTENDS Naturals, Sequences

CONSTANTS
    Capacity,      \* of the transmit buffer: UART_TX_BUF_SIZE, 512
    MaxLength,     \* of a payload: DW1000_RX_BUFFER_SIZE, 512
    MaxReceptions  \* bound on receptions

SizesAssumption == {Capacity, MaxLength, MaxReceptions} \subseteq Nat

VARIABLES
    received,  \* the receptions: the length of each one's payload, or Garbled
    sending,   \* the UART is sending a byte
    fifo,      \* its transmit buffer
    wire       \* what it has sent or is sending
vars == <<received, sending, fifo, wire>>

Garbled == MaxLength + 1
Unit(k, name, i) == [of |-> k, name |-> name, i |-> i]

Init == received = <<>> /\ sending = FALSE /\ fifo = <<>> /\ wire = <<>>

\* mac_rxok_callback_impl: the frame of reception k.
Frame(k, length) ==
    <<Unit(k, "x", 0), Unit(k, "length", 0), Unit(k, "rxts", 0)>>
        \o [i \in 1..length |-> Unit(k, "data", i)]
        \o <<Unit(k, "crc", 0)>>

\* mac_rxerr_callback_impl: a length of zero and nothing else.
ErrorFrame(k) == <<Unit(k, "x", 0), Unit(k, "length", 0)>>

\* Variants: the oldest units make room for a frame; nothing bounds the buffer.
PutNewest(units) ==
    LET all == fifo \o units
        over == IF Len(all) > Capacity THEN Len(all) - Capacity ELSE 0
    IN  /\ fifo' = SubSeq(all, over + 1, Len(all))
        /\ sending' = TRUE /\ wire' = wire
PutUnchecked(units) == fifo' = fifo \o units /\ sending' = TRUE /\ wire' = wire

\* uart_put: what does not fit is dropped.  An idle UART takes the first unit
\* out of the buffer at once.
Put(units) ==
    LET first == IF sending THEN <<>> ELSE SubSeq(units, 1, 1)
        rest == SubSeq(units, Len(first) + 1, Len(units))
        room == Capacity - Len(fifo)
    IN  /\ fifo' = fifo \o SubSeq(rest, 1, IF Len(rest) < room THEN Len(rest) ELSE room)
        /\ wire' = wire \o first
        /\ sending' = TRUE

\* A good reception; one without the two bytes of its check, or longer than
\* the buffer, is dropped by the first test and leaves no trace.
RxOk ==
    /\ Len(received) < MaxReceptions
    /\ \E length \in 0..MaxLength :
         /\ Put(Frame(Len(received) + 1, length))
         /\ received' = Append(received, length)

RxErr ==
    /\ Len(received) < MaxReceptions
    /\ Put(ErrorFrame(Len(received) + 1))
    /\ received' = Append(received, Garbled)

\* The UART's interrupt: a byte is sent, the next one is taken.
TxReady ==
    /\ sending /\ fifo # <<>>
    /\ wire' = Append(wire, Head(fifo)) /\ fifo' = Tail(fifo)
    /\ UNCHANGED <<received, sending>>

TxDone ==
    /\ sending /\ fifo = <<>>
    /\ sending' = FALSE
    /\ UNCHANGED <<received, fifo, wire>>

Next == RxOk \/ RxErr \/ TxReady \/ TxDone

Spec == Init /\ [][Next]_vars

----------------------------------------------------------------------------
(* Properties *)

\* The buffer keeps its bounds and is only used while the UART sends.
TypeOK ==
    /\ received \in Seq(0..Garbled) /\ Len(received) <= MaxReceptions
    /\ sending \in BOOLEAN /\ Len(fifo) <= Capacity
    /\ ~sending => fifo = <<>>

\* What a reader of the line relies on: the checksum ends a whole frame.  A
\* frame that did not fit has lost its end, and with it the checksum.
CrcMeansWhole ==
    LET stream == wire \o fifo IN
    \A i \in 1..Len(stream) :
        stream[i].name = "crc" =>
            LET frame == Frame(stream[i].of, received[stream[i].of])
            IN  i >= Len(frame) /\ SubSeq(stream, i - Len(frame) + 1, i) = frame
=============================================================================
