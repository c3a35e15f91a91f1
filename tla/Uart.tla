-------------------------------- MODULE Uart --------------------------------
(***************************************************************************)
(* The receiver of a serial port as usart1284p.c uses it.  The build does  *)
(* not define USART_USE_ISR: nothing takes a byte from the hardware but    *)
(* usart_read and usart_read_wait.  The hardware holds two bytes and a     *)
(* third in its shift register; a byte that comes then takes the place of  *)
(* the third, so of a burst nobody reads, the first two bytes and the last *)
(* remain.                                                                 *)
(***************************************************************************)
EXTENDS Integers, Sequences

Depth == 3

Full(fifo) == Len(fifo) = Depth

(* Mutant: there is always room. *)
ReceiveEndless(fifo, byte) == Append(fifo, byte)
Receive(fifo, byte) ==
  IF Full(fifo) THEN [fifo EXCEPT ![Depth] = byte] ELSE Append(fifo, byte)
=============================================================================
