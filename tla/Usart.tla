-------------------------------- MODULE Usart --------------------------------
(***************************************************************************)
(* The asynchronous transfers of drivers/usart.c on one device: the calls  *)
(* of a thread, the three interrupt handlers, and the transmitter and the  *)
(* receiver of the chip (external).  The thread writes the fields of the   *)
(* context one by one and changes UCSRnB by a read and a write; an         *)
(* interrupt that is pending and enabled is served before its next         *)
(* instruction.                                                            *)
(***************************************************************************)
EXTENDS Integers, Sequences, FiniteSets

CONSTANTS
  TxData,         \* the contents of the buffers given to usart_tx
  RxSizes,        \* the sizes of the buffers given to usart_rx_enable
  Chars,          \* the characters that arrive
  PROMPT,         \* an enabled interrupt is served within a character's time
  EMPTY           \* an empty register

ASSUME UsartAssumption == /\ TxData \subseteq Seq(Chars) \ {<<>>}
                          /\ RxSizes \subseteq Nat \ {0}
                          /\ EMPTY \notin Chars
                          /\ PROMPT \in BOOLEAN

VARIABLES
  ucsrb,          \* the bits that are set in UCSRnB
  tx, rx,         \* usart_async_context.tx and rx: [buf, size, cur]
  hw,             \* [udr, shift, txc, rxc]: the transmit buffer, the transmit
                  \* shift register, the flag TXCn, the receive buffer
  caller,         \* [fn, at, arg, reg]: the call in progress, the field it writes
                  \* next, its argument, what it read from UCSRnB
  line            \* [asked, sent, got]: the data of the transmission asked for,
                  \* the characters sent of it, those received (history)

usartVars == <<ucsrb, tx, rx, hw, caller, line>>

Quiet == [fn |-> "none", at |-> 0, arg |-> <<>>, reg |-> {}]

\* The interrupts that are pending and enabled, in the order of their vectors.
RxPending   == "RXCIE" \in ucsrb /\ hw.rxc # EMPTY
UdrePending == "UDRIE" \in ucsrb /\ hw.udr = EMPTY /\ ~ RxPending
TxPending   == "TXCIE" \in ucsrb /\ hw.txc /\ ~ RxPending /\ ~ UdrePending
NonePending == ~ RxPending /\ ~ UdrePending /\ ~ TxPending

-------------------------------------------------------------------------------
(* The calls.  The thread transmits when its last transmission was notified, *)
(* and gives no other receive buffer while it receives: the three fields     *)
(* would change under the receive interrupt.                                 *)

Calls(fn, arg) == /\ caller = Quiet
                  /\ NonePending
                  /\ caller' = [fn |-> fn, at |-> 1, arg |-> arg, reg |-> {}]
                  /\ UNCHANGED <<ucsrb, tx, rx, hw>>

\* usart_init, before the device is used: the transmitter and the receiver are
\* switched on as its configuration says.
usart_init(config) == /\ caller = Quiet
                      /\ ucsrb = {}
                      /\ ucsrb' = config
                      /\ line' = [line EXCEPT !.got = <<>>]
                      /\ UNCHANGED <<tx, rx, hw, caller>>

usart_tx(data) == /\ line.asked = <<>>
                  /\ Calls("tx", data)
                  /\ line' = [line EXCEPT !.asked = data, !.sent = <<>>]

\* The receiver is on and its interrupt is enabled.
Receiving == {"RXEN", "RXCIE"} \subseteq ucsrb

\* A character that a receiver without interrupt holds is the first of the buffer.
usart_rx_enable(size) ==
  /\ ~ Receiving
  /\ Calls("rx_enable", [i \in 1 .. size |-> EMPTY])
  /\ line' = [line EXCEPT !.got = IF hw.rxc = EMPTY THEN <<>> ELSE <<hw.rxc>>]

usart_rx_disable == /\ "RXEN" \in ucsrb
                    /\ Calls("rx_disable", <<>>)
                    /\ UNCHANGED line

Field(x, at) == CASE at = 1 -> [x EXCEPT !.buf  = caller.arg]
                  [] at = 2 -> [x EXCEPT !.size = Len(caller.arg)]
                  [] at = 3 -> [x EXCEPT !.cur  = 0]

\* Those assignments without that of the cursor of usart_tx.
SetField_NoCursor ==
  /\ NonePending
  /\ caller.fn \in {"tx", "rx_enable"}
  /\ caller.at \in 1 .. 3
  /\ tx' = IF caller.fn = "tx" /\ caller.at # 3 THEN Field(tx, caller.at) ELSE tx
  /\ rx' = IF caller.fn = "rx_enable" THEN Field(rx, caller.at) ELSE rx
  /\ caller' = [caller EXCEPT !.at = @ + 1]
  /\ UNCHANGED <<ucsrb, hw, line>>

\* The assignments of usart_tx and of usart_rx_enable.
SetField ==
  /\ NonePending
  /\ caller.fn \in {"tx", "rx_enable"}
  /\ caller.at \in 1 .. 3
  /\ tx' = IF caller.fn = "tx" THEN Field(tx, caller.at) ELSE tx
  /\ rx' = IF caller.fn = "rx_enable" THEN Field(rx, caller.at) ELSE rx
  /\ caller' = [caller EXCEPT !.at = @ + 1]
  /\ UNCHANGED <<ucsrb, hw, line>>

\* SET_BIT and CLR_BIT on UCSRnB: the read.
ReadUcsrb ==
  /\ NonePending
  /\ caller.at = IF caller.fn = "rx_disable" THEN 1 ELSE 4
  /\ caller' = [caller EXCEPT !.at = 5, !.reg = ucsrb]
  /\ UNCHANGED <<ucsrb, tx, rx, hw, line>>

\* The write, with which the call returns.  Switching the receiver off flushes it.
WriteUcsrb ==
  /\ NonePending
  /\ caller.at = 5
  /\ ucsrb' = CASE caller.fn = "tx"         -> caller.reg \cup {"TXEN", "UDRIE", "TXCIE"}
                [] caller.fn = "rx_enable"  -> caller.reg \cup {"RXEN", "RXCIE"}
                [] caller.fn = "rx_disable" -> caller.reg \ {"RXEN"}
  /\ hw' = IF caller.fn = "rx_disable" THEN [hw EXCEPT !.rxc = EMPTY] ELSE hw
  /\ caller' = Quiet
  /\ UNCHANGED <<tx, rx, line>>

-------------------------------------------------------------------------------
(* The interrupt handlers; taking the transmit interrupt clears TXCn. *)

\* The cursor is not set back when the buffer is full.
rx_interrupt_NoReset ==
  /\ RxPending
  /\ hw' = [hw EXCEPT !.rxc = EMPTY]
  /\ rx' = [rx EXCEPT !.buf = IF rx.cur < rx.size THEN [@ EXCEPT ![rx.cur + 1] = hw.rxc] ELSE @,
                      !.cur = @ + 1]
  /\ line' = [line EXCEPT !.got = IF rx.cur + 1 = rx.size THEN <<>> ELSE @]
  /\ UNCHANGED <<ucsrb, tx, caller>>

\* A full buffer is given to the callback and filled again from its start.
rx_interrupt ==
  LET full == rx.cur + 1 = rx.size
  IN  /\ RxPending
      /\ hw' = [hw EXCEPT !.rxc = EMPTY]
      /\ rx' = [rx EXCEPT !.buf[rx.cur + 1] = hw.rxc,
                          !.cur = IF full THEN 0 ELSE @ + 1]
      /\ line' = [line EXCEPT !.got = IF full THEN <<>> ELSE @]
      /\ UNCHANGED <<ucsrb, tx, caller>>

udre_interrupt ==
  /\ UdrePending
  /\ IF tx.cur < tx.size
       THEN /\ hw' = [hw EXCEPT !.udr = tx.buf[tx.cur + 1]]
            /\ tx' = [tx EXCEPT !.cur = @ + 1]
            /\ UNCHANGED ucsrb
       ELSE /\ ucsrb' = ucsrb \ {"UDRIE"}
            /\ UNCHANGED <<hw, tx>>
  /\ UNCHANGED <<rx, caller, line>>

\* USART_EVENT_TX_COMPLETE: the thread is told that its buffer is free.
tx_interrupt ==
  /\ TxPending
  /\ hw' = [hw EXCEPT !.txc = FALSE]
  /\ IF tx.cur = tx.size
       THEN /\ tx' = [tx EXCEPT !.size = 0]
            /\ line' = [line EXCEPT !.asked = <<>>]
       ELSE UNCHANGED <<tx, line>>
  /\ UNCHANGED <<ucsrb, rx, caller>>

-------------------------------------------------------------------------------
(* The chip (external). *)

InTime == PROMPT => NonePending

\* The transmit buffer moves to the empty shift register.
Load == /\ hw.udr # EMPTY
        /\ hw.shift = EMPTY
        /\ hw' = [hw EXCEPT !.shift = hw.udr, !.udr = EMPTY]
        /\ UNCHANGED <<ucsrb, tx, rx, caller, line>>

\* A character has been sent; TXCn is set when no other one is waiting.
Sent == /\ InTime
        /\ hw.shift # EMPTY
        /\ hw' = [hw EXCEPT !.shift = EMPTY, !.txc = @ \/ hw.udr = EMPTY]
        /\ line' = [line EXCEPT !.sent = Append(@, hw.shift)]
        /\ UNCHANGED <<ucsrb, tx, rx, caller>>

Arrives(c) == /\ InTime
              /\ "RXEN" \in ucsrb
              /\ hw.rxc = EMPTY
              /\ hw' = [hw EXCEPT !.rxc = c]
              /\ line' = [line EXCEPT !.got = Append(@, c)]
              /\ UNCHANGED <<ucsrb, tx, rx, caller>>

-------------------------------------------------------------------------------
\* After a reset of the chip.
UsartInit == /\ ucsrb = {}
             /\ tx = [buf |-> <<>>, size |-> 0, cur |-> 0]
             /\ rx = [buf |-> <<>>, size |-> 0, cur |-> 0]
             /\ hw = [udr |-> EMPTY, shift |-> EMPTY, txc |-> FALSE, rxc |-> EMPTY]
             /\ caller = Quiet
             /\ line = [asked |-> <<>>, sent |-> <<>>, got |-> <<>>]

UsartStep == \/ SetField \/ ReadUcsrb \/ WriteUcsrb
             \/ rx_interrupt \/ udre_interrupt \/ tx_interrupt \/ Load \/ Sent

UsartCall == \/ \E config \in SUBSET {"TXEN", "RXEN"} : usart_init(config)
             \/ usart_rx_disable
             \/ \E d \in TxData : usart_tx(d)
             \/ \E n \in RxSizes : usart_rx_enable(n)
             \/ \E c \in Chars : Arrives(c)

UsartSpec == UsartInit /\ [][UsartStep \/ UsartCall]_usartVars

\* TX_COMPLETE is notified exactly when the whole buffer has left the chip, each
\* character once and in order, although the buffer is refilled by one interrupt and
\* its end is seen by another, and UCSRnB is rewritten by the thread in between.
TxNotified ==
  /\ \E n \in 0 .. Len(line.asked) : line.asked # <<>> => line.sent = SubSeq(line.asked, 1, n)
  /\ TxPending /\ tx.cur = tx.size => line.sent = line.asked /\ line.asked # <<>>

\* The receive buffer is filled in the order of arrival and never past its end: the
\* characters that arrived since it was last full are its first ones.
RxInOrder ==
  Receiving =>
    LET got == IF hw.rxc = EMPTY THEN line.got ELSE SubSeq(line.got, 1, Len(line.got) - 1)
    IN  /\ rx.cur = Len(got)
        /\ rx.cur < rx.size
        /\ SubSeq(rx.buf, 1, rx.cur) = got

\* Every transmission is notified.
TxEnds == (line.asked # <<>>) ~> (line.asked = <<>>)
==============================================================================
