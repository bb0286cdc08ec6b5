----------------------------- MODULE Standalone ------------------------------
(***************************************************************************)
(* The parts of the repository that work without the threads of the        *)
(* kernel: the two delta queues, the byte ring and the device drivers.  A  *)
(* behaviour exercises one of them (part).                                 *)
(***************************************************************************)
EXTENDS Tdqueue, Bytering, Usart, I2c, Sd, Mcp2515

CONSTANT Parts    \* the parts that are exercised

VARIABLE part

vars == <<tqueueVars, tdqueueVars, ringVars, usartVars, i2cVars, sdVars, mcpVars, part>>

Init == /\ TqueueInit /\ TdqueueInit /\ ByteringInit /\ UsartInit /\ I2cInit
        /\ SdInit /\ McpInit
        /\ part \in Parts

OnTqueue == /\ part = "tqueue"
            /\ TqueueStep \/ TqueueCall
            /\ UNCHANGED <<tdqueueVars, ringVars, usartVars, i2cVars, sdVars, mcpVars, part>>

OnTdqueue == /\ part = "tdqueue"
             /\ TdqueueCall
             /\ UNCHANGED <<tqueueVars, ringVars, usartVars, i2cVars, sdVars, mcpVars, part>>

OnRing == /\ part = "ring"
          /\ ByteringStep \/ ByteringCall
          /\ UNCHANGED <<tqueueVars, tdqueueVars, usartVars, i2cVars, sdVars, mcpVars, part>>

OnUsart == /\ part = "usart"
           /\ UsartStep \/ UsartCall
           /\ UNCHANGED <<tqueueVars, tdqueueVars, ringVars, i2cVars, sdVars, mcpVars, part>>

OnI2c == /\ part = "i2c"
         /\ i2c_state_machine \/ I2cCall
         /\ UNCHANGED <<tqueueVars, tdqueueVars, ringVars, usartVars, sdVars, mcpVars, part>>

OnSd == /\ part = "sd"
        /\ SdStep \/ SdCalls
        /\ UNCHANGED <<tqueueVars, tdqueueVars, ringVars, usartVars, i2cVars, mcpVars, part>>

OnCan == /\ part = "can"
         /\ McpStep \/ McpCalls
         /\ UNCHANGED <<tqueueVars, tdqueueVars, ringVars, usartVars, i2cVars, sdVars, part>>

Next == OnTqueue \/ OnTdqueue \/ OnRing \/ OnUsart \/ OnI2c \/ OnSd \/ OnCan

Spec == Init /\ [][Next]_vars

\* A loop of tqueue.c goes on.  The thread, the transmitter and the handlers of the
\* USART get their turn between the characters that arrive.
Fairness ==
  /\ WF_tqueueVars(TqueueStep)
  /\ SF_usartVars(SetField \/ ReadUcsrb \/ WriteUcsrb)
  /\ SF_usartVars(udre_interrupt)
  /\ SF_usartVars(tx_interrupt)
  /\ WF_usartVars(rx_interrupt)
  /\ WF_usartVars(Load)
  /\ SF_usartVars(Sent)

FairSpec == Spec /\ Fairness
==============================================================================
