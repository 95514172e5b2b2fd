------------------------------- MODULE MCUart -------------------------------
(***************************************************************************)
(* One adapter, one uart of the board with a pin mux, an unregistered      *)
(* name.  Three descriptors, which releases do not give back.              *)
(***************************************************************************)
EXTENDS Uart, TLC

CONSTANTS fd1, fd2, fd3

MCFd == {fd1, fd2, fd3}
MCBspUartMux == [UART1 |-> "UART1"]
MCAdapter == {"ttyUSB0"}
MCUartName == {"UART1", "ttyUSB0", "nosuch"}
MCUartNumbers == {-1, 7, 9600, 115200}
MCPin == {"gpio14", "gpio15"}
MCGroup == {"UART1"}
MCGroupPins == [UART1 |-> MCPin]
MCSourceGroups == [UART1 |-> {"UART1"}]

ASSUME MCPinsApart == UartPinsApart

FdSymmetry == Permutations(MCFd)

\* The answer is written by every call and read by none.
NoReply == <<baseVars, uartVars>>
=============================================================================
