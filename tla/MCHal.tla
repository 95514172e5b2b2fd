------------------------------- MODULE MCHal --------------------------------
(***************************************************************************)
(* The board of the repository and two adapters.                           *)
(***************************************************************************)
EXTENDS Hal

MCAdapter == {"ttyACM0", "ttyUSB0"}
MCPinName == {Gpio(n) : n \in 1..25}
MCSourceName == {"UART1", "I2C1", "I2C4", "SPI00"}
MCDeviceName == MCPinName \cup MCSourceName \cup MCAdapter
MCNode == 512..569
=============================================================================
