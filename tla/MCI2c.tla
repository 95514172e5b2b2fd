------------------------------- MODULE MCI2c -------------------------------
(***************************************************************************)
(* Two buses, the first with a pin mux, three addresses of which the       *)
(* kernel refuses one, an unregistered bus name; descriptors for three of  *)
(* the four devices that could be open.  The sizes are those at the limits *)
(* of the handlers' and the driver's checks.                               *)
(***************************************************************************)
EXTENDS I2c, TLC

CONSTANTS fd1, fd2, fd3

MCFd == {fd1, fd2, fd3}
MCI2cBus == {"I2C1", "I2C4"}
MCI2cName == MCI2cBus \cup {"nosuch"}
MCI2cMux == [I2C1 |-> "I2C1", I2C4 |-> NoMux]
MCAddress == {1, 2, 3}
MCSlave == {1, 2}
MCI2cNumbers == {-1, 0, 32, 33}
MCPin == {"gpio2", "gpio3"}
MCGroup == {"I2C1"}
MCGroupPins == [I2C1 |-> MCPin]
MCSourceGroups == [I2C1 |-> {"I2C1"}]

FdSymmetry == Permutations(MCFd)

\* The answer is written by every call and read by none.
NoReply == <<baseVars, i2cVars>>
=============================================================================
