------------------------ MODULE MCPeripheralManager ------------------------
(***************************************************************************)
(* One device of each kind, as the board's HAL wires them: pins apart from *)
(* each other, no callbacks; a GPIO with a pin mux and an adapter besides. *)
(* Two descriptors, so that every pair of devices, of a kind or of two,    *)
(* meets in every order, and the third open finds none.                    *)
(***************************************************************************)
EXTENDS PeripheralManager, TLC

CONSTANTS fd1, fd2

MCFd == {fd1, fd2}

MCGpioPin == {"gpio4"}
MCGpioMux == [gpio4 |-> "gpio4"]

MCSpiBus == {"SPI00"}
MCSpiMux == [SPI00 |-> "SPI00"]
MCMaxHz == 1
MCSpiNumbers == {0}
MCSpiLengths == {0}

MCI2cBus == {"I2C1"}
MCI2cMux == [I2C1 |-> "I2C1"]
MCAddress == {1, 2}
MCI2cNumbers == {0}

MCBspUartMux == [UART1 |-> "UART1"]
MCAdapter == {"ttyUSB0"}
MCUartName == {"UART1", "ttyUSB0"}
MCUartNumbers == {115200}

MCPin == {"gpio2", "gpio4", "gpio7", "gpio14"}
MCGroup == {"SPI00", "I2C1", "UART1"}
MCGroupPins == [SPI00 |-> {"gpio7"}, I2C1 |-> {"gpio2"}, UART1 |-> {"gpio14"}]
MCSourceGroups == [mux \in MCGroup |-> {mux}]
MCNothing == {}

\* A board that lets a GPIO and a source have the same pin.
MCSharedPin == [gpio4 |-> "gpio7"]

FdSymmetry == Permutations(MCFd)

\* A bound: of a chip's four modes the one that the calls here set.
OneMode == \A bus \in SpiBus : spiChip[bus].mode = 0

\* The answer is written by every call and read by none.
NoReply == <<baseVars, gpioVars, spiVars, i2cVars, uartVars>>
=============================================================================
