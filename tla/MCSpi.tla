------------------------------- MODULE MCSpi -------------------------------
(***************************************************************************)
(* Two buses, one with a pin mux, an unregistered name, one descriptor     *)
(* less than the buses would like.  MaxHz is a small number; what counts   *)
(* of a frequency, a mode, a size or a delay is on which side of a limit   *)
(* it lies, so the numbers are those at the limits.                        *)
(***************************************************************************)
EXTENDS Spi, TLC

CONSTANTS fd1, fd2

MCFd == {fd1, fd2}
MCSpiBus == {"SPI0", "SPI1"}
MCSpiName == MCSpiBus \cup {"nosuch"}
MCSpiMux == [SPI0 |-> "SPI0", SPI1 |-> NoMux]
MCMaxHz == 3
\* About the limits of a clock and of a delay.
MCSpiNumbers == {-1, 0, 3, 4, 32768}
MCSpiLengths == {0, 3}
MCPin == {"pin1", "pin2"}
\* One of the two pins of a bus has a callback.
MCCallback == {"pin1"}
MCGroup == {"SPI0"}
MCGroupPins == [SPI0 |-> MCPin]
MCSourceGroups == [SPI0 |-> {"SPI0"}]

FdSymmetry == Permutations(MCFd)

\* The answer is written by every call and read by none.
NoReply == <<baseVars, spiVars>>
=============================================================================
