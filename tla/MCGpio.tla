------------------------------- MODULE MCGpio -------------------------------
(***************************************************************************)
(* Two pins, one with a mux and one without, an unregistered name, and as  *)
(* many descriptors as it takes to run out of them with both pins open.    *)
(***************************************************************************)
EXTENDS Gpio, TLC

CONSTANTS fd1, fd2, fd3

MCFd == {fd1, fd2, fd3}
MCGpioPin == {"gpio1", "gpio2"}
MCGpioName == MCGpioPin \cup {"nosuch"}
MCGpioMux == [gpio1 |-> "pin1", gpio2 |-> NoMux]
MCPin == {"pin1"}
MCNothing == {}
MCGroupPins == [g \in {} |-> {}]

FdSymmetry == Permutations(MCFd)
=============================================================================
