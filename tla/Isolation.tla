----------------------------- MODULE Isolation -----------------------------
(***************************************************************************)
(* What the service promises of its devices, whatever they are made of: a  *)
(* device is open or it is not; a step concerns one device; and what the   *)
(* hardware does for a device changes only on behalf of whoever has that   *)
(* device open, or because somebody pulled it.  When the process ends no   *)
(* device is open, and the hardware does what it did.                      *)
(***************************************************************************)
CONSTANTS Device,      \* all the devices
          Removable,   \* those somebody may pull
          Fresh        \* what the hardware does for one that was pulled

VARIABLES opened,      \* the devices that are open
          hardware     \* [Device -> what the hardware does for it]

vars == <<opened, hardware>>

\* Nothing but d's hardware changes.
OnlyHardwareOf(d) ==
  hardware' = [e \in Device |-> IF e = d THEN hardware'[e] ELSE hardware[e]]

Init == /\ opened = {}
        /\ hardware = [d \in Device |-> hardware[d]]

Open(d) == /\ d \notin opened
           /\ opened' = opened \cup {d}
           /\ OnlyHardwareOf(d)

Close(d) == /\ d \in opened
            /\ opened' = opened \ {d}
            /\ UNCHANGED hardware

Use(d) == /\ d \in opened
          /\ OnlyHardwareOf(d)
          /\ UNCHANGED opened

Pull(d) == /\ d \in Removable
           /\ hardware' = [hardware EXCEPT ![d] = Fresh]
           /\ UNCHANGED opened

Crash == /\ opened' = {}
         /\ UNCHANGED hardware

Next == \/ \E d \in Device : Open(d) \/ Close(d) \/ Use(d) \/ Pull(d)
        \/ Crash

Spec == Init /\ [][Next]_vars
=============================================================================
