-------------------------- MODULE EventLoopProofs ---------------------------
(***************************************************************************)
(* For any number of clients and any calls of theirs: the loop that serves *)
(* them does to the devices what PeripheralManager says, call by call, so  *)
(* that what is proved of the whole service holds behind it; the handler   *)
(* it waits in keeps its device, whatever the other clients have sent      *)
(* meanwhile; and no client is passed over more than twice for another.    *)
(***************************************************************************)
EXTENDS Overtaking, PeripheralManagerProofs

\* A connection in a round has a call, and the loop waits in one whose client is
\* not in the round any more.
EventLoopInv ==
  /\ pending \in [Client -> Request \cup {NoCall}]
  /\ round \subseteq Ready
  /\ WaitingCallIsPending

\* A call that is handled is a step of Uart: its payload is one a client may send.
LEMMA HandleIsUartStep ==
  ASSUME running, NEW call \in Request, HandleUart(call)
  PROVE  UartNext
  <1>1. /\ call.name \in UartName /\ call.canonical \in BOOLEAN
        /\ call.number \in UartNumbers
    BY EventLoopAssumption
  <1>2. CASE ListUartDevices(Object({}))
    <2>1. Object({}) \in Payloads({"subscribe"}, {})
      BY DEF Payloads
    <2> QED BY <1>2, <2>1 DEF UartNext
  <1>3. CASE OpenUartDevice(Object({"interfaceId"} \cup {"config"}), call.name,
                            call.canonical)
    <2>1. Object({"interfaceId"} \cup {"config"})
            \in Payloads({"interfaceId", "config"}, {"interfaceId"})
      <3>1. {"interfaceId"} \cup {"config"} = {"interfaceId", "config"}
        OBVIOUS
      <3> QED BY <3>1 DEF Payloads
    <2> QED BY <1>1, <1>3, <2>1 DEF UartNext
  <1>4. CASE ReleaseUartDevice(Object({"interfaceId"}), call.name)
    <2>1. Object({"interfaceId"}) \in Payloads({"interfaceId"}, {"interfaceId"})
      BY DEF Payloads
    <2> QED BY <1>1, <1>4, <2>1 DEF UartNext
  <1>5. CASE UartDeviceRead(Object({"interfaceId"} \cup {"size", "dataType"}),
                            call.name, call.number)
    <2>1. Object({"interfaceId"} \cup {"size", "dataType"})
            \in Payloads({"size", "interfaceId", "dataType"}, {"interfaceId"})
      <3>1. {"interfaceId"} \cup {"size", "dataType"}
              = {"size", "interfaceId", "dataType"}
        OBVIOUS
      <3> QED BY <3>1 DEF Payloads
    <2> QED BY <1>1, <1>5, <2>1 DEF UartNext
  <1>6. CASE UartDeviceWrite(Object({"interfaceId"} \cup {"data", "dataType", "size"}),
                             call.name)
    <2> DEFINE keys == {"data", "interfaceId", "dataType", "size"}
    <2>1. Object({"interfaceId"} \cup {"data", "dataType", "size"})
            \in Payloads(keys, keys)
      <3>1. {"interfaceId"} \cup {"data", "dataType", "size"} = keys
        OBVIOUS
      <3> QED BY <3>1 DEF Payloads
    <2> QED BY <1>1, <1>6, <2>1 DEF UartNext
  <1>7. CASE SetUartDeviceBaudrate(Object({"interfaceId"} \cup {"baudrate"}),
                                   call.name, call.number)
    <2> DEFINE keys == {"interfaceId", "baudrate"}
    <2>1. Object({"interfaceId"} \cup {"baudrate"}) \in Payloads(keys, keys)
      <3>1. {"interfaceId"} \cup {"baudrate"} = keys
        OBVIOUS
      <3> QED BY <3>1 DEF Payloads
    <2> QED BY <1>1, <1>7, <2>1 DEF UartNext
  <1>8. CASE GetBaudrate(Object({"interfaceId"}), call.name)
    <2>1. Object({"interfaceId"}) \in Payloads({"interfaceId"}, {"interfaceId"})
      BY DEF Payloads
    <2> QED BY <1>1, <1>8, <2>1 DEF UartNext
  <1>9. CASE GetuartPollingFd(Object({"id"}), call.name)
    <2>1. Object({"id"}) \in Payloads({"id"}, {"id"})
      BY DEF Payloads
    <2> QED BY <1>1, <1>9, <2>1 DEF UartNext
  <1> QED
    BY <1>2, <1>3, <1>4, <1>5, <1>6, <1>7, <1>8, <1>9 DEF HandleUart

\* A call of another kind does not wait.
LEMMA OtherKindsDoNotWait ==
  ASSUME running, GpioStep \/ SpiStep \/ I2cStep
  PROVE  loop' # "blocked"
  <1>1. CASE GpioStep \/ I2cStep
    BY <1>1, GpioEffects, I2cEffects DEF GpioStep, I2cStep, running
  <1>2. CASE SpiStep
    <2>1. SpiNext
      BY <1>2 DEF SpiStep
    <2>2. CASE \E request, bus : \/ OpenSpiDevice(request, bus)
                                 \/ ReleaseSpiDevice(request, bus)
      BY <2>2 DEF OpenSpiDevice, ReleaseSpiDevice, running
    <2>3. CASE \/ \E request : ListSpiBuses(request)
               \/ \E request, bus : \/ SpiDeviceWriteByte(request, bus)
                                    \/ SpiDeviceWriteBuffer(request, bus)
      BY <2>3
         DEF ListSpiBuses, SpiDeviceWriteByte, SpiDeviceWriteBuffer, baseVars, running
    <2>4. CASE \E request, bus, n : \/ SpiDeviceSetMode(request, bus, n)
                                    \/ SpiDeviceSetBitJustification(request, bus, n)
      BY <2>4 DEF SpiDeviceSetMode, SpiDeviceSetBitJustification, baseVars, running
    <2>5. CASE \E request, bus, n : \/ SpiDeviceSetFrequency(request, bus, n)
                                    \/ SpiDeviceSetBitsPerWord(request, bus, n)
                                    \/ SpiDeviceSetDelay(request, bus, n)
      BY <2>5
         DEF SpiDeviceSetFrequency, SpiDeviceSetBitsPerWord, SpiDeviceSetDelay,
             baseVars, running
    <2>6. CASE \E request, bus, sent, size : SpiDeviceTransfer(request, bus, sent, size)
      BY <2>6 DEF SpiDeviceTransfer, ClientTransfer, running
    <2> QED BY <2>1, <2>2, <2>3, <2>4, <2>5, <2>6 DEF SpiNext
  <1> QED BY <1>1, <1>2

\* A handler that leaves the loop waiting waits for the device of its call, which
\* is open unless the call is to open it.
LEMMA HandleThatWaits ==
  ASSUME running, NEW call, Handle(call), loop' = "blocked"
  PROVE  /\ waiting'[2] = call.name
         /\ waiting'[1] # "OpenUartDevice" => waiting'[2] \in uarts'
  <1>1. ASSUME NEW request, ListUartDevices(request) PROVE FALSE
    BY <1>1 DEF running, ListUartDevices, baseVars
  <1>2. ASSUME NEW request, NEW name, ReleaseUartDevice(request, name) PROVE FALSE
    BY <1>2 DEF running, ReleaseUartDevice
  <1>3. ASSUME NEW request, NEW name, NEW canonical,
               OpenUartDevice(request, name, canonical)
        PROVE  waiting'[1] = "OpenUartDevice" /\ waiting'[2] = name
    BY <1>3 DEF running, OpenUartDevice, Wait
  <1>4. ASSUME NEW request, NEW name, NEW size,
               UartDeviceRead(request, name, size) \/ UartDeviceWrite(request, name)
        PROVE  waiting'[2] = name /\ name \in uarts'
    <2>1. UNCHANGED uarts
      BY <1>4 DEF UartDeviceRead, UartDeviceWrite
    <2>2. CASE UartDeviceWrite(request, name)
      <3>1. MayWait(name) /\ Wait("UartDeviceWrite", name, TRUE)
        BY <2>2 DEF running, UartDeviceWrite
      <3> QED BY <2>1, <3>1 DEF Wait, MayWait
    <2>3. CASE UartDeviceRead(request, name, size)
      <3>1. MayWait(name) /\ Wait("UartDeviceRead", name, TRUE)
        BY <2>3 DEF running, UartDeviceRead
      <3> QED BY <2>1, <3>1 DEF Wait, MayWait
    <2> QED BY <1>4, <2>2, <2>3
  <1>5. ASSUME NEW request, NEW name, NEW rate,
               \/ SetUartDeviceBaudrate(request, name, rate)
               \/ GetBaudrate(request, name) \/ GetuartPollingFd(request, name)
        PROVE  FALSE
    BY <1>5
       DEF running, SetUartDeviceBaudrate, GetBaudrate, GetuartPollingFd, baseVars
  <1> QED
    BY <1>1, <1>2, <1>3, <1>4, <1>5, OtherKindsDoNotWait DEF Handle, HandleUart

\* The invariant holds when the process starts for the first time.
LEMMA EventLoopInitInv == EventLoopInit => EventLoopInv
  BY DEF EventLoopInit, EventLoopInv, Idle, Init, ServiceInit,
         WaitingCallIsPending

\* A dispatched call is answered, waits, or ends the process.
LEMMA DispatchKeepsInv ==
  ASSUME EventLoopInv, NEW c \in Client, Dispatch(c)
  PROVE  EventLoopInv'
  <1>1. running /\ c \in round /\ Handle(pending[c]) /\ pending[c] # NoCall
    BY DEF Dispatch, EventLoopInv, Ready
  <1>2. CASE /\ loop' = "running" /\ round' = round \ {c}
             /\ pending' = [pending EXCEPT ![c] = NoCall] /\ UNCHANGED caller
    BY <1>1, <1>2 DEF EventLoopInv, Ready, WaitingCallIsPending, running
  <1>3. CASE /\ loop' = "blocked" /\ round' = round \ {c} /\ caller' = c
             /\ UNCHANGED pending
    BY <1>1, <1>3, HandleThatWaits DEF EventLoopInv, Ready, WaitingCallIsPending
  <1>4. CASE loop' = "down" /\ Ended({"failure", "clean"})
    BY <1>4 DEF Ended, Idle, EventLoopInv, WaitingCallIsPending
  <1> QED BY <1>2, <1>3, <1>4 DEF Dispatch

\* The invariant is inductive.
LEMMA EventLoopNextKeepsInv ==
  ASSUME EventLoopInv, [EventLoopNext]_eventLoopVars
  PROVE  EventLoopInv'
  <1>1. CASE UNCHANGED eventLoopVars
    BY <1>1
       DEF eventLoopVars, loopVars, vars, baseVars, uartVars, EventLoopInv, Ready,
           WaitingCallIsPending
  <1>2. ASSUME NEW c \in Client, NEW call \in Request, Send(c, call)
        PROVE  EventLoopInv'
    BY <1>2, EventLoopAssumption
       DEF Send, vars, baseVars, uartVars, EventLoopInv, Ready, WaitingCallIsPending,
           NoCall, Method
  <1>3. CASE Iterate
    BY <1>3 DEF Iterate, vars, baseVars, uartVars, EventLoopInv, Ready,
                WaitingCallIsPending, running
  <1>4. CASE Resume
    BY <1>4 DEF Resume, UartResume, EventLoopInv, Ready, WaitingCallIsPending
  <1>5. CASE Fail
    BY <1>5 DEF Fail, Crash, Die, Ended, Idle, EventLoopInv, WaitingCallIsPending
  <1>6. CASE RestartOnFailure
    BY <1>6 DEF RestartOnFailure, Restart, Reboot, alive, EventLoopInv, Ready,
                WaitingCallIsPending
  <1>7. CASE Adapters
    BY <1>7 DEF Adapters, Plug, Unplug, baseVars, loopVars, EventLoopInv, Ready,
                WaitingCallIsPending
  <1> QED
    BY <1>1, <1>2, <1>3, <1>4, <1>5, <1>6, <1>7, DispatchKeepsInv
       DEF EventLoopNext, LoopStep

\* A step of the loop is one of the service's, or leaves the devices alone.
LEMMA EventLoopStepIsServiceStep ==
  ASSUME EventLoopInv, [EventLoopNext]_eventLoopVars
  PROVE  [Next]_vars
  <1>1. CASE UNCHANGED vars
    BY <1>1
  <1>2. ASSUME NEW c \in Client, Dispatch(c)
        PROVE  Next
    <2>1. pending[c] \in Request /\ running /\ Handle(pending[c])
      BY <1>2 DEF Dispatch, EventLoopInv, Ready
    <2>2. CASE HandleUart(pending[c]) /\ UNCHANGED <<gpioVars, spiVars, i2cVars>>
      BY <2>1, <2>2, HandleIsUartStep DEF UartStep, Next
    <2> QED BY <2>1, <2>2 DEF Handle, Next
  <1>3. CASE Resume \/ Adapters
    <2>1. UartNext /\ UNCHANGED <<gpioVars, spiVars, i2cVars>>
      BY <1>3 DEF Resume, Adapters, UartNext
    <2> QED BY <2>1 DEF UartStep, Next
  <1>4. CASE Fail \/ RestartOnFailure
    BY <1>4 DEF Fail, RestartOnFailure, Next
  <1>5. CASE (\E c \in Client, call \in Request : Send(c, call)) \/ Iterate
    BY <1>1, <1>5 DEF Send, Iterate
  <1> QED
    BY <1>1, <1>2, <1>3, <1>4, <1>5 DEF EventLoopNext, LoopStep, eventLoopVars

\* The invariant holds throughout.
THEOREM EventLoopInvariant == EventLoopSpec => []EventLoopInv
  <1>1. EventLoopInit => EventLoopInv
    BY EventLoopInitInv
  <1>2. EventLoopInv /\ [EventLoopNext]_eventLoopVars => EventLoopInv'
    BY EventLoopNextKeepsInv
  <1> QED BY <1>1, <1>2, PTL DEF EventLoopSpec

\* No client's call, and no end of the process, takes a device away from under
\* the handler that waits for it, however many clients call and whatever they ask.
THEOREM WaitingCallKeepsDevice == EventLoopSpec => []WaitingCallIsPending
  <1>1. EventLoopInv => WaitingCallIsPending
    BY DEF EventLoopInv
  <1> QED BY <1>1, EventLoopInvariant, PTL

\* The loop implements the service: dispatching calls in rounds, between clients,
\* waiting and ending with a status add no behaviour to what PeripheralManager says.
THEOREM EventLoopImplementsService == EventLoopSpec => Spec
  <1>1. EventLoopInit => Init
    BY DEF EventLoopInit
  <1>2. EventLoopInv /\ [EventLoopNext]_eventLoopVars => [Next]_vars
    BY EventLoopStepIsServiceStep
  <1> QED BY <1>1, <1>2, EventLoopInvariant, PTL DEF EventLoopSpec, Spec

\* So the clients' devices stay apart while they take turns, wait and are cut off:
\* no client's calls change a device that nobody has open, or two at once.
THEOREM EventLoopIsolated == EventLoopSpec => DevicesIsolated
  BY EventLoopImplementsService, PmIsolated, PTL

\* And so do the descriptors.
THEOREM EventLoopDescriptorsCorrect == EventLoopSpec => []DriversOwnDescriptors
  BY EventLoopImplementsService, PmDescriptorsCorrect, PTL

\* And the pins: what a client's device claims no other client's calls take from it.
THEOREM EventLoopPinsHeld ==
  ASSUME NamesApart
  PROVE  EventLoopSpec => []PinsHeld
  BY EventLoopImplementsService, PmPinsHeld, PTL

\* On a board like the one of HAL.cpp the pins in use are accounted for, whatever the
\* clients ask, however the process ends and whenever it is started again.
THEOREM EventLoopPinsAccounted ==
  ASSUME PinsApart
  PROVE  EventLoopSpec => []PinsAccounted
  BY EventLoopImplementsService, PmPinsAccounted, PTL
-----------------------------------------------------------------------------
\* The history: d may still be answered before the next round is made up.
HasTurn(d) == d \in round \/ (loop = "blocked" /\ d = caller)

Turn(d) == IF HasTurn(d) THEN 1 ELSE 0

\* A call is overtaken at most once by each client until it gets into a round, by
\* what that client still has in the round before, and once more in its own; a
\* turn that is still to come counts already.
OvertakenInv ==
  /\ overtaken \in [Client -> [Client -> Nat]]
  /\ \A c, d \in Client :
       overtaken[c][d] + Turn(d) <= (IF HasTurn(c) THEN 2 ELSE 1)

\* What the step makes of one count.
LEMMA CountOf ==
  ASSUME Count, OvertakenInv
  PROVE  /\ overtaken' \in [Client -> [Client -> Nat]]
         /\ \A c, d \in Client :
              /\ pending'[c] = NoCall => overtaken'[c][d] = 0
              /\ overtaken'[c][d] \in {0, overtaken[c][d], overtaken[c][d] + 1}
              /\ ~ Answered(d) => overtaken'[c][d] \in {0, overtaken[c][d]}
  <1>1. \A c, d \in Client : overtaken[c][d] \in Nat
    BY DEF OvertakenInv
  <1>2. \A c, d \in Client :
          /\ pending'[c] = NoCall => overtaken'[c][d] = 0
          /\ overtaken'[c][d] \in {0, overtaken[c][d], overtaken[c][d] + 1}
          /\ ~ Answered(d) => overtaken'[c][d] \in {0, overtaken[c][d]}
    BY DEF Count
  <1>3. \A c, d \in Client : overtaken'[c][d] \in Nat
    BY <1>1, <1>2
  <1> QED BY <1>2, <1>3 DEF Count

\* A step that answers nobody and gives nobody a turn keeps the counts.
LEMMA NobodyAnswered ==
  ASSUME OvertakenInv, Count,
         \A d \in Client : ~ Answered(d),
         \A d \in Client : HasTurn(d)' <=> HasTurn(d)
  PROVE  OvertakenInv'
  <1> SUFFICES ASSUME NEW c \in Client, NEW d \in Client
               PROVE  (overtaken[c][d] + Turn(d) <= (IF HasTurn(c) THEN 2 ELSE 1))'
    BY CountOf DEF OvertakenInv
  <1>1. /\ overtaken[c][d] \in Nat
        /\ overtaken[c][d] + Turn(d) <= (IF HasTurn(c) THEN 2 ELSE 1)
        /\ overtaken'[c][d] = 0 \/ overtaken'[c][d] = overtaken[c][d]
    BY CountOf DEF OvertakenInv
  <1> QED BY <1>1 DEF Turn

\* A step that answers one client, whose turn it is, and gives nobody else a turn
\* keeps the counts: the turn has become an answer.
LEMMA OneAnswered ==
  ASSUME OvertakenInv, Count,
         NEW a \in Client, HasTurn(a), ~ HasTurn(a)',
         pending'[a] = NoCall,
         \A d \in Client \ {a} : pending'[d] = pending[d],
         \A d \in Client \ {a} : HasTurn(d)' <=> HasTurn(d)
  PROVE  OvertakenInv'
  <1> SUFFICES ASSUME NEW c \in Client, NEW d \in Client
               PROVE  (overtaken[c][d] + Turn(d) <= (IF HasTurn(c) THEN 2 ELSE 1))'
    BY CountOf DEF OvertakenInv
  <1>1. /\ overtaken[c][d] \in Nat
        /\ overtaken[c][d] + Turn(d) <= (IF HasTurn(c) THEN 2 ELSE 1)
    BY DEF OvertakenInv
  <1>2. CASE c = a
    <2>1. overtaken'[c][d] = 0
      BY <1>2, CountOf
    <2> QED BY <1>2, <2>1 DEF Turn
  <1>3. CASE c # a /\ d = a
    <2>1. overtaken'[c][d] \in {0, overtaken[c][d], overtaken[c][d] + 1}
      BY CountOf
    <2> QED BY <1>1, <1>3, <2>1 DEF Turn
  <1>4. CASE c # a /\ d # a
    <2>1. ~ Answered(d)
      BY <1>4 DEF Answered
    <2>2. overtaken'[c][d] \in {0, overtaken[c][d]}
      BY <2>1, CountOf
    <2> QED BY <1>1, <1>4, <2>2 DEF Turn
  <1> QED BY <1>2, <1>3, <1>4

\* The process has ended: nobody has a call or a turn any more.
LEMMA AllAnswered ==
  ASSUME OvertakenInv, Count, NEW how, Ended(how), loop' = "down"
  PROVE  OvertakenInv'
  <1> SUFFICES ASSUME NEW c \in Client, NEW d \in Client
               PROVE  (overtaken[c][d] + Turn(d) <= (IF HasTurn(c) THEN 2 ELSE 1))'
    BY CountOf DEF OvertakenInv
  <1>1. overtaken'[c][d] = 0
    BY CountOf DEF Ended, Idle
  <1>2. ~ HasTurn(c)' /\ ~ HasTurn(d)'
    BY DEF HasTurn, Ended
  <1> QED BY <1>1, <1>2 DEF Turn

\* A new round: whoever has a call has a turn in it, and nobody had one before.
LEMMA NewRound ==
  ASSUME OvertakenInv, Count, Iterate
  PROVE  OvertakenInv'
  <1> SUFFICES ASSUME NEW c \in Client, NEW d \in Client
               PROVE  (overtaken[c][d] + Turn(d) <= (IF HasTurn(c) THEN 2 ELSE 1))'
    BY CountOf DEF OvertakenInv
  <1>1. ~ HasTurn(c) /\ ~ HasTurn(d) /\ UNCHANGED pending
    BY DEF Iterate, HasTurn, running
  <1>2. overtaken[c][d] \in Nat /\ overtaken[c][d] <= 1
    BY <1>1 DEF OvertakenInv, Turn
  <1>3. CASE c \in Ready
    <2>1. HasTurn(c)'
      BY <1>3 DEF Iterate, HasTurn
    <2>2. overtaken'[c][d] \in {0, overtaken[c][d]}
      BY <1>1, CountOf DEF Answered
    <2> QED BY <1>2, <2>1, <2>2 DEF Turn
  <1>4. CASE c \notin Ready
    <2>1. overtaken'[c][d] = 0
      BY <1>1, <1>4, CountOf DEF Ready
    <2> QED BY <2>1 DEF Turn
  <1> QED BY <1>3, <1>4

\* The invariant of the history is inductive.
LEMMA OvertakingNextKeepsInv ==
  ASSUME EventLoopInv, OvertakenInv, [OvertakingNext]_overtakingVars
  PROVE  OvertakenInv'
  <1>1. CASE UNCHANGED overtakingVars
    <2>1. UNCHANGED <<overtaken, round, caller, loop>>
      BY <1>1 DEF overtakingVars, eventLoopVars, loopVars, vars, baseVars
    <2> QED BY <2>1 DEF OvertakenInv, Turn, HasTurn
  <1>2. CASE OvertakingNext
    <2>1. Count /\ EventLoopNext
      BY <1>2 DEF OvertakingNext
    <2>2. ASSUME NEW c \in Client, NEW call \in Request, Send(c, call)
          PROVE  OvertakenInv'
      <3>1. UNCHANGED <<round, caller, loop>>
        BY <2>2 DEF Send, vars, baseVars
      <3>2. \A d \in Client : ~ Answered(d)
        BY <2>2 DEF Send, Answered, EventLoopInv
      <3> QED BY <2>1, <3>1, <3>2, NobodyAnswered DEF HasTurn
    <2>3. CASE Iterate
      BY <2>1, <2>3, NewRound
    <2>4. ASSUME NEW c \in Client, Dispatch(c)
          PROVE  OvertakenInv'
      <3>1. c \in round /\ running
        BY <2>4 DEF Dispatch
      <3>2. CASE /\ loop' = "running" /\ round' = round \ {c}
                 /\ pending' = [pending EXCEPT ![c] = NoCall] /\ UNCHANGED caller
        <4>1. pending'[c] = NoCall /\ \A d \in Client \ {c} : pending'[d] = pending[d]
          BY <3>2 DEF EventLoopInv
        <4>2. /\ HasTurn(c) /\ ~ HasTurn(c)'
              /\ \A d \in Client \ {c} : HasTurn(d)' <=> HasTurn(d)
          BY <3>1, <3>2 DEF HasTurn, running
        <4> QED BY <2>1, <4>1, <4>2, OneAnswered
      <3>3. CASE /\ loop' = "blocked" /\ round' = round \ {c} /\ caller' = c
                 /\ UNCHANGED pending
        BY <2>1, <3>1, <3>3, NobodyAnswered DEF HasTurn, running, Answered
      <3>4. CASE loop' = "down" /\ Ended({"failure", "clean"})
        BY <2>1, <3>4, AllAnswered
      <3> QED BY <2>4, <3>2, <3>3, <3>4 DEF Dispatch
    <2>5. CASE Resume
      <3>1. /\ loop = "blocked" /\ loop' = "running" /\ UNCHANGED round
            /\ pending' = [pending EXCEPT ![caller] = NoCall]
        BY <2>5 DEF Resume, UartResume
      <3>2. caller \in Client \ round
        BY <3>1 DEF EventLoopInv, WaitingCallIsPending
      <3>3. /\ pending'[caller] = NoCall
            /\ \A d \in Client \ {caller} : pending'[d] = pending[d]
        BY <3>1, <3>2 DEF EventLoopInv
      <3>4. /\ HasTurn(caller) /\ ~ (caller \in round' \/ loop' = "blocked")
            /\ \A d \in Client \ {caller} : HasTurn(d)' <=> HasTurn(d)
        BY <3>1, <3>2 DEF HasTurn
      <3>5. PICK a \in Client : a = caller
        BY <3>2
      <3>6. HasTurn(a) /\ ~ HasTurn(a)'
        BY <3>4, <3>5 DEF HasTurn
      <3> QED BY <2>1, <3>3, <3>4, <3>5, <3>6, OneAnswered
    <2>6. CASE Fail
      BY <2>1, <2>6, AllAnswered DEF Fail, Crash, Die
    <2>7. CASE RestartOnFailure \/ Adapters
      <3>1. UNCHANGED <<pending, round, caller>>
        BY <2>7 DEF RestartOnFailure, Adapters, loopVars
      <3>2. (loop # "blocked" /\ loop' # "blocked") \/ UNCHANGED loop
        BY <2>7
           DEF RestartOnFailure, Restart, Reboot, alive, Adapters, Plug, Unplug,
               baseVars
      <3> QED BY <2>1, <3>1, <3>2, NobodyAnswered DEF HasTurn, Answered
    <2> QED
      BY <2>1, <2>2, <2>3, <2>4, <2>5, <2>6, <2>7 DEF EventLoopNext, LoopStep
  <1> QED BY <1>1, <1>2

\* The history is only a history: it takes no behaviour from the loop.
THEOREM OvertakingImplementsEventLoop == OvertakingSpec => EventLoopSpec
  <1>1. OvertakingInit => EventLoopInit
    BY DEF OvertakingInit
  <1>2. [OvertakingNext]_overtakingVars => [EventLoopNext]_eventLoopVars
    BY DEF OvertakingNext, overtakingVars
  <1> QED BY <1>1, <1>2, PTL DEF OvertakingSpec, EventLoopSpec

\* The invariant of the history holds throughout.
THEOREM OvertakingInvariant == OvertakingSpec => []OvertakenInv
  <1>1. OvertakingInit => OvertakenInv
    BY DEF OvertakingInit, EventLoopInit, Init, ServiceInit, OvertakenInv,
           Turn, HasTurn
  <1>2. EventLoopInv /\ OvertakenInv /\ [OvertakingNext]_overtakingVars
          => OvertakenInv'
    BY OvertakingNextKeepsInv
  <1> QED
    BY <1>1, <1>2, OvertakingImplementsEventLoop, EventLoopInvariant, PTL
       DEF OvertakingSpec

\* Whatever the clients ask, and however many there are, none is answered more than
\* twice while another's call is on its way.
THEOREM ClientsTakeTurns == OvertakingSpec => []OvertakenTwiceAtMost
  <1>1. OvertakenInv => OvertakenTwiceAtMost
    <2> SUFFICES ASSUME OvertakenInv, NEW c \in Client, NEW d \in Client
                 PROVE  overtaken[c][d] <= 2
      BY DEF OvertakenTwiceAtMost
    <2>1. /\ overtaken[c][d] \in Nat
          /\ overtaken[c][d] + Turn(d) <= (IF HasTurn(c) THEN 2 ELSE 1)
      BY DEF OvertakenInv
    <2> QED BY <2>1 DEF Turn
  <1> QED BY <1>1, OvertakingInvariant, PTL
=============================================================================
