----------------------------- MODULE EventLoop ------------------------------
(***************************************************************************)
(* Several clients before the one main loop of the whole service.  Each    *)
(* client has a connection of its own, and at most one call on its way.    *)
(* What a UART call asks for is told apart, as it can hold the loop; what  *)
(* one of the other kinds asks for is chosen when it is handled.  An       *)
(* iteration of the loop takes the connections that have a call and        *)
(* handles one of each; a handler may wait in a system call, for a line    *)
(* that nobody has to serve.  An exception that leaves a handler ends the  *)
(* process, with a status that depends on what it meets on its way to      *)
(* main: the catch of main, which returns 0, or a frame of a C library     *)
(* without unwinding tables, which aborts.  systemd starts again what has  *)
(* failed.                                                                 *)
(***************************************************************************)
EXTENDS PeripheralManager

CONSTANTS Client,    \* the connections on the bus
          Request    \* the calls they may make: method, name, mode, number

Method == {"list", "open", "close", "read", "write", "setBaudrate",
           "getBaudrate", "getPollingFd", "gpio", "spi", "i2c"}

ASSUME EventLoopAssumption ==
  Request \subseteq [method : Method, name : UartName, canonical : BOOLEAN,
                     number : UartNumbers]

VARIABLES pending,   \* the call of each client that is not answered yet
          round,     \* the connections this iteration has still to handle
          caller,    \* whose call the loop is blocked in
          status     \* how the process ended

loopVars == <<pending, round, caller, status>>
eventLoopVars == <<vars, loopVars>>

NoCall == [method |-> "none"]
NoClient == "nobody"

Idle == [c \in Client |-> NoCall]

EventLoopInit == /\ Init
                 /\ pending = Idle
                 /\ round = {}
                 /\ caller = NoClient
                 /\ status = "none"

\* The call, to the handler of its method.
HandleUart(call) ==
  LET named == {"interfaceId"} IN
  \/ call.method = "list" /\ ListUartDevices(Object({}))
  \/ call.method = "open"
       /\ OpenUartDevice(Object(named \cup {"config"}), call.name, call.canonical)
  \/ call.method = "close" /\ ReleaseUartDevice(Object(named), call.name)
  \/ call.method = "read"
       /\ UartDeviceRead(Object(named \cup {"size", "dataType"}),
                        call.name, call.number)
  \/ call.method = "write"
       /\ UartDeviceWrite(Object(named \cup {"data", "dataType", "size"}), call.name)
  \/ call.method = "setBaudrate"
       /\ SetUartDeviceBaudrate(Object(named \cup {"baudrate"}), call.name, call.number)
  \/ call.method = "getBaudrate" /\ GetBaudrate(Object(named), call.name)
  \/ call.method = "getPollingFd" /\ GetuartPollingFd(Object({"id"}), call.name)

Handle(call) ==
  \/ HandleUart(call) /\ UNCHANGED <<gpioVars, spiVars, i2cVars>>
  \/ call.method = "gpio" /\ GpioStep
  \/ call.method = "spi" /\ SpiStep
  \/ call.method = "i2c" /\ I2cStep

\* The hub refuses a call to a service that is not there, at once.
Send(c, call) ==
  /\ alive
  /\ pending[c] = NoCall
  /\ pending' = [pending EXCEPT ![c] = call]
  /\ UNCHANGED vars /\ UNCHANGED <<round, caller, status>>

\* A mistake for TLC to find: one connection goes before all others.
ReadyFirst ==
  {c \in Client : /\ pending[c] # NoCall
                  /\ c = CHOOSE d \in Client : pending[d] # NoCall}

\* What poll finds.
Ready == {c \in Client : pending[c] # NoCall}

\* g_main_context_iteration: poll, then dispatch what is ready.
Iterate ==
  /\ running
  /\ round = {}
  /\ Ready # {}
  /\ round' = Ready
  /\ UNCHANGED vars /\ UNCHANGED <<pending, caller, status>>

\* The hub tells the clients of a service that ended; their calls are over.
Ended(how) == /\ pending' = Idle
              /\ round' = {}
              /\ caller' = NoClient
              /\ status' \in how

\* A mistake for TLC to find: the loop goes on while a handler waits.
DispatchReentrant(c) ==
  /\ alive
  /\ c \in round
  /\ Handle(pending[c])
  /\ \/ /\ loop' # "down"
        /\ round' = round \ {c}
        /\ pending' = IF loop' = loop THEN [pending EXCEPT ![c] = NoCall] ELSE pending
        /\ caller' = IF loop' = loop THEN caller ELSE c
        /\ UNCHANGED status
     \/ loop' = "down" /\ Ended({"failure", "clean"})

Dispatch(c) ==
  /\ running
  /\ c \in round
  /\ Handle(pending[c])
  /\ \/ /\ loop' = "running"
        /\ round' = round \ {c}
        /\ pending' = [pending EXCEPT ![c] = NoCall]
        /\ UNCHANGED <<caller, status>>
     \/ /\ loop' = "blocked"
        /\ round' = round \ {c}
        /\ caller' = c
        /\ UNCHANGED <<pending, status>>
     \/ loop' = "down" /\ Ended({"failure", "clean"})

\* The line lets the waiting handler go on, to its answer.
Resume ==
  /\ UartResume /\ UNCHANGED <<gpioVars, spiVars, i2cVars>>
  /\ pending' = [pending EXCEPT ![caller] = NoCall]
  /\ caller' = NoClient
  /\ UNCHANGED <<round, status>>

\* The process is killed, in a handler or between two.
Fail == Crash /\ Ended({"failure"})

\* Restart=on-failure.
RestartOnFailure ==
  /\ status = "failure"
  /\ Restart
  /\ status' = "none"
  /\ UNCHANGED <<pending, round, caller>>

Adapters == /\ \/ \E name \in Adapter \ plugged : Plug(name)
               \/ \E name \in plugged : Unplug(name)
            /\ UNCHANGED <<gpioVars, spiVars, i2cVars, loopVars>>

LoopStep == Iterate \/ \E c \in Client : Dispatch(c)

EventLoopNext == \/ \E c \in Client, call \in Request : Send(c, call)
                 \/ LoopStep \/ Resume
                 \/ Fail \/ RestartOnFailure \/ Adapters

(***************************************************************************)
(* The process is scheduled, and systemd does what its unit says.  Nothing *)
(* makes a client call, a line be served or an adapter be plugged in.      *)
(***************************************************************************)
EventLoopFairness == /\ WF_eventLoopVars(LoopStep)
                     /\ WF_eventLoopVars(RestartOnFailure)

EventLoopSpec == EventLoopInit /\ [][EventLoopNext]_eventLoopVars
                               /\ EventLoopFairness
-----------------------------------------------------------------------------
\* The call the loop waits in is its caller's, still unanswered, and the device it
\* reads or writes is open all the while: no other client's release, and no
\* restart, takes a driver away under a handler that is inside it.
WaitingCallIsPending ==
  IF loop = "blocked"
  THEN /\ caller \in Client \ round
       /\ pending[caller] # NoCall
       /\ pending[caller].name = waiting[2]
       /\ waiting[1] # "OpenUartDevice" => waiting[2] \in uarts
  ELSE caller = NoClient

\* Every call is answered, or its service ends, or the loop waits from some time
\* on for one line: no client is passed over for the others, however many calls
\* they make, and nothing but a line stands between a call and its answer.
AnsweredUnlessLineWaits ==
  \A c \in Client :
    [](pending[c] # NoCall => <>(pending[c] = NoCall \/ [](loop = "blocked")))

\* The unit says "Restart=on-failure": a service that ended because a handler
\* failed or because it was killed is running again some time later.
RestartedAfterFailure == loop = "down" ~> loop = "running"
=============================================================================
