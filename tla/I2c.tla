-------------------------------- MODULE I2c --------------------------------
(***************************************************************************)
(* I2C, from the service's handlers through PeripheralManagerClient,       *)
(* I2cManager and I2cDevice to I2cDriverI2cDev.  A bus has a driver for    *)
(* every slave address that is open on it; they share the bus's pins.      *)
(***************************************************************************)
EXTENDS Service

CONSTANTS I2cBus,      \* i2cdev_buses_: the buses the board registered
          I2cName,     \* the names a call may use
          I2cMux,      \* the mux of each bus, NoMux for none
          Address,     \* the addresses a call may use
          Slave,       \* the addresses the kernel lets the service take
          I2cNumbers   \* the sizes a call may carry

ASSUME I2cAssumption == /\ I2cBus \subseteq I2cName
                        /\ DOMAIN I2cMux = I2cBus
                        /\ Slave \subseteq Address
                        /\ I2cNumbers \subseteq Int

VARIABLES i2cDriver,  \* [<<bus, address>> in a bus's driver_ -> its fd_]
          i2cs        \* the keys of the client's i2c_devices_

i2cVars == <<i2cDriver, i2cs>>
i2cUnchanged == UNCHANGED <<i2cDriver, i2cs>>

I2C_SMBUS_BLOCK_MAX == 32

I2cInit == /\ i2cDriver = EmptyMap
           /\ i2cs = {}

\* The character device of the bus, bound to the slave by the I2C_SLAVE ioctl.
I2cDev(dev) == <<"i2c", dev[1], dev[2]>>

(***************************************************************************)
(* I2cDriverI2cDev::Init opens the bus and takes the slave; it closes the  *)
(* bus again when the kernel refuses the slave.                            *)
(***************************************************************************)
I2cDriverInit(dev, fd) ==
  /\ dev[2] \in Slave
  /\ OpenFd(fd, I2cDev(dev))
  /\ i2cDriver' = Bind(i2cDriver, dev, fd)

\* A mistake for TLC to find: the slave is refused, the bus stays open.
I2cDriverInitFailsOpen ==
  \E fd \in FreeFds : OpenFd(fd, <<"i2c", "lost">>) /\ UNCHANGED i2cDriver

I2cDriverInitFails == UNCHANGED <<fdTable, i2cDriver>>

(***************************************************************************)
(* I2cManager::OpenI2cDevice, and the handle's destructor.                 *)
(***************************************************************************)
OpenI2cSlave(dev) ==
  /\ \E fd \in FreeFds : I2cDriverInit(dev, fd)
  /\ ClaimMux(I2cMux[dev[1]])

\* A mistake for TLC to find: the driver stays in the bus's map.
CloseI2cSlaveKeepsDriver(dev) ==
  /\ DropMux(I2cMux[dev[1]])
  /\ CloseFd(i2cDriver[dev])
  /\ UNCHANGED i2cDriver

\* A mistake for TLC to find: the driver stays, its fd_ is -1.
CloseI2cSlaveForgetsFd(dev) ==
  /\ DropMux(I2cMux[dev[1]])
  /\ CloseFd(i2cDriver[dev])
  /\ i2cDriver' = [i2cDriver EXCEPT ![dev] = -1]

\* A mistake for TLC to find: the pins are not given back.
CloseI2cSlaveKeepsPins(dev) ==
  /\ CloseFd(i2cDriver[dev])
  /\ i2cDriver' = Unbind(i2cDriver, dev)
  /\ UNCHANGED muxVars

CloseI2cSlave(dev) ==
  /\ DropMux(I2cMux[dev[1]])
  /\ CloseFd(i2cDriver[dev])
  /\ i2cDriver' = Unbind(i2cDriver, dev)

(***************************************************************************)
(* PeripheralManagerClient.                                                *)
(***************************************************************************)
ClientOpenI2cDevice(dev) ==
  \/ /\ dev[1] \notin I2cBus
     /\ Reply("OpenI2cDevice", dev, "ENODEV", "none")
     /\ UNCHANGED muxVars /\ UNCHANGED fdTable /\ i2cUnchanged
  \/ /\ dev \in DOMAIN i2cDriver
     /\ Reply("OpenI2cDevice", dev, "EBUSY", "none")
     /\ UNCHANGED muxVars /\ UNCHANGED fdTable /\ i2cUnchanged
  \/ /\ dev[1] \in I2cBus /\ dev \notin DOMAIN i2cDriver
     /\ I2cDriverInitFails
     /\ Reply("OpenI2cDevice", dev, "EBUSY", "none")
     /\ UNCHANGED muxVars /\ UNCHANGED i2cs
  \/ /\ dev[1] \in I2cBus /\ dev \notin DOMAIN i2cDriver
     /\ OpenI2cSlave(dev)
     /\ i2cs' = i2cs \cup {dev}
     /\ Reply("OpenI2cDevice", dev, "ok", "none")

ClientReleaseI2cDevice(dev) ==
  \/ /\ dev \in i2cs
     /\ CloseI2cSlave(dev)
     /\ i2cs' = i2cs \ {dev}
     /\ Reply("ReleaseI2cDevice", dev, "ok", "none")
  \/ /\ dev \notin i2cs
     /\ Reply("ReleaseI2cDevice", dev, "EPERM", "none")
     /\ UNCHANGED muxVars /\ UNCHANGED fdTable /\ i2cUnchanged

\* The codes of an access to an open device.
I2cAccess(dev) ==
  IF dev \notin i2cs THEN {"EPERM"}
  ELSE {"EREMOTEIO"} \cup (IF Leads(i2cDriver[dev], "i2c") THEN {"ok"} ELSE {})

\* The codes of an access that moves a block of bytes.
I2cBlockAccess(dev, length) ==
  I2cAccess(dev) \ (IF length > I2C_SMBUS_BLOCK_MAX THEN {"ok"} ELSE {})

\* A read that fails returns -1, which the client takes for 4294967295 bytes
\* to make room for: an exception of the library's, or EREMOTEIO where the
\* machine has the memory.
I2cReadCodes(dev) ==
  I2cAccess(dev) \cup (IF dev \in i2cs THEN {"unknown"} ELSE {})

I2cReadRegBufferCodes(dev, size) ==
  IF dev \in i2cs /\ size < 0 THEN {"EINVAL"} ELSE I2cBlockAccess(dev, size)

\* A mistake for TLC to find: the caller is given a descriptor of its own.
ClientGeti2cPollingFdReopens(dev) ==
  IF dev \in i2cs
  THEN \/ \E fd \in FreeFds : /\ OpenFd(fd, I2cDev(dev))
                              /\ Reply("Geti2cPollingFd", dev, "ok", fd)
       \/ Reply("Geti2cPollingFd", dev, "EREMOTEIO", "none") /\ UNCHANGED fdTable
  ELSE Reply("Geti2cPollingFd", dev, "ENODEV", "none") /\ UNCHANGED fdTable

\* The caller is given the number of the driver's own descriptor.
ClientGeti2cPollingFd(dev) ==
  /\ IF dev \in i2cs
     THEN Reply("Geti2cPollingFd", dev, "ok", i2cDriver[dev])
     ELSE Reply("Geti2cPollingFd", dev, "ENODEV", "none")
  /\ UNCHANGED fdTable
-----------------------------------------------------------------------------
(***************************************************************************)
(* The handlers.                                                           *)
(***************************************************************************)
I2cKeys == {"name", "address"}

\* With verbose the buses are scanned by a child process; a bus whose scan
\* cannot be started is left out of the answer.
ListI2cBuses(request) ==
  /\ Answer("ListI2cBuses", <<>>, Verdict(request, {"subscribe", "verbose"}, {}),
            {"ok"}, "none")
  /\ UNCHANGED baseVars /\ i2cUnchanged

OpenI2cDevice(request, dev) ==
  LET verdict == Verdict(request, I2cKeys, I2cKeys) IN
  /\ \/ verdict # "ok" /\ Reply("OpenI2cDevice", dev, verdict, "none")
        /\ UNCHANGED muxVars /\ UNCHANGED fdTable /\ i2cUnchanged
     \/ verdict = "ok" /\ ClientOpenI2cDevice(dev)
  /\ UNCHANGED loop

ReleaseI2cDevice(request, dev) ==
  LET verdict == Verdict(request, I2cKeys, I2cKeys) IN
  /\ \/ verdict # "ok" /\ Reply("ReleaseI2cDevice", dev, verdict, "none")
        /\ UNCHANGED muxVars /\ UNCHANGED fdTable /\ i2cUnchanged
     \/ verdict = "ok" /\ ClientReleaseI2cDevice(dev)
  /\ UNCHANGED loop

\* A size that is zero or not there is eight.
SizeOf(request, size) ==
  IF "size" \notin request.keys \/ size = 0 THEN 8 ELSE size

\* Room for the bytes is made before the client is asked: a size below zero is
\* an exception of the library's whether or not the device is open.
I2cRead(request, dev, size) ==
  /\ Answer("I2cRead", dev, Verdict(request, I2cKeys \cup {"size"}, I2cKeys),
            IF SizeOf(request, size) < 0 THEN {"unknown"} ELSE I2cReadCodes(dev),
            "received")
  /\ UNCHANGED baseVars /\ i2cUnchanged

I2cReadRegByte(request, dev) ==
  /\ Answer("I2cReadRegByte", dev,
            Verdict(request, I2cKeys \cup {"reg"}, I2cKeys \cup {"reg"}),
            I2cAccess(dev), "received")
  /\ UNCHANGED baseVars /\ i2cUnchanged

I2cReadRegWord(request, dev) ==
  /\ Answer("I2cReadRegWord", dev,
            Verdict(request, I2cKeys \cup {"reg"}, I2cKeys \cup {"reg"}),
            I2cAccess(dev), "received")
  /\ UNCHANGED baseVars /\ i2cUnchanged

\* How many bytes the adapter returned is not looked at: the rest of the block
\* is memory nobody wrote.
I2cReadRegBuffer(request, dev, size) ==
  /\ \E payload \in {"received", "garbage"} :
       Answer("I2cReadRegBuffer", dev,
              Verdict(request, I2cKeys \cup {"reg", "size"}, I2cKeys \cup {"reg"}),
              I2cReadRegBufferCodes(dev, SizeOf(request, size)), payload)
  /\ UNCHANGED baseVars /\ i2cUnchanged

I2cWrite(request, dev) ==
  /\ Answer("I2cWrite", dev,
            Verdict(request, I2cKeys \cup {"data"}, I2cKeys \cup {"data"}),
            I2cAccess(dev), "none")
  /\ UNCHANGED baseVars /\ i2cUnchanged

I2cWriteKeys == I2cKeys \cup {"reg", "data"}

I2cWriteRegByte(request, dev) ==
  /\ Answer("I2cWriteRegByte", dev, Verdict(request, I2cWriteKeys, I2cWriteKeys),
            I2cAccess(dev), "none")
  /\ UNCHANGED baseVars /\ i2cUnchanged

I2cWriteRegWord(request, dev) ==
  /\ Answer("I2cWriteRegWord", dev, Verdict(request, I2cWriteKeys, I2cWriteKeys),
            I2cAccess(dev), "none")
  /\ UNCHANGED baseVars /\ i2cUnchanged

I2cWriteRegBuffer(request, dev, length) ==
  /\ Answer("I2cWriteRegBuffer", dev, Verdict(request, I2cWriteKeys, I2cWriteKeys),
            I2cBlockAccess(dev, length), "none")
  /\ UNCHANGED baseVars /\ i2cUnchanged

Geti2cPollingFd(request, dev) ==
  LET verdict == Verdict(request, I2cKeys, I2cKeys) IN
  /\ \/ verdict # "ok" /\ UNCHANGED fdTable
        /\ Reply("Geti2cPollingFd", dev, verdict, "none")
     \/ verdict = "ok" /\ ClientGeti2cPollingFd(dev)
  /\ UNCHANGED muxVars /\ UNCHANGED loop /\ i2cUnchanged

I2cNext ==
  /\ running
  /\ \/ \E request \in Payloads({"subscribe", "verbose"}, {}) : ListI2cBuses(request)
     \/ \E dev \in I2cName \X Address :
          \/ \E request \in Payloads(I2cKeys, I2cKeys) :
               \/ OpenI2cDevice(request, dev)
               \/ ReleaseI2cDevice(request, dev)
               \/ Geti2cPollingFd(request, dev)
          \/ \E request \in Payloads(I2cKeys \cup {"size"}, I2cKeys),
                size \in I2cNumbers : I2cRead(request, dev, size)
          \/ \E request \in Payloads(I2cKeys \cup {"reg"}, I2cKeys \cup {"reg"}) :
               \/ I2cReadRegByte(request, dev)
               \/ I2cReadRegWord(request, dev)
          \/ \E request \in Payloads(I2cKeys \cup {"reg", "size"},
                                     I2cKeys \cup {"reg"}),
                size \in I2cNumbers : I2cReadRegBuffer(request, dev, size)
          \/ \E request \in Payloads(I2cKeys \cup {"data"}, I2cKeys \cup {"data"}) :
               I2cWrite(request, dev)
          \/ \E request \in Payloads(I2cWriteKeys, I2cWriteKeys) :
               \/ I2cWriteRegByte(request, dev)
               \/ I2cWriteRegWord(request, dev)
               \/ \E length \in I2cNumbers \cap Nat :
                    I2cWriteRegBuffer(request, dev, length)

I2cReboot == i2cDriver' = EmptyMap /\ i2cs' = {}
-----------------------------------------------------------------------------
I2cSpecVars == <<baseVars, reply, i2cVars>>

I2cDie == Die /\ UNCHANGED <<fdTable, inUse, route, reply>> /\ i2cUnchanged

I2cSpecNext == I2cNext \/ I2cDie \/ (Reboot /\ I2cReboot)

I2cSpecInit == ServiceInit /\ I2cInit

\* The service with no other kind of device.
I2cSpec == I2cSpecInit /\ [][I2cSpecNext]_I2cSpecVars
-----------------------------------------------------------------------------
\* The variables hold what the code's types let them hold.
I2cTypeOK == /\ ServiceTypeOK
             /\ DOMAIN i2cDriver \subseteq I2cBus \X Address
             /\ \A dev \in DOMAIN i2cDriver : i2cDriver[dev] \in Fd
             /\ i2cs \subseteq I2cBus \X Address

\* The client holds a handle for exactly the addresses in the buses' maps.
\* I2cDevice looks its driver up with operator[], which makes an empty entry,
\* and follows it without a check.
I2cHandlesMatchDrivers == i2cs = DOMAIN i2cDriver

\* The descriptor a driver keeps leads to its own bus and slave: two addresses
\* on one bus never talk through each other's descriptor.
I2cDriversOwnDescriptors ==
  \A dev \in DOMAIN i2cDriver :
    /\ i2cDriver[dev] \in DOMAIN fdTable
    /\ fdTable[i2cDriver[dev]] = I2cDev(dev)

\* Every open descriptor is a driver's: none is left behind by a failed open, a
\* release, or a caller that asked for one to poll.
I2cNoDescriptorLeaks ==
  DOMAIN fdTable = {i2cDriver[dev] : dev \in DOMAIN i2cDriver}

\* A pin that is in use belongs to a bus with an address open.
I2cNoPinLeaks ==
  inUse \subseteq UNION {SourcePins(I2cMux[dev[1]]) : dev \in DOMAIN i2cDriver}

\* A call that is answered with an error has changed nothing, and none ends the
\* process: also what a read throws, which makes room for a size that was not
\* checked or for as many bytes as a failed ioctl returned, is answered.
I2cFailureChangesNothing ==
  [][I2cNext => /\ running'
                /\ reply'.code # "ok" => UNCHANGED <<baseVars, i2cVars>>
    ]_I2cSpecVars

\* ReleaseSource warns of a pin it releases "that is not in use": the pins of
\* every open device are in use, so that its release has nothing to warn of.
I2cReleaseFindsPinsInUse ==
  \A dev \in DOMAIN i2cDriver : SourcePins(I2cMux[dev[1]]) \subseteq inUse
=============================================================================
