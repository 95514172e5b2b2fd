--------------------------- MODULE ServiceProofs ---------------------------
(***************************************************************************)
(* What the device modules' proofs need to know of the maps, the           *)
(* descriptor table and the pin registry.                                  *)
(***************************************************************************)
EXTENDS Service, TLAPS

\* A map with one more entry.
LEMMA BindLemma ==
  ASSUME NEW f, NEW x, NEW v
  PROVE  /\ DOMAIN Bind(f, x, v) = DOMAIN f \cup {x}
         /\ Bind(f, x, v)[x] = v
         /\ \A y \in DOMAIN f : y # x => Bind(f, x, v)[y] = f[y]
         /\ Bind(f, x, v) = [y \in DOMAIN Bind(f, x, v) |-> Bind(f, x, v)[y]]
  BY DEF Bind

\* A map with one entry less.
LEMMA UnbindLemma ==
  ASSUME NEW f, NEW x
  PROVE  /\ DOMAIN Unbind(f, x) = DOMAIN f \ {x}
         /\ \A y \in DOMAIN f \ {x} : Unbind(f, x)[y] = f[y]
         /\ Unbind(f, x) = [y \in DOMAIN Unbind(f, x) |-> Unbind(f, x)[y]]
  BY DEF Unbind, Restrict

\* The empty map has no entry.
LEMMA EmptyMapLemma == DOMAIN EmptyMap = {}
  BY DEF EmptyMap

\* open(2) adds one descriptor that was free and leaves the others alone.
LEMMA OpenFdLemma ==
  ASSUME KernelTypeOK, NEW fd, NEW file, OpenFd(fd, file)
  PROVE  /\ KernelTypeOK'
         /\ fd \in Fd /\ fd \notin DOMAIN fdTable
         /\ DOMAIN fdTable' = DOMAIN fdTable \cup {fd}
         /\ fdTable'[fd] = file
         /\ \A other \in DOMAIN fdTable : fdTable'[other] = fdTable[other]
  BY DEF KernelTypeOK, OpenFd, FreeFds, Bind

\* close(2) takes one away.
LEMMA CloseFdLemma ==
  ASSUME KernelTypeOK, NEW fd, CloseFd(fd)
  PROVE  /\ KernelTypeOK'
         /\ DOMAIN fdTable' = DOMAIN fdTable \ {fd}
         /\ \A other \in DOMAIN fdTable \ {fd} : fdTable'[other] = fdTable[other]
  BY DEF KernelTypeOK, CloseFd, Unbind, Restrict
-----------------------------------------------------------------------------
(***************************************************************************)
(* Every use the managers make of the pin registry keeps its type.         *)
(***************************************************************************)
\* Routing the pins of a group to a source (PinMuxManager::SetSource).
LEMMA SetSourceType ==
  ASSUME MuxTypeOK, NEW source, NEW group, SetSource(source, group)
  PROVE  MuxTypeOK'
  BY PinMuxAssumption DEF RegistriesClosed, MuxTypeOK, SetSource, Registered, muxVars

\* Giving them back (ReleaseSource).
LEMMA ReleaseSourceType ==
  ASSUME MuxTypeOK, NEW source, NEW group, ReleaseSource(source, group)
  PROVE  MuxTypeOK'
  BY DEF MuxTypeOK, ReleaseSource

\* Routing one pin to its GPIO (SetGpio).
LEMMA SetGpioType ==
  ASSUME MuxTypeOK, NEW pin, SetGpio(pin)
  PROVE  MuxTypeOK'
  BY DEF MuxTypeOK, SetGpio

\* Giving it back (ReleaseGpio).
LEMMA ReleaseGpioType ==
  ASSUME MuxTypeOK, NEW pin, ReleaseGpioMux(pin)
  PROVE  MuxTypeOK'
  BY DEF MuxTypeOK, ReleaseGpioMux

\* A call that does not reach the registry.
LEMMA MuxUnchangedType ==
  ASSUME MuxTypeOK, UNCHANGED muxVars
  PROVE  MuxTypeOK'
  BY DEF MuxTypeOK, muxVars

\* Whatever a manager does to the registry in a call, with a mux or without.
LEMMA MuxStepType ==
  ASSUME MuxTypeOK, NEW mux,
         \/ ClaimMux(mux) \/ DropMux(mux)
         \/ ClaimGpioMux(mux) \/ DropGpioMux(mux) \/ UNCHANGED muxVars
  PROVE  MuxTypeOK'
  <1>1. CASE mux = NoMux
    BY <1>1, MuxUnchangedType
       DEF ClaimMux, DropMux, ClaimGpioMux, DropGpioMux
  <1>2. CASE mux # NoMux
    BY <1>2, SetSourceType, ReleaseSourceType, SetGpioType, ReleaseGpioType,
       MuxUnchangedType
       DEF ClaimMux, DropMux, ClaimGpioMux, DropGpioMux
  <1> QED BY <1>1, <1>2
-----------------------------------------------------------------------------
\* An answer with a code of the list is of the right type.
LEMMA ReplyType ==
  ASSUME NEW call, NEW dev, NEW code \in Code, NEW payload \in Payload,
         Reply(call, dev, code, payload)
  PROVE  ReplyTypeOK'
  BY DEF Reply, ReplyTypeOK

\* The verdict on a payload is one of four codes.
LEMMA VerdictType ==
  ASSUME NEW request, NEW allowed, NEW required
  PROVE  Verdict(request, allowed, required)
           \in {"ok", "notJson", "notAllowed", "missing"}
  BY DEF Verdict

\* The answer of a handler that changes nothing else is of the right type.
LEMMA AnswerType ==
  ASSUME NEW call, NEW dev, NEW request, NEW allowed, NEW required,
         NEW codes \in SUBSET Code, NEW payload \in Payload,
         Answer(call, dev, Verdict(request, allowed, required), codes, payload)
  PROVE  ReplyTypeOK'
  <1> DEFINE verdict == Verdict(request, allowed, required)
  <1>1. verdict \in Code /\ "none" \in Payload
    BY VerdictType DEF Code, Payload
  <1>2. CASE verdict # "ok"
    BY <1>1, <1>2, ReplyType DEF Answer
  <1>3. CASE verdict = "ok"
    <2>1. PICK code \in codes :
            Reply(call, dev, code, IF code = "ok" THEN payload ELSE "none")
      BY <1>3 DEF Answer
    <2> QED BY <1>1, <2>1, ReplyType
  <1> QED BY <1>2, <1>3
=============================================================================
