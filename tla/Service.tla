------------------------------ MODULE Service -------------------------------
(***************************************************************************)
(* What the handlers of PeripheralManagerService have in common.  The      *)
(* process has one thread, a GMainLoop: a handler runs to its end before   *)
(* the next call is looked at, so a handler is one step.  A handler parses *)
(* its payload, refuses a key it does not know, refuses a payload without  *)
(* the keys it needs, and otherwise calls PeripheralManagerClient and      *)
(* answers with what came back: the result, the code of a                  *)
(* PeripheralManagerException, or "Unknown Error".                         *)
(***************************************************************************)
EXTENDS Kernel, PinMux

VARIABLES loop,    \* what the process's main loop is doing
          reply    \* the answer to the last call

baseVars == <<fdTable, inUse, route, loop>>

\* The loop takes the next call, it is inside a system call that has not come
\* back, or there is no process.
running == loop = "running"
alive == loop # "down"

\* The answers: "ok", the three refusals of a payload, a value that is not one
\* of an enumeration's, a PeripheralManagerErrors code, or "Unknown Error".
Code == {"ok", "notJson", "notAllowed", "missing", "badValue", "ENODEV",
         "EBUSY", "EPERM", "EINVAL", "EREMOTEIO", "unknown"}

\* What an answer carries: bytes that came from the device, bytes copied from
\* the request, bytes read from memory nobody wrote, or a descriptor number
\* (Stdin is 0, the number a caller's initialised variable held).
Stdin == "0"
Payload == Fd \cup {"none", "received", "sent", "garbage", Stdin}

Reply(call, dev, code, payload) ==
  reply' = [call |-> call, dev |-> dev, code |-> code, payload |-> payload]

(***************************************************************************)
(* A payload is text that does not parse, or an object of which only its   *)
(* keys matter here.  Payloads(allowed, required) are the payloads worth   *)
(* telling apart for a handler with these keys: all of them, only the      *)
(* required ones, one key too many, one key short.                         *)
(***************************************************************************)
Object(keys) == [json |-> TRUE, keys |-> keys]

Payloads(allowed, required) ==
  {[json |-> FALSE, keys |-> {}]}
    \cup {Object(allowed), Object(required), Object(allowed \cup {"other"})}
    \cup {Object(allowed \ {k}) : k \in required}

\* The order of a handler's checks.
Verdict(request, allowed, required) ==
  CASE ~ request.json                    -> "notJson"
    [] ~ (request.keys \subseteq allowed)  -> "notAllowed"
    [] ~ (required \subseteq request.keys) -> "missing"
    [] OTHER                             -> "ok"

\* A handler that changes nothing but its answer: the refusal, or one of the
\* codes the client call may come back with.
Answer(call, dev, verdict, codes, payload) ==
  IF verdict # "ok" THEN Reply(call, dev, verdict, "none")
  ELSE \E code \in codes :
         Reply(call, dev, code, IF code = "ok" THEN payload ELSE "none")

ServiceInit == /\ fdTable = EmptyMap
               /\ MuxInit
               /\ loop = "running"
               /\ reply = [call |-> "none", dev |-> <<>>, code |-> "ok",
                           payload |-> "none"]

\* The process is killed, or an exception leaves a handler.
Die == /\ alive
       /\ loop' = "down"

\* It starts again: the kernel has closed its descriptors, the pins are
\* registered anew and idle, the board keeps what it was told.
Reboot == /\ ~ alive
          /\ loop' = "running"
          /\ fdTable' = EmptyMap
          /\ inUse' = {}
          /\ UNCHANGED <<route, reply>>

ReplyTypeOK == reply.code \in Code /\ reply.payload \in Payload

ServiceTypeOK == /\ KernelTypeOK
                 /\ MuxTypeOK
                 /\ loop \in {"running", "blocked", "down"}
                 /\ ReplyTypeOK
=============================================================================
