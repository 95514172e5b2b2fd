------------------------------- MODULE Kernel -------------------------------
(***************************************************************************)
(* The part of the operating system the drivers reach through CharDevice   *)
(* and the plain system calls: the process's descriptor table.  A file is  *)
(* a tuple <<kind, ...>> naming the node that was opened, so that a stale  *)
(* or reused descriptor is visible as one that leads to another node.      *)
(*                                                                         *)
(* Every system call may fail at any time; which failures a caller sees is *)
(* a choice made where the call is.  What the kernel guarantees is here:   *)
(* open returns a descriptor that was free, and needs a free one.          *)
(***************************************************************************)
EXTENDS Maps

CONSTANT Fd          \* the descriptors the process may have open (RLIMIT_NOFILE)

VARIABLE fdTable     \* [open descriptors -> files]

FreeFds == Fd \ DOMAIN fdTable

\* open(2) returned fd for file.
OpenFd(fd, file) ==
  /\ fd \in FreeFds
  /\ fdTable' = Bind(fdTable, fd, file)

\* close(2).
CloseFd(fd) == fdTable' = Unbind(fdTable, fd)

\* fd is open and leads to a file of this kind; on any other the system calls
\* for that kind fail.
Leads(fd, kind) == fd \in DOMAIN fdTable /\ fdTable[fd][1] = kind

\* A descriptor opened and closed inside one call leaves no trace, but there
\* must be one to open.
TransientFd == FreeFds # {}

\* The same of the two ends of a pipe (popen).
TransientPipe == \E r, w \in FreeFds : r # w

KernelTypeOK == /\ DOMAIN fdTable \subseteq Fd
                /\ fdTable = [fd \in DOMAIN fdTable |-> fdTable[fd]]
=============================================================================
