----------------------------- MODULE Overtaking -----------------------------
(***************************************************************************)
(* The main loop with a history: how often each client has been answered   *)
(* since each other one sent the call it waits for.  The history is looked *)
(* at by nothing, and says how fair the rounds of the loop are.            *)
(***************************************************************************)
EXTENDS EventLoop

VARIABLE overtaken    \* [who waits -> [who was answered -> how often since]]

overtakingVars == <<eventLoopVars, overtaken>>

OvertakingInit == /\ EventLoopInit
                  /\ overtaken = [c \in Client |-> [d \in Client |-> 0]]

\* A bound: nothing needs to be known of a call that was overtaken more often.
TooOften == 3

\* The step answers d's call, or ends it with the process.
Answered(d) == pending[d] # NoCall /\ pending'[d] = NoCall

Count ==
  overtaken' =
    [c \in Client |->
       [d \in Client |->
          CASE pending'[c] = NoCall -> 0
            [] pending'[c] # NoCall /\ Answered(d) /\ overtaken[c][d] < TooOften
                 -> overtaken[c][d] + 1
            [] OTHER -> overtaken[c][d]]]

OvertakingNext == EventLoopNext /\ Count

OvertakingSpec == OvertakingInit /\ [][OvertakingNext]_overtakingVars
                                 /\ EventLoopFairness
-----------------------------------------------------------------------------
\* No client is answered more than twice while a call of another is on its way,
\* however many calls it makes and whichever the loop waits in: a round handles
\* one call of each connection, so that a call sent during a round is handled in
\* the next one.  So what stands between a call and its answer is bounded by the
\* number of clients, and by how long the handlers wait.
OvertakenTwiceAtMost ==
  \A c, d \in Client : overtaken[c][d] <= 2
=============================================================================
