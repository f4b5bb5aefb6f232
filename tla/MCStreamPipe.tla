---- MODULE MCStreamPipe ----
(* Both endpoints over a bad network: either a stream that nobody gives up, or a *)
(* shorter one that may be aborted from both sides, and loses one frame while no *)
(* STOP_SENDING waits.                                                           *)
EXTENDS StreamPipe

VARIABLE aborting   \* which of the two

Bounded ==
  IF aborting THEN bufferStop' <= 2 /\ lost' <= (IF stopPending' THEN 0 ELSE 1)
  ELSE ~resetCalled' /\ ~stopPending'

MCInit == Init /\ aborting \in BOOLEAN
MCNext == Next /\ Bounded /\ UNCHANGED aborting
MCFairSpec ==
  /\ MCInit /\ [][MCNext]_<<pipe, aborting>>
  /\ WF_pipe(WritePacket /\ UNCHANGED <<receiverVars, networkVars, aborting>>)
====
