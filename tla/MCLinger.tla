------------------------------ MODULE MCLinger ------------------------------
(* Instances for TLC of three of the proxy's thread protocols, the linger      *)
(* thread, a listener's queue and the mutexes, which share no state here: a    *)
(* behaviour is one of one of them, chosen at the start.                       *)
EXTENDS Linger, ListenerQueue, Locks, TLC

CONSTANTS enc1, enc2, pull

MCValues == {enc1, enc2, pull}

\* Dropping the first encoder, the last of its stream, parks the pull.
MCFollower == enc1 :> pull @@ enc2 :> None @@ pull :> None

VARIABLE side

MCInit ==
  /\ Init /\ QueueInit /\ LockInit
  /\ side \in {"linger", "queue", "locks"}
  /\ side # "queue" => ~awaiting    \* one initial queue is enough there

MCNext ==
  /\ UNCHANGED side
  /\ \/ side = "linger" /\ Next /\ UNCHANGED <<queueVars, lockVars>>
     \/ side = "queue" /\ QueueNext /\ UNCHANGED <<vars, lockVars>>
     \/ side = "locks" /\ LockNext /\ UNCHANGED <<vars, queueVars>>

\* QueueSpec's fairness, for its own behaviours.
MCSpec ==
  /\ MCInit /\ [][MCNext]_<<side, vars, queueVars, lockVars>>
  /\ WF_queueVars(side = "queue" /\ FanOutStep)
  /\ WF_queueVars(side = "queue" /\ ReaderStep)
  /\ WF_queueVars(side = "queue" /\ shut /\ WriteFails)

\* The type invariants of the three.
Types == TypeOK /\ QueueTypeOK /\ LockTypeOK
=============================================================================
