-------------------------- MODULE EngineFeedProofs --------------------------
(***************************************************************************)
(* Proofs about EngineFeed, for every set of formats and encoders and      *)
(* every capacity, window and bound.  The inductive invariant is IInv: the *)
(* type invariant, where the puller is (Control), what a registered        *)
(* encoder is (Slots), how far behind the window its input may be (Seam),  *)
(* and who may hold a slot while an encoder is being made (Makers).        *)
(***************************************************************************)
EXTENDS EngineFeed, SequenceTheorems, TLAPS

-----------------------------------------------------------------------------
(* The parts of the inductive invariant. *)

\* What the puller's locals are at each step of its loop.
Control ==
  /\ cur # None <=> pc \in {"offering", "waiting"}
  /\ targets # {} => pc \in {"sending", "offering", "waiting"}
  /\ wedged # {} => pc \in {"sending", "offering", "waiting", "unregistering"}
  /\ cur \notin targets

\* An encoder is given its first chunks as it is registered, by which time its
\* format is settled.
Slots ==
  /\ \A e \in Encoders : primed[e] <= Len(stream[e])
  /\ \A e \in Encoders : state[e] \in {"unused", "claimed"} => stream[e] = <<>>
  /\ \A f \in Formats : map[f] # None => fmt[map[f]] = f /\ stream[map[f]] # <<>>
  /\ \A e \in targets : stream[e] # <<>>
  /\ cur # None => stream[cur] # <<>>

Last(e) == stream[e][Len(stream[e])]

\* Those that may yet be sent the newest chunk.
Due(e) == e \in targets \/ e = cur \/ (pc = "pushed" /\ Registered(e))

\* What is due the newest chunk has all before it, and has that one only from
\* its snapshot.  Everything else registered has it already.
Seam ==
  /\ \A e \in Encoders : Due(e) =>
       \/ Last(e) = pushed - 1
       \/ Last(e) = pushed /\ Len(stream[e]) = primed[e]
  /\ \A e \in Encoders :
       Registered(e) /\ ~Due(e) /\ (\A why \in Verdicts : <<e, why>> \notin wedged)
         => Last(e) = pushed

\* The owner of `creating` finds in its slot, if anything, an encoder nobody
\* can use; whoever is unregistered as gone is of no use either.
Makers ==
  /\ \A e \in Encoders : state[e] \in {"claimed", "spawning"} => creating = e
  /\ \A e \in Encoders : state[e] = "claimed" => NoneToJoin(fmt[e])
  /\ \A e \in Encoders :
       state[e] = "spawning" => map[fmt[e]] \in {e, None}
  /\ \A e \in Encoders :
       state[e] \in {"unused", "claimed", "spawning"}
         => feeder[e] = "none" /\ ffmpeg[e] = "none"
  /\ \A e \in finished : ffmpeg[e] = "exited"
  /\ \A e \in Encoders :
       feeder[e] \in {"left", "closed"} => ~Registered(e) \/ ffmpeg[e] = "exited"
  /\ \A e \in Encoders : <<e, "Gone">> \in wedged => Disconnected(e)

\* Being made or running, an encoder has its slot.
Fed ==
  \A e \in Encoders :
    /\ \/ state[e] = "spawning"
       \/ state[e] = "running" /\ ffmpeg[e] \in {"reading", "hung"}
    /\ pc # "ended"
    /\ e \notin stalled
    => Registered(e)

IInv == /\ TypeOK /\ Control /\ Slots /\ Seam /\ NoGap
        /\ Makers /\ Fed /\ NoDeadEntry /\ EndIsFinal
-----------------------------------------------------------------------------
(* Lemmas about the operators. *)

\* A snapshot is the window from some chunk on to the newest, without a gap.
LEMMA SnapshotSequence ==
  ASSUME pushed \in Nat, NEW from \in Starts
  PROVE  /\ Snapshot(from) \in Seq(Nat)
         /\ Len(Snapshot(from)) = pushed - from + 1
         /\ Len(Snapshot(from)) \in Nat \ {0}
         /\ \A i \in 1..Len(Snapshot(from)) : Snapshot(from)[i] = from + i - 1
<1>1. from \in 1..pushed /\ pushed - from + 1 \in Nat \ {0}
  BY DEF Starts
<1>2. Snapshot(from) \in [1..(pushed - from + 1) -> Nat]
  BY <1>1 DEF Snapshot
<1>3. Snapshot(from) \in Seq(Nat)
  BY <1>1, <1>2, SeqDef
<1>4. Len(Snapshot(from)) = pushed - from + 1
  <2>1. DOMAIN Snapshot(from) = 1..(pushed - from + 1)
    BY DEF Snapshot
  <2>2. Len(Snapshot(from)) \in Nat /\ DOMAIN Snapshot(from) = 1..Len(Snapshot(from))
    BY <1>3, LenProperties
  <2> QED
    BY <1>1, <2>1, <2>2
<1> QED
  BY <1>1, <1>3, <1>4 DEF Snapshot

\* A sequence of chunks with one more.
LEMMA OneMore ==
  ASSUME NEW s \in Seq(Nat), NEW n \in Nat
  PROVE  /\ Append(s, n) # <<>>
         /\ Len(Append(s, n)) = Len(s) + 1
         /\ Len(s) \in Nat
BY AppendProperties, LenProperties, EmptySeq

\* What a channel holds of l chunks, p of them primed, when t have been taken.
Held(l, p, t) == l - (IF t < p THEN p ELSE t)

LEMMA HeldSteps ==
  ASSUME NEW l \in Nat, NEW p \in Nat, NEW t \in Nat, Held(l, p, t) \in 0..Queue
  PROVE  /\ t <= l => Held(l + 1, p, t) = Held(l, p, t) + 1
         /\ t < l => Held(l, p, t + 1) \in 0..Queue
BY QueueAssumption DEF Held

LEMMA TypeStep ==
  ASSUME Types, Control, Slots, [Next]_vars
  PROVE  Types'
<1> USE NoneAssumption, QueueAssumption, WindowAssumption, BoundAssumption
        DEF Types, Control, Slots, puller, sending, verdicts, feeding, theirs,
            Verdicts
<1>1. ASSUME Push PROVE Types'
  BY <1>1 DEF Push
<1>2. ASSUME Collect PROVE Types'
  BY <1>2 DEF Collect
<1>3. ASSUME NEW e \in Encoders, NextTarget(e) PROVE Types'
  BY <1>3 DEF NextTarget
<1>4. ASSUME Sent PROVE Types'
  <2>1. cur \in Encoders /\ stream[cur] \in Seq(Nat) /\ pushed \in Nat
    BY <1>4 DEF Sent, Send
  <2>2. Append(stream[cur], pushed) \in Seq(Nat)
    BY <2>1
  <2>3. stream' \in [Encoders -> Seq(Nat)]
    BY <1>4, <2>2 DEF Sent, Send
  <2> QED
    BY <1>4, <2>3 DEF Sent, Send
<1>5. ASSUME QueueFull PROVE Types'
  BY <1>5 DEF QueueFull
<1>6. ASSUME Moved PROVE Types'
  BY <1>6 DEF Moved
<1>7. ASSUME FoundGone PROVE Types'
  <2>1. cur \in Encoders /\ GiveUp("Gone")
    BY <1>7 DEF FoundGone
  <2>2. wedged' \subseteq Encoders \X Verdicts
    BY <2>1 DEF GiveUp
  <2> QED
    BY <2>1, <2>2 DEF GiveUp
<1>8. ASSUME StallTimeout PROVE Types'
  <2>1. cur \in Encoders /\ GiveUp("Stalled")
    BY <1>8 DEF StallTimeout
  <2>2. wedged' \subseteq Encoders \X Verdicts
    BY <2>1 DEF GiveUp
  <2> QED
    BY <2>1, <2>2 DEF GiveUp
<1>9. ASSUME ChunkDone PROVE Types'
  BY <1>9 DEF ChunkDone
<1>10. ASSUME Unregister PROVE Types'
  BY <1>10 DEF Unregister, Unregistering
<1>11. ASSUME NEW w \in removed, KillStalled(w) PROVE Types'
  BY <1>11 DEF KillStalled
<1>12. ASSUME EngineStops PROVE Types'
  BY <1>12 DEF EngineStops
<1>13. ASSUME End PROVE Types'
  BY <1>13 DEF End
<1>14. ASSUME NEW e \in Encoders, NEW f \in Formats, Claim(e, f) PROVE Types'
  BY <1>14 DEF Claim, ClaimUnserialised
<1>15. ASSUME NEW e \in Encoders, Register(e) PROVE Types'
  <2>1. PICK from \in Starts : Registering(e, from)
    BY <1>15 DEF Register
  <2>2. Snapshot(from) \in Seq(Nat) /\ Len(Snapshot(from)) \in Nat
    BY SnapshotSequence
  <2>3. stream' \in [Encoders -> Seq(Nat)] /\ primed' \in [Encoders -> Nat]
    BY <2>1, <2>2 DEF Registering
  <2>4. /\ map' \in [Formats -> Encoders \cup {None}]
        /\ state' \in [Encoders -> {"unused", "claimed", "spawning", "running",
                                    "dropping", "dropped"}]
    BY <2>1 DEF Registering
  <2>5. UNCHANGED <<puller, creating, fmt, feeding, ffmpeg, finished>>
    BY <2>1 DEF Registering
  <2> QED
    BY <2>3, <2>4, <2>5
<1>16. ASSUME NEW e \in Encoders, Refuse(e) PROVE Types'
  BY <1>16 DEF Refuse
<1>17. ASSUME NEW e \in Encoders, Spawn(e) PROVE Types'
  BY <1>17 DEF Spawn
<1>18. ASSUME NEW e \in Encoders, SpawnFails(e) PROVE Types'
  BY <1>18 DEF SpawnFails
<1>19. ASSUME NEW e \in Encoders, ThreadFails(e) PROVE Types'
  BY <1>19 DEF ThreadFails
<1>20. ASSUME NEW e \in Encoders, Release(e) PROVE Types'
  BY <1>20 DEF Release
<1>21. ASSUME NEW e \in Encoders, Deregister(e) PROVE Types'
  BY <1>21 DEF Deregister, Deregistering
<1>22. ASSUME NEW e \in Encoders, Take(e) PROVE Types'
  <2>1. taken' \in [Encoders -> Nat]
    BY <1>22 DEF Take
  <2>2. feeder' \in [Encoders -> {"none", "idle", "writing", "left", "closed"}]
    BY <1>22 DEF Take
  <2>3. UNCHANGED <<puller, map, creating, state, fmt, stream, primed, wrote,
                    ffmpeg, finished>>
    BY <1>22 DEF Take
  <2> QED
    BY <2>1, <2>2, <2>3
<1>23. ASSUME NEW e \in Encoders, Wrote(e) PROVE Types'
  BY <1>23 DEF Wrote
<1>24. ASSUME NEW e \in Encoders, LeaveLoop(e) PROVE Types'
  BY <1>24 DEF LeaveLoop
<1>25. ASSUME NEW e \in Encoders, CloseProgress(e) PROVE Types'
  BY <1>25 DEF CloseProgress
<1>26. ASSUME NEW e \in Encoders, Hang(e) PROVE Types'
  BY <1>26 DEF Hang
<1>27. ASSUME NEW e \in Encoders, Crash(e) PROVE Types'
  BY <1>27 DEF Crash
<1>28. ASSUME NEW e \in Encoders, ExitAtEof(e) PROVE Types'
  BY <1>28 DEF ExitAtEof
<1>29. ASSUME NEW e \in Encoders, Finish(e) PROVE Types'
  BY <1>29 DEF Finish
<1>30. CASE UNCHANGED vars
  BY <1>30 DEF vars
<1> QED
  BY <1>1, <1>2, <1>3, <1>4, <1>5, <1>6, <1>7, <1>8, <1>9, <1>10, <1>11, <1>12, <1>13, <1>14, <1>15, <1>16, <1>17, <1>18, <1>19, <1>20, <1>21, <1>22, <1>23, <1>24, <1>25, <1>26, <1>27, <1>28, <1>29, <1>30
  DEF Next, PullerStep, Sending, GivingUp, Creating, Dropping, FeederStep, Ffmpeg

-----------------------------------------------------------------------------
(* Which actions change what. *)

\* Only the puller changes its own variables.
LEMMA PullerFrame ==
  ASSUME [Next]_vars
  PROVE  PullerStep \/ UNCHANGED puller
BY DEF Next, vars, Creating, Dropping, FeederStep, Ffmpeg, Claim,
       ClaimUnserialised, Register, Registering, Refuse, Spawn, SpawnFails,
       ThreadFails, Release, Deregister, Deregistering, Take, Wrote, LeaveLoop,
       CloseProgress, Hang, Crash, ExitAtEof, Finish

\* An encoder's input grows when the puller sends and when it is registered.
LEMMA StreamFrame ==
  ASSUME [Next]_vars
  PROVE  Sent \/ (\E e \in Encoders : Register(e)) \/ UNCHANGED <<stream, primed>>
BY DEF Next, vars, PullerStep, Sending, GivingUp, Creating, Dropping, FeederStep,
       Ffmpeg, Push, Collect, NextTarget, QueueFull, Moved, FoundGone, StallTimeout,
       GiveUp, ChunkDone, Unregister, Unregistering, KillStalled, EngineStops, End,
       Claim, ClaimUnserialised, Refuse, Spawn, SpawnFails, ThreadFails, Release,
       Deregister, Deregistering, Take, Wrote, LeaveLoop, CloseProgress, Hang,
       Crash, ExitAtEof, Finish, theirs

\* Its feeder's counters are the feeder's own.
LEMMA FeederFrame ==
  ASSUME [Next]_vars
  PROVE  \/ \E e \in Encoders : Take(e) \/ Wrote(e)
         \/ UNCHANGED <<taken, wrote>>
BY DEF Next, vars, PullerStep, Sending, GivingUp, Creating, Dropping, FeederStep,
       Ffmpeg, Push, Collect, NextTarget, Sent, Send, QueueFull, Moved, FoundGone,
       StallTimeout, GiveUp, ChunkDone, Unregister, Unregistering, KillStalled,
       EngineStops, End, Claim, ClaimUnserialised, Register, Registering, Refuse,
       Spawn, SpawnFails, ThreadFails, Release, Deregister, Deregistering,
       LeaveLoop, CloseProgress, Hang, Crash, ExitAtEof, Finish, theirs, feeding

\* An entry of the map changes in five places.
LEMMA MapFrame ==
  ASSUME [Next]_vars
  PROVE  \/ Unregister \/ End
         \/ \E e \in Encoders : Register(e) \/ SpawnFails(e) \/ Deregister(e)
         \/ UNCHANGED map
BY DEF Next, vars, PullerStep, Sending, GivingUp, Creating, Dropping, FeederStep,
       Ffmpeg, Push, Collect, NextTarget, Sent, Send, QueueFull, Moved, FoundGone,
       StallTimeout, GiveUp, ChunkDone, KillStalled, EngineStops, Claim,
       ClaimUnserialised, Refuse, Spawn, ThreadFails, Release, Take, Wrote,
       LeaveLoop, CloseProgress, Hang, Crash, ExitAtEof, Finish, theirs

-----------------------------------------------------------------------------
(* The puller's locals. *)

LEMMA ControlStep ==
  ASSUME Types, Control, [Next]_vars
  PROVE  Control'
<1> USE NoneAssumption DEF Types, Control, sending, verdicts
<1>1. ASSUME PullerStep PROVE Control'
  <2>1. ASSUME Push PROVE Control'
    BY <2>1 DEF Push
  <2>2. ASSUME Collect PROVE Control'
    BY <2>2 DEF Collect
  <2>3. ASSUME NEW e \in Encoders, NextTarget(e) PROVE Control'
    BY <2>3 DEF NextTarget
  <2>4. ASSUME Sent PROVE Control'
    BY <2>4 DEF Sent, Send
  <2>5. ASSUME QueueFull \/ Moved PROVE Control'
    BY <2>5 DEF QueueFull, Moved
  <2>6. ASSUME FoundGone \/ StallTimeout PROVE Control'
    BY <2>6 DEF FoundGone, StallTimeout, GiveUp
  <2>7. ASSUME ChunkDone PROVE Control'
    BY <2>7 DEF ChunkDone
  <2>8. ASSUME Unregister PROVE Control'
    BY <2>8 DEF Unregister, Unregistering
  <2>9. ASSUME NEW w \in removed, KillStalled(w) PROVE Control'
    BY <2>9 DEF KillStalled
  <2>10. ASSUME EngineStops \/ End PROVE Control'
    BY <2>10 DEF EngineStops, End
  <2> QED
    BY <1>1, <2>1, <2>2, <2>3, <2>4, <2>5, <2>6, <2>7, <2>8, <2>9, <2>10
    DEF PullerStep, Sending, GivingUp
<1>2. ASSUME UNCHANGED puller PROVE Control'
  BY <1>2 DEF puller
<1> QED
  BY <1>1, <1>2, PullerFrame

-----------------------------------------------------------------------------
(* Queues. *)

LEMMA CounterStep ==
  ASSUME Types, Control, Slots, Counters, [Next]_vars
  PROVE  Counters'
<1> USE QueueAssumption DEF Types, Counters, Queued
<1>1. ASSUME Sent PROVE Counters'
  <2>1. PICK c \in Encoders : c = cur
    BY <1>1, NoneAssumption DEF Sent, Send, Control
  <2>2. stream[c] \in Seq(Nat) /\ pushed \in Nat
    BY <2>1
  <2>3. Len(Append(stream[c], pushed)) = Len(stream[c]) + 1 /\ Len(stream[c]) \in Nat
    BY <2>2, OneMore
  <2>4. stream' = [stream EXCEPT ![c] = Append(stream[c], pushed)]
    BY <1>1, <2>1 DEF Sent, Send
  <2>5. UNCHANGED <<primed, taken, wrote>> /\ Queued(c) <= Queue - 1
    BY <1>1, <2>1 DEF Sent, Send, theirs, feeding
  <2>6. Len(stream'[c]) = Len(stream[c]) + 1
    BY <2>3, <2>4
  <2>7. ASSUME NEW e \in Encoders, e # c
        PROVE  Len(stream'[e]) = Len(stream[e])
    BY <2>4, <2>7
  <2>8. primed[c] \in Nat /\ taken[c] \in Nat /\ taken[c] <= Len(stream[c])
    BY <2>1
  <2>9. Queued(c)' = Queued(c) + 1 /\ Queued(c) \in 0..Queue
    <3>1. Queued(c) \in 0..Queue
      OBVIOUS
    <3>2. /\ Queued(c) = Held(Len(stream[c]), primed[c], taken[c])
          /\ Queued(c)' = Held(Len(stream[c]) + 1, primed[c], taken[c])
      BY <2>5, <2>6 DEF Held
    <3> HIDE DEF Queued, Types, Counters
    <3> QED
      BY <2>3, <2>8, <3>1, <3>2, HeldSteps
  <2>10. Queued(c)' \in 0..Queue
    <3> HIDE DEF Queued, Types, Counters
    <3> QED
      BY <2>5, <2>9
  <2>11. ASSUME NEW e \in Encoders
         PROVE  /\ wrote'[e] <= taken'[e] /\ taken'[e] <= Len(stream'[e])
                /\ Queued(e)' \in 0..Queue
    <3>1. CASE e = c
      <4>1. wrote[c] <= taken[c] /\ wrote[c] \in Nat
        BY <2>1
      <4> HIDE DEF Queued, Types, Counters
      <4> QED
        BY <3>1, <4>1, <2>3, <2>5, <2>6, <2>8, <2>10
    <3>2. CASE e # c
      BY <3>2, <2>5, <2>7
    <3> QED
      BY <3>1, <3>2
  <2> QED
    BY <2>11
<1>2. ASSUME NEW e \in Encoders, Register(e) PROVE Counters'
  <2>1. Len(stream[e]) = 0
    BY <1>2 DEF Register, Registering, Slots
  <2>2. taken[e] = 0 /\ wrote[e] = 0
    BY <2>1
  <2>3. PICK from \in Starts : Registering(e, from)
    BY <1>2 DEF Register
  <2>4. Len(Snapshot(from)) \in Nat
    BY SnapshotSequence
  <2>5. /\ stream' = [stream EXCEPT ![e] = Snapshot(from)]
        /\ primed' = [primed EXCEPT ![e] = Len(Snapshot(from))]
        /\ UNCHANGED <<taken, wrote>>
    BY <2>3 DEF Registering, feeding
  <2>6. stream'[e] = Snapshot(from) /\ primed'[e] = Len(Snapshot(from))
    BY <2>5
  <2>7. ASSUME NEW x \in Encoders, x # e
        PROVE  stream'[x] = stream[x] /\ primed'[x] = primed[x]
    BY <2>5, <2>7
  <2>8. /\ wrote'[e] <= taken'[e] /\ taken'[e] <= Len(stream'[e])
        /\ Queued(e)' \in 0..Queue
    <3> HIDE DEF Types, Counters
    <3> QED
      BY <2>2, <2>4, <2>5, <2>6
  <2> QED
    BY <2>5, <2>7, <2>8
<1>3. ASSUME NEW e \in Encoders, Take(e) PROVE Counters'
  <2>1. Len(stream[e]) \in Nat
    OBVIOUS
  <2>2. taken' = [taken EXCEPT ![e] = taken[e] + 1] /\ taken[e] < Len(stream[e])
    BY <1>3 DEF Take
  <2>3. UNCHANGED <<stream, primed, wrote>>
    BY <1>3 DEF Take
  <2>4. ASSUME NEW x \in Encoders, x # e
        PROVE  taken'[x] = taken[x]
    BY <2>2, <2>4
  <2>5. taken'[e] = taken[e] + 1 /\ taken[e] \in Nat /\ primed[e] \in Nat
    BY <2>2
  <2>6. /\ wrote'[e] <= taken'[e] /\ taken'[e] <= Len(stream'[e])
        /\ Queued(e)' \in 0..Queue
    <3>1. wrote[e] <= taken[e] /\ wrote[e] \in Nat /\ Queued(e) \in 0..Queue
      OBVIOUS
    <3>2. /\ Queued(e) = Held(Len(stream[e]), primed[e], taken[e])
          /\ Queued(e)' = Held(Len(stream[e]), primed[e], taken[e] + 1)
      BY <2>3, <2>5 DEF Held
    <3> HIDE DEF Queued, Types, Counters
    <3>3. wrote'[e] <= taken'[e] /\ taken'[e] <= Len(stream'[e])
      BY <2>1, <2>2, <2>3, <2>5, <3>1
    <3> QED
      BY <2>1, <2>2, <2>5, <3>1, <3>2, <3>3, HeldSteps
  <2> QED
    BY <2>3, <2>4, <2>6
<1>4. ASSUME NEW e \in Encoders, Wrote(e) PROVE Counters'
  <2>1. wrote' = [wrote EXCEPT ![e] = taken[e]]
    BY <1>4 DEF Wrote
  <2>2. UNCHANGED <<stream, primed, taken>>
    BY <1>4 DEF Wrote
  <2> QED
    BY <2>1, <2>2
<1>5. ASSUME UNCHANGED <<stream, primed, taken, wrote>> PROVE Counters'
  BY <1>5
<1>6. Sent \/ (\E e \in Encoders : Register(e)) => UNCHANGED <<taken, wrote>>
  BY DEF Sent, Send, Register, Registering, theirs, feeding
<1>7. (\E e \in Encoders : Take(e) \/ Wrote(e)) => UNCHANGED <<stream, primed>>
  BY DEF Take, Wrote
<1> QED
  BY <1>1, <1>2, <1>3, <1>4, <1>5, StreamFrame, FeederFrame

-----------------------------------------------------------------------------
(* What holds a slot. *)

LEMMA SlotsStep ==
  ASSUME Types, Control, Slots, [Next]_vars
  PROVE  Slots'
<1> USE NoneAssumption DEF Types, Slots
<1>1. ASSUME Sent PROVE Slots'
  <2>1. PICK c \in Encoders : c = cur
    BY <1>1 DEF Sent, Send, Control
  <2>2. stream[c] \in Seq(Nat) /\ pushed \in Nat /\ primed[c] <= Len(stream[c])
    BY <2>1
  <2>3. /\ Append(stream[c], pushed) # <<>>
        /\ Len(Append(stream[c], pushed)) = Len(stream[c]) + 1
        /\ Len(stream[c]) \in Nat
    BY <2>2, OneMore
  <2>4. stream' = [stream EXCEPT ![c] = Append(stream[c], pushed)] /\ cur' = None
    BY <1>1, <2>1 DEF Sent, Send
  <2>5. UNCHANGED <<primed, state, map, fmt, targets>>
    BY <1>1 DEF Sent, Send, theirs
  <2>6. state[c] \notin {"unused", "claimed"}
    BY <2>1
  <2>7. primed[c] <= Len(stream'[c])
    BY <2>1, <2>2, <2>3, <2>4
  <2>8. ASSUME NEW e \in Encoders, e # c PROVE stream'[e] = stream[e]
    BY <2>4, <2>8
  <2>9. stream'[c] # <<>>
    BY <2>3, <2>4
  <2> QED
    BY <2>4, <2>5, <2>6, <2>7, <2>8, <2>9
<1>2. ASSUME NEW e \in Encoders, Register(e) PROVE Slots'
  <2>1. PICK from \in Starts : Registering(e, from)
    BY <1>2 DEF Register
  <2>2. Len(Snapshot(from)) \in Nat \ {0} /\ Snapshot(from) # <<>>
    BY SnapshotSequence
  <2>3. /\ stream' = [stream EXCEPT ![e] = Snapshot(from)]
        /\ primed' = [primed EXCEPT ![e] = Len(Snapshot(from))]
        /\ map' = [map EXCEPT ![fmt[e]] = e]
        /\ state' = [state EXCEPT ![e] = "spawning"]
        /\ UNCHANGED <<fmt, targets, cur>>
    BY <2>1 DEF Registering, puller, sending
  <2> QED
    BY <2>2, <2>3
<1>3. ASSUME NEW e \in Encoders, NEW f \in Formats, Claim(e, f) PROVE Slots'
  BY <1>3 DEF Claim, ClaimUnserialised, puller, sending
<1>4. ASSUME Collect PROVE Slots'
  BY <1>4 DEF Collect, Registered, theirs
<1>5. ASSUME NEW e \in Encoders, NextTarget(e) PROVE Slots'
  BY <1>5 DEF NextTarget, theirs
<1>6. ASSUME FoundGone \/ StallTimeout PROVE Slots'
  BY <1>6 DEF FoundGone, StallTimeout, GiveUp, theirs
<1>7. ASSUME Unregister PROVE Slots'
  BY <1>7 DEF Unregister, Unregistering, theirs, sending
<1>8. ASSUME End PROVE Slots'
  BY <1>8 DEF End, theirs, sending
<1>9. ASSUME NEW e \in Encoders,
             Refuse(e) \/ Spawn(e) \/ ThreadFails(e) \/ Release(e)
      PROVE  Slots'
  <2>1. /\ UNCHANGED <<stream, primed, fmt, map, targets, cur>>
        /\ state' = [state EXCEPT ![e] = state'[e]]
        /\ state'[e] \in {"running", "dropping", "dropped"}
        /\ state[e] # "claimed" \/ state'[e] = "dropped"
    BY <1>9 DEF Refuse, Spawn, ThreadFails, Release, puller, sending
  <2> QED
    BY <2>1
<1>10. ASSUME NEW e \in Encoders, SpawnFails(e) PROVE Slots'
  BY <1>10 DEF SpawnFails, puller, sending
<1>11. ASSUME NEW e \in Encoders, Deregister(e) PROVE Slots'
  BY <1>11 DEF Deregister, Deregistering, puller, sending
<1>12. ASSUME UNCHANGED <<stream, primed, state, fmt, map, targets, cur>>
       PROVE  Slots'
  BY <1>12
<1>13. \/ Push \/ QueueFull \/ Moved \/ ChunkDone \/ EngineStops
       \/ \E w \in removed : KillStalled(w)
       \/ \E e \in Encoders : FeederStep(e) \/ Ffmpeg(e)
       \/ UNCHANGED vars
       => UNCHANGED <<stream, primed, state, fmt, map, targets, cur>>
  BY DEF Push, QueueFull, Moved, ChunkDone, EngineStops, KillStalled, FeederStep,
         Ffmpeg, Take, Wrote, LeaveLoop, CloseProgress, Hang, Crash, ExitAtEof,
         Finish, theirs, puller, sending, vars
<1> QED
  BY <1>1, <1>2, <1>3, <1>4, <1>5, <1>6, <1>7, <1>8, <1>9, <1>10, <1>11, <1>12, <1>13
  DEF Next, PullerStep, Sending, GivingUp, Creating, Dropping

-----------------------------------------------------------------------------
LEMMA TypeInitial == Init => TypeOK /\ Control /\ Slots
<1> SUFFICES ASSUME Init PROVE TypeOK /\ Control /\ Slots
  OBVIOUS
<1>1. (CHOOSE f \in Formats : TRUE) \in Formats
  BY FormatsAssumption
<1>2. <<>> \in Seq(Nat) /\ Len(<<>>) = 0
  OBVIOUS
<1>3. Types
  BY <1>1, <1>2, BoundAssumption DEF Init, Types
<1>4. Counters
  BY <1>2, QueueAssumption DEF Init, Counters, Queued
<1>5. Control
  BY NoneAssumption DEF Init, Control
<1>6. Slots
  BY <1>2 DEF Init, Slots
<1> QED
  BY <1>3, <1>4, <1>5, <1>6 DEF TypeOK

-----------------------------------------------------------------------------
(* How far an encoder's input may be behind the window. *)

LEMMA SeamStep ==
  ASSUME Types, Control, Slots, Seam, [Next]_vars
  PROVE  Seam'
<1> USE NoneAssumption DEF Types, Seam, Due, Last, Registered, Verdicts
<1>1. ASSUME Push PROVE Seam'
  <2>1. \A e \in Encoders : Registered(e) => Last(e) = pushed
    <3>1. pc = "reading" /\ targets = {} /\ cur = None /\ wedged = {}
      BY <1>1 DEF Push, Control
    <3>2. \A e \in Encoders : ~Due(e)
      BY <3>1
    <3> HIDE DEF Due, Last, Registered, Types
    <3> QED
      BY <3>1, <3>2
  <2>2. targets = {} /\ cur = None /\ pushed \in Nat /\ pushed' = pushed + 1
    BY <1>1 DEF Push, Control
  <2>3. UNCHANGED <<stream, primed, map, fmt, targets, cur>> /\ pc' = "pushed"
    BY <1>1 DEF Push, sending, theirs
  <2> QED
    BY <2>1, <2>2, <2>3
<1>2. ASSUME Collect PROVE Seam'
  BY <1>2 DEF Collect, Control, verdicts, theirs
<1>3. ASSUME NEW e \in Encoders, NextTarget(e) PROVE Seam'
  BY <1>3 DEF NextTarget, Control, verdicts, theirs
<1>4. ASSUME Sent PROVE Seam'
  <2>1. PICK c \in Encoders : c = cur /\ c \notin targets
    BY <1>4 DEF Sent, Send, Control
  <2>2. stream[c] \in Seq(Nat) /\ pushed \in Nat
    BY <2>1
  <2>3. stream' = [stream EXCEPT ![c] = Append(stream[c], pushed)]
    BY <1>4, <2>1 DEF Sent, Send
  <2>4. stream'[c][Len(stream'[c])] = pushed
    BY <2>2, <2>3
  <2>5. ASSUME NEW e \in Encoders, e # c PROVE stream'[e] = stream[e]
    BY <2>3, <2>5
  <2>6. /\ pc = "offering" /\ pc' = "sending" /\ cur' = None
        /\ UNCHANGED <<pushed, map, fmt, primed, targets, wedged>>
    BY <1>4 DEF Sent, Send, verdicts, theirs
  <2>7. Last(c)' = pushed' /\ ~Due(c)'
    BY <2>1, <2>4, <2>6
  <2>8. ASSUME NEW e \in Encoders, e # c
        PROVE  /\ Last(e)' = Last(e) /\ Len(stream'[e]) = Len(stream[e])
               /\ Due(e)' = Due(e) /\ Registered(e)' = Registered(e)
    BY <2>1, <2>5, <2>6, <2>8
  <2> HIDE DEF Due, Last, Registered, Types
  <2> QED
    BY <2>6, <2>7, <2>8
<1>5. ASSUME QueueFull \/ Moved PROVE Seam'
  BY <1>5 DEF QueueFull, Moved, sending, verdicts, theirs
<1>6. ASSUME NEW why \in Verdicts, GiveUp(why), pc \in {"offering", "waiting"}
      PROVE  Seam'
  <2>1. PICK c \in Encoders : c = cur /\ c \notin targets
    BY <1>6 DEF Control
  <2>2. /\ wedged' = wedged \cup {<<c, why>>} /\ cur' = None /\ pc' = "sending"
        /\ UNCHANGED <<pushed, map, fmt, stream, primed, targets>>
    BY <1>6, <2>1 DEF GiveUp, theirs
  <2> QED
    BY <1>6, <2>1, <2>2
<1>7. ASSUME ChunkDone PROVE Seam'
  BY <1>7 DEF ChunkDone, Control, sending, verdicts, theirs
<1>8. ASSUME Unregister PROVE Seam'
  <2>1. targets = {} /\ cur = None /\ pc = "unregistering" /\ pc' \in {"reading", "killing"}
    BY <1>8 DEF Unregister, Unregistering, Control
  <2>2. UNCHANGED <<pushed, fmt, stream, primed, targets, cur>>
    BY <1>8 DEF Unregister, Unregistering, sending, theirs
  <2>3. ASSUME NEW e \in Encoders, map'[fmt[e]] = e
        PROVE  map[fmt[e]] = e /\ \A why \in Verdicts : <<e, why>> \notin wedged
    <3>1. map'[fmt[e]] =
            IF \E w \in {v \in wedged : Registered(v[1])} : fmt[w[1]] = fmt[e]
            THEN None ELSE map[fmt[e]]
      BY <1>8 DEF Unregister, Unregistering
    <3>2. map[fmt[e]] = e
      BY <2>3, <3>1
    <3>3. \A v \in wedged : map[fmt[v[1]]] = v[1] => fmt[v[1]] # fmt[e]
      BY <2>3, <3>1
    <3>4. ASSUME NEW why \in Verdicts, <<e, why>> \in wedged PROVE FALSE
      BY <3>2, <3>3, <3>4
    <3> QED
      BY <3>2, <3>4
  <2> QED
    BY <2>1, <2>2, <2>3
<1>9. ASSUME EngineStops \/ End \/ (\E w \in removed : KillStalled(w)) PROVE Seam'
  <2>1. pc \in {"reading", "stopping", "killing"} /\ pc' # "pushed"
    BY <1>9 DEF EngineStops, End, KillStalled
  <2>2. targets = {} /\ cur = None /\ wedged = {}
    BY <2>1 DEF Control
  <2>3. /\ UNCHANGED <<pushed, targets, cur, wedged, fmt, stream, primed>>
        /\ \A f \in Formats : map'[f] \in {None, map[f]}
    BY <1>9 DEF EngineStops, End, KillStalled, sending, verdicts, theirs
  <2>4. ASSUME NEW e \in Encoders PROVE ~Due(e) /\ ~Due(e)'
    BY <2>1, <2>2, <2>3
  <2> QED
    BY <2>2, <2>3, <2>4
<1>10. ASSUME NEW e \in Encoders, NEW f \in Formats, Claim(e, f) PROVE Seam'
  <2>1. /\ UNCHANGED <<pc, pushed, targets, cur, wedged, map, stream, primed>>
        /\ fmt' = [fmt EXCEPT ![e] = f] /\ stream[e] = <<>>
    BY <1>10 DEF Claim, ClaimUnserialised, Slots, puller, sending, verdicts
  <2>2. e \notin targets /\ e # cur /\ \A g \in Formats : map[g] # e
    BY <2>1 DEF Slots
  <2>3. ~Registered(e)' /\ ~Due(e)'
    BY <2>1, <2>2
  <2>4. ASSUME NEW x \in Encoders, x # e
        PROVE  Registered(x)' = Registered(x) /\ Due(x)' = Due(x)
    BY <2>1, <2>4
  <2> QED
    BY <2>1, <2>3, <2>4
<1>11. ASSUME NEW e \in Encoders, Register(e) PROVE Seam'
  <2>1. PICK from \in Starts : Registering(e, from)
    BY <1>11 DEF Register
  <2>2. /\ Len(Snapshot(from)) \in Nat \ {0}
        /\ Snapshot(from)[Len(Snapshot(from))] = pushed
    <3>1. from \in 1..pushed /\ pushed \in Nat
      BY DEF Starts
    <3>2. /\ Len(Snapshot(from)) = pushed - from + 1
          /\ Len(Snapshot(from)) \in Nat \ {0}
          /\ \A i \in 1..Len(Snapshot(from)) : Snapshot(from)[i] = from + i - 1
      BY <3>1, SnapshotSequence
    <3> HIDE DEF Types, Seam
    <3> QED
      BY <3>1, <3>2
  <2>3. /\ stream' = [stream EXCEPT ![e] = Snapshot(from)]
        /\ primed' = [primed EXCEPT ![e] = Len(Snapshot(from))]
        /\ map' = [map EXCEPT ![fmt[e]] = e] /\ stream[e] = <<>>
        /\ UNCHANGED <<pc, pushed, targets, cur, wedged, fmt>>
    BY <2>1 DEF Registering, Slots, puller, sending, verdicts
  <2>4. Last(e)' = pushed' /\ Len(stream'[e]) = primed'[e]
    BY <2>2, <2>3
  <2>5. ASSUME NEW x \in Encoders, x # e
        PROVE  /\ stream'[x] = stream[x] /\ primed'[x] = primed[x]
               /\ Registered(x)' => Registered(x)
               /\ Due(x)' => Due(x)
               /\ Registered(x)' /\ ~Due(x)' => ~Due(x)
    BY <2>3, <2>5
  <2>6. ASSUME NEW x \in Encoders, x # e PROVE Last(x)' = Last(x)
    BY <2>5, <2>6
  <2> HIDE DEF Due, Last, Registered, Types
  <2> QED
    BY <2>3, <2>4, <2>5, <2>6
<1>12. ASSUME NEW e \in Encoders, SpawnFails(e) \/ Deregister(e) PROVE Seam'
  <2>1. /\ UNCHANGED <<pc, pushed, targets, cur, wedged, fmt, stream, primed>>
        /\ \A f \in Formats : map'[f] \in {None, map[f]}
    BY <1>12 DEF SpawnFails, Deregister, Deregistering, puller, sending, verdicts
  <2>2. ASSUME NEW x \in Encoders
        PROVE  /\ Registered(x)' => Registered(x)
               /\ Due(x)' => Due(x)
               /\ Registered(x)' /\ ~Due(x)' => ~Due(x)
    BY <2>1
  <2> QED
    BY <2>1, <2>2
<1>13. ASSUME UNCHANGED <<pc, pushed, targets, cur, wedged, map, fmt, stream, primed>>
       PROVE  Seam'
  BY <1>13
<1>14. \/ \E e \in Encoders :
            \/ Refuse(e) \/ Spawn(e) \/ ThreadFails(e) \/ Release(e)
            \/ FeederStep(e) \/ Ffmpeg(e)
       \/ UNCHANGED vars
       => UNCHANGED <<pc, pushed, targets, cur, wedged, map, fmt, stream, primed>>
  BY DEF Refuse, Spawn, ThreadFails, Release, FeederStep, Ffmpeg, Take, Wrote,
         LeaveLoop, CloseProgress, Hang, Crash, ExitAtEof, Finish, theirs, puller,
         sending, verdicts, vars
<1>15. FoundGone \/ StallTimeout =>
         \E why \in Verdicts : GiveUp(why) /\ pc \in {"offering", "waiting"}
  BY DEF FoundGone, StallTimeout
<1> QED
  BY <1>1, <1>2, <1>3, <1>4, <1>5, <1>6, <1>7, <1>8, <1>9, <1>10, <1>11, <1>12,
     <1>13, <1>14, <1>15
  DEF Next, PullerStep, Sending, GivingUp, Creating, Dropping

-----------------------------------------------------------------------------
(* No gap. *)

LEMMA GapStep ==
  ASSUME Types, Control, Slots, Seam, NoGap, [Next]_vars
  PROVE  NoGap'
<1> DEFINE Next1(s, i, k) == s[i + 1] = s[i] + 1 \/ (i = k /\ s[i + 1] = s[i])
<1>1. ASSUME Sent PROVE NoGap'
  <2>1. PICK c \in Encoders : c = cur
    BY <1>1, NoneAssumption DEF Sent, Send, Control, Types
  <2>2. /\ stream[c] \in Seq(Nat) /\ Len(stream[c]) \in Nat \ {0}
        /\ pushed \in Nat /\ primed[c] \in Nat
    BY <2>1, NoneAssumption DEF Types, Slots
  <2>3. /\ stream' = [stream EXCEPT ![c] = Append(stream[c], pushed)]
        /\ primed' = primed
    BY <1>1, <2>1 DEF Sent, Send, theirs
  <2>4. stream'[c] = Append(stream[c], pushed)
    BY <2>3 DEF Types
  <2>5. /\ Len(stream'[c]) = Len(stream[c]) + 1
        /\ stream'[c][Len(stream[c]) + 1] = pushed
        /\ \A i \in 1..Len(stream[c]) : stream'[c][i] = stream[c][i]
    BY <2>2, <2>4
  <2>6. \/ stream[c][Len(stream[c])] = pushed - 1
        \/ stream[c][Len(stream[c])] = pushed /\ Len(stream[c]) = primed[c]
    BY <2>1 DEF Seam, Due, Last
  <2>7. ASSUME NEW i \in 1..(Len(stream'[c]) - 1) PROVE Next1(stream'[c], i, primed'[c])
    <3>1. CASE i = Len(stream[c])
      BY <3>1, <2>2, <2>3, <2>5, <2>6
    <3>2. CASE i # Len(stream[c])
      <4>1. i \in 1..(Len(stream[c]) - 1) /\ i + 1 \in 1..Len(stream[c])
        BY <3>2, <2>2, <2>5
      <4>2. Next1(stream[c], i, primed[c])
        BY <4>1 DEF NoGap
      <4> QED
        BY <4>1, <4>2, <2>2, <2>3, <2>5
    <3> QED
      BY <3>1, <3>2
  <2>8. ASSUME NEW e \in Encoders, e # c PROVE stream'[e] = stream[e]
    BY <2>3, <2>8 DEF Types
  <2> QED
    BY <2>3, <2>7, <2>8 DEF NoGap
<1>2. ASSUME NEW e \in Encoders, Register(e) PROVE NoGap'
  <2>1. PICK from \in Starts : Registering(e, from)
    BY <1>2 DEF Register
  <2>2. /\ Len(Snapshot(from)) \in Nat \ {0}
        /\ \A i \in 1..Len(Snapshot(from)) : Snapshot(from)[i] = from + i - 1
    BY SnapshotSequence DEF Types
  <2>3. ASSUME NEW i \in 1..(Len(Snapshot(from)) - 1)
        PROVE  Snapshot(from)[i + 1] = Snapshot(from)[i] + 1
    <3>1. i \in 1..Len(Snapshot(from)) /\ i + 1 \in 1..Len(Snapshot(from))
      BY <2>2
    <3>2. from \in Nat
      BY DEF Starts, Types
    <3> QED
      BY <2>2, <3>1, <3>2
  <2>4. /\ stream'[e] = Snapshot(from)
        /\ \A x \in Encoders : x # e => stream'[x] = stream[x] /\ primed'[x] = primed[x]
    BY <2>1 DEF Registering, Types
  <2> QED
    BY <2>3, <2>4 DEF NoGap
<1>3. ASSUME UNCHANGED <<stream, primed>> PROVE NoGap'
  BY <1>3 DEF NoGap
<1> QED
  BY <1>1, <1>2, <1>3, StreamFrame

-----------------------------------------------------------------------------
(* The end. *)

LEMMA EndStep ==
  ASSUME Types, EndIsFinal, [Next]_vars
  PROVE  EndIsFinal'
<1> USE DEF Types, EndIsFinal
<1>1. CASE pc = "ended"
  <2>1. ~PullerStep
    BY <1>1 DEF PullerStep, Push, Collect, Sending, NextTarget, Sent, Send,
       QueueFull, Moved, FoundGone, StallTimeout, ChunkDone, GivingUp, Unregister,
       Unregistering, KillStalled, EngineStops, End
  <2>2. UNCHANGED puller
    BY <2>1, PullerFrame
  <2>3. ASSUME NEW e \in Encoders, SpawnFails(e) \/ Deregister(e) PROVE EndIsFinal'
    BY <1>1, <2>3 DEF SpawnFails, Deregister, Deregistering
  <2>4. CASE UNCHANGED map
    BY <1>1, <2>2, <2>4 DEF puller
  <2>5. ~Unregister /\ ~End /\ \A e \in Encoders : ~Register(e)
    BY <1>1 DEF Unregister, Unregistering, End, Register
  <2> QED
    BY <2>3, <2>4, <2>5, MapFrame
<1>2. CASE pc # "ended"
  <2>1. ASSUME End PROVE EndIsFinal'
    BY <2>1 DEF End
  <2>2. ASSUME PullerStep, ~End PROVE pc' # "ended"
    BY <2>2 DEF PullerStep, Push, Collect, Sending, NextTarget, Sent, Send,
       QueueFull, Moved, FoundGone, StallTimeout, GiveUp, ChunkDone, GivingUp,
       Unregister, Unregistering, KillStalled, EngineStops
  <2>3. ASSUME UNCHANGED puller PROVE pc' # "ended"
    BY <1>2, <2>3 DEF puller
  <2> QED
    BY <2>1, <2>2, <2>3, PullerFrame
<1> QED
  BY <1>1, <1>2

\* An encoder leaves the map for good when it is dropped.
LEMMA DeadStep ==
  ASSUME Types, Slots, NoDeadEntry, [Next]_vars
  PROVE  NoDeadEntry'
<1> USE NoneAssumption DEF Types, NoDeadEntry, Registered
<1>1. ASSUME NEW e \in Encoders, Register(e) PROVE NoDeadEntry'
  BY <1>1 DEF Register, Registering
<1>2. ASSUME NEW e \in Encoders, Deregister(e) PROVE NoDeadEntry'
  BY <1>2 DEF Deregister, Deregistering
<1>3. ASSUME NEW e \in Encoders, NEW f \in Formats, Claim(e, f) PROVE NoDeadEntry'
  BY <1>3 DEF Claim, ClaimUnserialised, Slots
<1>4. ASSUME NEW e \in Encoders, Refuse(e) PROVE NoDeadEntry'
  BY <1>4 DEF Refuse, Slots
<1>5. ASSUME UNCHANGED fmt, \A f \in Formats : map'[f] \in {None, map[f]},
             \A e \in Encoders : state'[e] = "dropped" => state[e] = "dropped"
      PROVE  NoDeadEntry'
  BY <1>5
<1>6. ASSUME NEW e \in Encoders,
             \/ Spawn(e) \/ SpawnFails(e) \/ ThreadFails(e) \/ Release(e)
             \/ FeederStep(e) \/ Ffmpeg(e)
      PROVE  NoDeadEntry'
  BY <1>6, <1>5 DEF Spawn, SpawnFails, ThreadFails, Release, FeederStep, Ffmpeg,
     Take, Wrote, LeaveLoop, CloseProgress, Hang, Crash, ExitAtEof, Finish, theirs
<1>7. ASSUME PullerStep \/ UNCHANGED vars PROVE NoDeadEntry'
  <2>1. UNCHANGED <<fmt, state>>
    BY <1>7 DEF PullerStep, Sending, GivingUp, Push, Collect, NextTarget, Sent,
       Send, QueueFull, Moved, FoundGone, StallTimeout, GiveUp, ChunkDone,
       Unregister, Unregistering, KillStalled, EngineStops, End, theirs, vars
  <2>2. Unregister \/ End => \A f \in Formats : map'[f] \in {None, map[f]}
    BY DEF Unregister, Unregistering, End
  <2>3. Unregister \/ End \/ UNCHANGED map
    BY <1>7 DEF PullerStep, Sending, GivingUp, Push, Collect, NextTarget, Sent,
       Send, QueueFull, Moved, FoundGone, StallTimeout, GiveUp, ChunkDone,
       KillStalled, EngineStops, theirs, vars
  <2> QED
    BY <2>1, <2>2, <2>3, <1>5
<1> QED
  BY <1>1, <1>2, <1>3, <1>4, <1>6, <1>7 DEF Next, Creating, Dropping

-----------------------------------------------------------------------------
(* Who makes an encoder, and who loses one. *)

LEMMA MakersStep ==
  ASSUME Types, Control, Slots, Makers, [Next]_vars
  PROVE  Makers'
<1> USE NoneAssumption
    DEF Types, Makers, NoneToJoin, Alive, Registered, Disconnected
<1> DEFINE Calm ==
      /\ UNCHANGED <<state, creating, fmt, finished>>
      /\ \A f \in Formats : map'[f] \in {None, map[f]}
      /\ \A e \in Encoders : <<e, "Gone">> \in wedged' => <<e, "Gone">> \in wedged
      /\ \A e \in Encoders :
           /\ feeder'[e] = "none" <=> feeder[e] = "none"
           /\ feeder'[e] \in {"left", "closed"} <=> feeder[e] \in {"left", "closed"}
      /\ \A e \in Encoders :
           \/ ffmpeg'[e] = ffmpeg[e]
           \/ state[e] \notin {"unused", "claimed", "spawning"} /\ ffmpeg[e] # "exited"
<1>1. ASSUME Calm PROVE Makers'
  <2>1. ASSUME NEW e \in Encoders
        PROVE  /\ Registered(e)' => Registered(e)
               /\ ffmpeg[e] = "exited" => ffmpeg'[e] = "exited"
               /\ Disconnected(e)' = Disconnected(e)
    BY <1>1
  <2>2. ASSUME NEW f \in Formats, NoneToJoin(f) PROVE NoneToJoin(f)'
    <3>1. map'[f] \in {None, map[f]} /\ UNCHANGED <<state, finished>>
      BY <1>1
    <3> HIDE DEF Types, Makers, Calm
    <3> QED
      BY <2>2, <3>1
  <2> HIDE DEF Registered, Disconnected, NoneToJoin
  <2>3. ASSUME NEW e \in Encoders, state'[e] = "claimed" PROVE NoneToJoin(fmt[e])'
    <3>1. fmt' = fmt /\ fmt[e] \in Formats /\ state[e] = "claimed"
      BY <1>1, <2>3
    <3>2. PICK f \in Formats : f = fmt[e] /\ NoneToJoin(f)
      BY <3>1
    <3>3. NoneToJoin(f)'
      BY <2>2, <3>2
    <3> QED
      BY <3>1, <3>2, <3>3 DEF NoneToJoin
  <2>4. ASSUME NEW e \in Encoders, state'[e] = "spawning" PROVE map'[fmt'[e]] \in {e, None}
    <3>1. fmt' = fmt /\ fmt[e] \in Formats /\ map[fmt[e]] \in {e, None}
      BY <1>1, <2>4
    <3> QED
      BY <1>1, <3>1
  <2>5. ASSUME NEW e \in Encoders,
               state'[e] \in {"unused", "claimed", "spawning"}
        PROVE  feeder'[e] = "none" /\ ffmpeg'[e] = "none"
    BY <1>1, <2>1, <2>5
  <2>6. \A e \in finished' : ffmpeg'[e] = "exited"
    BY <1>1, <2>1
  <2>7. ASSUME NEW e \in Encoders, feeder'[e] \in {"left", "closed"}
        PROVE  ~Registered(e)' \/ ffmpeg'[e] = "exited"
    BY <1>1, <2>1, <2>7
  <2>8. ASSUME NEW e \in Encoders, <<e, "Gone">> \in wedged' PROVE Disconnected(e)'
    BY <1>1, <2>1, <2>8
  <2> QED
    BY <1>1, <2>3, <2>4, <2>5, <2>6, <2>7, <2>8
<1> HIDE DEF Calm
<1>2. ASSUME FoundGone PROVE Makers'
  <2>1. PICK c \in Encoders : c = cur
    BY <1>2 DEF FoundGone, Control
  <2>2. /\ wedged' = wedged \cup {<<c, "Gone">>}
        /\ UNCHANGED <<state, creating, fmt, map, finished, feeder, ffmpeg>>
    BY <1>2, <2>1 DEF FoundGone, GiveUp, theirs, feeding
  <2>3. Disconnected(c)
    BY <1>2, <2>1 DEF FoundGone
  <2> QED
    BY <2>2, <2>3
<1>3. ASSUME NEW w \in removed, KillStalled(w) PROVE Makers'
  <2>1. UNCHANGED <<state, creating, fmt, map, finished, feeder, wedged>>
    BY <1>3 DEF KillStalled, theirs, feeding
  <2>2. \/ ffmpeg' = ffmpeg
        \/ state[w[1]] = "running" /\ ffmpeg' = [ffmpeg EXCEPT ![w[1]] = "exited"]
    BY <1>3 DEF KillStalled
  <2>3. ASSUME NEW x \in Encoders, ffmpeg'[x] # ffmpeg[x]
        PROVE  state[x] = "running" /\ ffmpeg[x] # "exited"
    <3> HIDE DEF Makers
    <3> QED
      BY <2>2, <2>3
  <2>4. Calm
    BY <2>1, <2>3 DEF Calm
  <2> QED
    BY <2>4, <1>1
<1>4. ASSUME NEW e \in Encoders, NEW f \in Formats, Claim(e, f) PROVE Makers'
  <2>1. /\ creating = None /\ creating' = e /\ NoneToJoin(f) /\ state[e] = "unused"
        /\ state' = [state EXCEPT ![e] = "claimed"] /\ fmt' = [fmt EXCEPT ![e] = f]
        /\ UNCHANGED <<map, finished, feeder, ffmpeg, wedged>>
    BY <1>4 DEF Claim, ClaimUnserialised, puller, verdicts, feeding
  <2>2. \A x \in Encoders : state[x] \notin {"claimed", "spawning"}
    BY <2>1
  <2>3. \A g \in Formats : map[g] # e
    BY <2>1 DEF Slots
  <2>4. NoneToJoin(f)'
    BY <2>1, <2>3
  <2>5. ASSUME NEW x \in Encoders, x # e
        PROVE  /\ state'[x] = state[x] /\ fmt'[x] = fmt[x]
               /\ Registered(x)' = Registered(x)
               /\ Disconnected(x)' = Disconnected(x)
    BY <2>1, <2>5
  <2>6. state'[e] = "claimed" /\ fmt'[e] = f /\ feeder[e] = "none"
        /\ ffmpeg[e] = "none" /\ <<e, "Gone">> \notin wedged
    BY <2>1
  <2>7. ~Registered(e)'
    BY <2>1, <2>3
  <2> HIDE DEF NoneToJoin, Registered, Disconnected, Types
  <2> QED
    BY <2>1, <2>2, <2>4, <2>5, <2>6, <2>7
<1>5. ASSUME NEW e \in Encoders, Register(e) PROVE Makers'
  <2>1. /\ state[e] = "claimed" /\ state' = [state EXCEPT ![e] = "spawning"]
        /\ map' = [map EXCEPT ![fmt[e]] = e]
        /\ UNCHANGED <<creating, fmt, finished, feeder, ffmpeg, wedged>>
    BY <1>5 DEF Register, Registering, puller, verdicts, feeding
  <2>2. /\ \A x \in Encoders : state[x] \in {"claimed", "spawning"} => x = e
        /\ feeder[e] = "none" /\ ffmpeg[e] = "none"
    BY <2>1
  <2>3. ASSUME NEW x \in Encoders, x # e
        PROVE  /\ state'[x] = state[x] /\ state[x] \notin {"claimed", "spawning"}
               /\ Registered(x)' => Registered(x)
    BY <2>1, <2>2, <2>3
  <2>4. state'[e] = "spawning" /\ map'[fmt'[e]] = e
    BY <2>1
  <2>5. \A x \in Encoders : Disconnected(x) => Disconnected(x)'
    BY <2>1
  <2>6. creating = e
    BY <2>1
  <2> HIDE DEF NoneToJoin, Registered, Disconnected
  <2> QED
    BY <2>1, <2>2, <2>3, <2>4, <2>5, <2>6
<1>6. ASSUME NEW e \in Encoders, Refuse(e) PROVE Makers'
  BY <1>6 DEF Refuse, puller, sending, verdicts, feeding
<1>7. ASSUME NEW e \in Encoders, Spawn(e) PROVE Makers'
  <2>1. /\ state[e] = "spawning" /\ state' = [state EXCEPT ![e] = "running"]
        /\ ffmpeg' = [ffmpeg EXCEPT ![e] = "reading"]
        /\ feeder' = [feeder EXCEPT ![e] = "idle"]
        /\ UNCHANGED <<map, fmt, finished, wedged>>
    BY <1>7 DEF Spawn, puller, verdicts
  <2>2. /\ \A x \in Encoders : state[x] \in {"claimed", "spawning"} => x = e
        /\ feeder[e] = "none" /\ ffmpeg[e] = "none" /\ e \notin finished
        /\ <<e, "Gone">> \notin wedged
    BY <2>1
  <2>3. ASSUME NEW x \in Encoders, x # e
        PROVE  /\ state'[x] = state[x] /\ state[x] \notin {"claimed", "spawning"}
               /\ feeder'[x] = feeder[x] /\ ffmpeg'[x] = ffmpeg[x]
               /\ Registered(x)' = Registered(x)
               /\ Disconnected(x)' = Disconnected(x)
    <3>1. state'[x] = state[x] /\ feeder'[x] = feeder[x] /\ ffmpeg'[x] = ffmpeg[x]
      BY <2>1, <2>3
    <3>2. state[x] \notin {"claimed", "spawning"}
      BY <2>2, <2>3
    <3> HIDE DEF Types, Makers
    <3> QED
      BY <2>1, <3>1, <3>2
  <2>4. state'[e] = "running" /\ feeder'[e] = "idle" /\ finished \subseteq Encoders
    BY <2>1
  <2>5. \A x \in Encoders : state'[x] \notin {"claimed", "spawning"}
    BY <2>3, <2>4
  <2> HIDE DEF NoneToJoin, Registered, Disconnected, Types
  <2> QED
    BY <2>1, <2>2, <2>3, <2>4, <2>5
<1>8. ASSUME NEW e \in Encoders, SpawnFails(e) PROVE Makers'
  <2>1. /\ state[e] = "spawning" /\ state' = [state EXCEPT ![e] = "dropping"]
        /\ \A f \in Formats : map'[f] \in {None, map[f]}
        /\ UNCHANGED <<creating, fmt, finished, feeder, ffmpeg, wedged>>
    BY <1>8 DEF SpawnFails, puller, verdicts, feeding
  <2>2. \A x \in Encoders : state[x] \in {"claimed", "spawning"} => x = e
    BY <2>1
  <2>3. ASSUME NEW x \in Encoders
        PROVE  /\ state'[x] \notin {"claimed", "spawning"}
               /\ state'[x] = "unused" => state[x] = "unused"
               /\ Registered(x)' => Registered(x)
               /\ Disconnected(x) => Disconnected(x)'
    BY <2>1, <2>2
  <2> HIDE DEF NoneToJoin, Registered, Disconnected
  <2> QED
    BY <2>1, <2>3
<1>9. ASSUME NEW e \in Encoders, ThreadFails(e) PROVE Makers'
  BY <1>9 DEF ThreadFails, puller, sending, verdicts, feeding
<1>10. ASSUME NEW e \in Encoders, Release(e) PROVE Makers'
  BY <1>10 DEF Release, puller, sending, verdicts, feeding
<1>11. ASSUME NEW e \in Encoders, Deregister(e) PROVE Makers'
  <2>1. /\ state[e] = "dropping" /\ state' = [state EXCEPT ![e] = "dropped"]
        /\ \A f \in Formats : map'[f] \in {None, map[f]}
        /\ creating' \in {creating, None} /\ (creating # e => creating' = creating)
        /\ UNCHANGED <<fmt, finished, feeder, ffmpeg, wedged>>
    BY <1>11 DEF Deregister, Deregistering, puller, verdicts, feeding
  <2>2. ASSUME NEW x \in Encoders, state'[x] \in {"unused", "claimed", "spawning"}
        PROVE  x # e /\ state'[x] = state[x]
    BY <2>1, <2>2
  <2>3. ASSUME NEW x \in Encoders
        PROVE  /\ Registered(x)' => Registered(x)
               /\ Disconnected(x) => Disconnected(x)'
    BY <2>1
  <2>4. ASSUME NEW f \in Formats, NoneToJoin(f) PROVE NoneToJoin(f)'
    <3>1. ASSUME NEW x \in Encoders, map'[f] = x PROVE map[f] = x
      BY <2>1, <3>1
    <3>2. ASSUME NEW x \in Encoders, Alive(x)' PROVE Alive(x)
      BY <2>1, <3>2
    <3> HIDE DEF Types, Makers, Alive
    <3> QED
      BY <2>1, <2>4, <3>1, <3>2
  <2> HIDE DEF NoneToJoin, Registered, Disconnected
  <2> QED
    BY <2>1, <2>2, <2>3, <2>4
<1>12. ASSUME NEW e \in Encoders, Take(e) \/ Wrote(e) PROVE Makers'
  <2>1. /\ UNCHANGED <<state, creating, map, fmt, finished, ffmpeg, wedged>>
        /\ feeder[e] \in {"idle", "writing"}
        /\ \E to \in {"idle", "writing"} : feeder' = [feeder EXCEPT ![e] = to]
    BY <1>12 DEF Take, Wrote, puller, verdicts
  <2>2. \A x \in Encoders :
          feeder'[x] = feeder[x] \/ {feeder[x], feeder'[x]} \subseteq {"idle", "writing"}
    BY <2>1
  <2>3. Calm
    BY <2>1, <2>2 DEF Calm
  <2> QED
    BY <2>3, <1>1
<1>13. ASSUME NEW e \in Encoders, LeaveLoop(e) \/ CloseProgress(e) PROVE Makers'
  <2>1. /\ UNCHANGED <<state, creating, map, fmt, finished, ffmpeg, wedged>>
        /\ feeder[e] # "none"
        /\ \E to \in {"left", "closed"} : feeder' = [feeder EXCEPT ![e] = to]
    BY <1>13 DEF LeaveLoop, CloseProgress, puller, verdicts
  <2>2. ~Registered(e) \/ ffmpeg[e] = "exited"
    BY <1>13 DEF LeaveLoop, CloseProgress, SenderHeld
  <2>3. state[e] \notin {"unused", "claimed", "spawning"} /\ Disconnected(e)'
    BY <2>1
  <2>4. ASSUME NEW x \in Encoders, x # e PROVE feeder'[x] = feeder[x]
    BY <2>1, <2>4
  <2>5. ASSUME NEW x \in Encoders
        PROVE  /\ Registered(x)' = Registered(x)
               /\ Disconnected(x) => Disconnected(x)'
    BY <2>1, <2>3, <2>4
  <2>6. \A f \in Formats : NoneToJoin(f)' = NoneToJoin(f)
    BY <2>1
  <2> HIDE DEF NoneToJoin, Registered, Disconnected
  <2> QED
    BY <2>1, <2>2, <2>3, <2>4, <2>5, <2>6
<1>14. ASSUME NEW e \in Encoders, Hang(e) \/ Crash(e) \/ ExitAtEof(e) PROVE Makers'
  <2>1. /\ UNCHANGED <<state, creating, map, fmt, finished, feeder, wedged>>
        /\ ffmpeg[e] \in {"reading", "hung"}
        /\ \E to \in {"hung", "exited"} : ffmpeg' = [ffmpeg EXCEPT ![e] = to]
    BY <1>14 DEF Hang, Crash, ExitAtEof, puller, verdicts, theirs, feeding
  <2>2. state[e] \notin {"unused", "claimed", "spawning"}
    BY <2>1
  <2>3. ASSUME NEW x \in Encoders, x # e PROVE ffmpeg'[x] = ffmpeg[x]
    BY <2>1, <2>3
  <2>4. Calm
    BY <2>1, <2>2, <2>3 DEF Calm
  <2> QED
    BY <2>4, <1>1
<1>15. ASSUME NEW e \in Encoders, Finish(e) PROVE Makers'
  BY <1>15 DEF Finish, puller, sending, verdicts, feeding
<1>16. ASSUME \/ Push \/ Collect \/ (\E e \in Encoders : NextTarget(e)) \/ Sent
              \/ QueueFull \/ Moved \/ StallTimeout \/ ChunkDone \/ EngineStops
              \/ Unregister \/ End \/ UNCHANGED vars
       PROVE  Makers'
  <2>1. UNCHANGED <<state, creating, fmt, finished, feeder, ffmpeg>>
    BY <1>16 DEF Push, Collect, NextTarget, Sent, Send, QueueFull, Moved,
       StallTimeout, GiveUp, ChunkDone, EngineStops, Unregister, Unregistering, End,
       vars, theirs, feeding
  <2>2. \A f \in Formats : map'[f] \in {None, map[f]}
    BY <1>16 DEF Push, Collect, NextTarget, Sent, Send, QueueFull, Moved,
       StallTimeout, GiveUp, ChunkDone, EngineStops, Unregister, Unregistering, End,
       vars
  <2>3. \A e \in Encoders : <<e, "Gone">> \in wedged' => <<e, "Gone">> \in wedged
    BY <1>16 DEF Push, Collect, NextTarget, Sent, Send, QueueFull, Moved,
       StallTimeout, GiveUp, ChunkDone, EngineStops, Unregister, Unregistering, End,
       vars, puller, sending, verdicts
  <2>4. Calm
    BY <2>1, <2>2, <2>3 DEF Calm
  <2> QED
    BY <2>4, <1>1
<1> QED
  BY <1>2, <1>3, <1>4, <1>5, <1>6, <1>7, <1>8, <1>9, <1>10, <1>11, <1>12, <1>13,
     <1>14, <1>15, <1>16
  DEF Next, PullerStep, Sending, GivingUp, Creating, Dropping, FeederStep, Ffmpeg

LEMMA FedStep ==
  ASSUME Types, Control, Slots, Makers, Fed, [Next]_vars
  PROVE  Fed'
<1> USE NoneAssumption DEF Types, Fed, Registered
<1> DEFINE Needs(e) ==
      \/ state[e] = "spawning"
      \/ state[e] = "running" /\ ffmpeg[e] \in {"reading", "hung"}
<1>1. ASSUME UNCHANGED <<map, fmt>>, pc' # "ended" => pc # "ended",
             stalled \subseteq stalled',
             \A e \in Encoders : Needs(e)' => Needs(e)
      PROVE  Fed'
  BY <1>1
<1>2. ASSUME Unregister PROVE Fed'
  <2> DEFINE Out == {w \in wedged : Registered(w[1])}
  <2>1. /\ map' = [f \in Formats |-> IF \E w \in Out : fmt[w[1]] = f THEN None ELSE map[f]]
        /\ stalled' = stalled \cup {e \in Encoders : <<e, "Stalled">> \in Out}
        /\ UNCHANGED <<state, fmt, ffmpeg, feeder>> /\ pc # "ended"
    BY <1>2 DEF Unregister, Unregistering, theirs, feeding
  <2>2. ASSUME NEW e \in Encoders, Needs(e), e \notin stalled',
               NEW w \in Out, fmt[w[1]] = fmt[e]
        PROVE  FALSE
    <3>1. e \notin stalled /\ Registered(e)
      BY <2>1, <2>2
    <3>2. w[1] = e /\ w \in wedged
      BY <2>2, <3>1
    <3>3. w = <<e, "Gone">>
      BY <2>1, <2>2, <3>2 DEF Verdicts
    <3>4. Disconnected(e) /\ (feeder[e] \in {"left", "closed"} => ffmpeg[e] = "exited")
      BY <3>1, <3>2, <3>3 DEF Makers
    <3>5. state[e] = "spawning" => feeder[e] = "none"
      BY DEF Makers
    <3> QED
      BY <2>2, <3>4, <3>5 DEF Disconnected
  <2>3. ASSUME NEW e \in Encoders, Needs(e), e \notin stalled'
        PROVE  Registered(e)'
    BY <2>1, <2>2, <2>3
  <2> QED
    BY <2>1, <2>3
<1>3. ASSUME NEW e \in Encoders, Register(e) PROVE Fed'
  <2>1. /\ map' = [map EXCEPT ![fmt[e]] = e] /\ state[e] = "claimed"
        /\ state' = [state EXCEPT ![e] = "spawning"]
        /\ UNCHANGED <<pc, stalled, fmt, ffmpeg>>
    BY <1>3 DEF Register, Registering, puller, verdicts
  <2>2. creating = e /\ NoneToJoin(fmt[e])
    BY <2>1 DEF Makers
  <2>3. ASSUME NEW x \in Encoders, x # e, Needs(x)', Registered(x), fmt[x] = fmt[e]
        PROVE  FALSE
    <3>1. state[x] = "running" /\ ffmpeg[x] \in {"reading", "hung"}
      BY <2>1, <2>2, <2>3 DEF Makers
    <3>2. x \notin finished
      BY <3>1 DEF Makers
    <3> QED
      BY <2>2, <2>3, <3>1, <3>2 DEF NoneToJoin, Alive
  <2>4. ASSUME NEW x \in Encoders, x # e, Needs(x)', pc # "ended", x \notin stalled
        PROVE  Registered(x)'
    <3>1. Registered(x)
      BY <2>1, <2>4
    <3> QED
      BY <2>1, <2>3, <2>4, <3>1
  <2>5. Registered(e)'
    BY <2>1
  <2> QED
    BY <2>1, <2>4, <2>5
<1>4. ASSUME NEW e \in Encoders, SpawnFails(e) PROVE Fed'
  <2>1. /\ map' = [map EXCEPT ![fmt[e]] = None] /\ state[e] = "spawning"
        /\ state' = [state EXCEPT ![e] = "dropping"]
        /\ UNCHANGED <<pc, stalled, fmt, ffmpeg>>
    BY <1>4 DEF SpawnFails, puller, verdicts
  <2>2. map[fmt[e]] \in {e, None}
    BY <2>1 DEF Makers
  <2> QED
    BY <2>1, <2>2
<1>5. ASSUME NEW e \in Encoders, Deregister(e) PROVE Fed'
  BY <1>5 DEF Deregister, Deregistering, puller, verdicts
<1>6. ASSUME NEW e \in Encoders, NEW f \in Formats, Claim(e, f) PROVE Fed'
  BY <1>6 DEF Claim, ClaimUnserialised, puller, verdicts
<1>7. ASSUME End PROVE Fed'
  BY <1>7 DEF End
<1>8. ASSUME NEW e \in Encoders,
             Refuse(e) \/ Spawn(e) \/ ThreadFails(e) \/ Release(e)
      PROVE  Fed'
  <2>1. UNCHANGED <<map, fmt, pc, stalled>>
    BY <1>8 DEF Refuse, Spawn, ThreadFails, Release, puller, verdicts
  <2>2. ASSUME NEW x \in Encoders, Needs(x)' PROVE Needs(x)
    BY <1>8, <2>2 DEF Refuse, Spawn, ThreadFails, Release
  <2> QED
    BY <2>1, <2>2, <1>1
<1>9. ASSUME NEW e \in Encoders, FeederStep(e) \/ Ffmpeg(e) PROVE Fed'
  <2>1. UNCHANGED <<map, fmt, pc, stalled, state>>
    BY <1>9 DEF FeederStep, Ffmpeg, Take, Wrote, LeaveLoop, CloseProgress, Hang,
       Crash, ExitAtEof, Finish, theirs, puller, verdicts
  <2>2. ASSUME NEW x \in Encoders, ffmpeg'[x] \in {"reading", "hung"}
        PROVE  ffmpeg[x] \in {"reading", "hung"}
    BY <1>9, <2>2 DEF FeederStep, Ffmpeg, Take, Wrote, LeaveLoop, CloseProgress,
       Hang, Crash, ExitAtEof, Finish
  <2> QED
    BY <2>1, <2>2, <1>1
<1>10. ASSUME NEW w \in removed, KillStalled(w) PROVE Fed'
  <2>1. UNCHANGED <<map, fmt, stalled, state>> /\ pc # "ended"
    BY <1>10 DEF KillStalled, theirs
  <2>2. ASSUME NEW x \in Encoders, ffmpeg'[x] \in {"reading", "hung"}
        PROVE  ffmpeg[x] \in {"reading", "hung"}
    BY <1>10, <2>2 DEF KillStalled
  <2> QED
    BY <2>1, <2>2, <1>1
<1>11. ASSUME \/ Push \/ Collect \/ Sending \/ EngineStops \/ UNCHANGED vars
       PROVE  Fed'
  <2>1. UNCHANGED <<map, fmt, stalled, state, ffmpeg>> /\ (pc' # "ended" => pc # "ended")
    BY <1>11 DEF Push, Collect, Sending, NextTarget, Sent, Send, QueueFull, Moved,
       FoundGone, StallTimeout, GiveUp, ChunkDone, EngineStops, vars, puller,
       verdicts, theirs
  <2> QED
    BY <2>1, <1>1
<1> QED
  BY <1>2, <1>3, <1>4, <1>5, <1>6, <1>7, <1>8, <1>9, <1>10, <1>11
  DEF Next, PullerStep, GivingUp, Creating, Dropping

-----------------------------------------------------------------------------
(* The invariant. *)

LEMMA Initial == Init => IInv
<1> SUFFICES ASSUME Init PROVE IInv
  OBVIOUS
<1>1. TypeOK /\ Control /\ Slots
  BY TypeInitial
<1>2. NoGap
  <2>1. Len(<<>>) = 0
    OBVIOUS
  <2> QED
    BY <2>1 DEF Init, NoGap
<1>3. Seam /\ EndIsFinal
  <2>1. \A e \in Encoders : fmt[e] \in Formats
    BY <1>1 DEF TypeOK, Types
  <2>2. \A e \in Encoders : ~Registered(e) /\ ~Due(e)
    BY <2>1, NoneAssumption DEF Init, Due, Registered
  <2>3. pc = "reading"
    BY DEF Init
  <2> QED
    BY <2>2, <2>3 DEF Seam, EndIsFinal
<1>4. Makers
  BY DEF Init, Makers
<1>5. Fed /\ NoDeadEntry
  BY DEF Init, Fed, NoDeadEntry
<1> QED
  BY <1>1, <1>2, <1>3, <1>4, <1>5 DEF IInv

LEMMA Inductive == IInv /\ [Next]_vars => IInv'
BY TypeStep, CounterStep, ControlStep, SlotsStep, SeamStep, GapStep, EndStep,
   DeadStep, MakersStep, FedStep DEF IInv, TypeOK

\* Every reachable state of the feed satisfies the inductive invariant.
THEOREM Invariance == Spec => []IInv
BY Initial, Inductive, PTL DEF Spec

\* The type invariant: in particular an encoder's queue is never above TS_QUEUE
\* (EncoderInput::tx), and no feeder takes what it was not given.
THEOREM TypeCorrect == Spec => []TypeOK
<1>1. IInv => TypeOK
  BY DEF IInv
<1> QED
  BY <1>1, Invariance, PTL

\* For any encoders, queue capacity and window: what an encoder is given has no
\* gap, however start_encoder interleaves with relay.
THEOREM Gapless == Spec => []NoGap
BY Invariance, PTL DEF IInv

\* Back at its read, relay has given every registered encoder all of the window.
THEOREM AllCaughtUp == Spec => []CaughtUp
<1>1. IInv => CaughtUp
  <2> SUFFICES ASSUME IInv, pc = "reading", NEW e \in Encoders, Registered(e)
               PROVE  stream[e][Len(stream[e])] = pushed
    BY DEF CaughtUp
  <2>1. targets = {} /\ cur = None /\ wedged = {}
    BY DEF IInv, Control
  <2>2. ~Due(e)
    BY <2>1, NoneAssumption DEF Due
  <2> QED
    BY <2>1, <2>2 DEF IInv, Seam, Last
<1> QED
  BY <1>1, Invariance, PTL

\* Whatever drop_wedged, Encoder::drop and a failed start_encoder take out of
\* the map, a running encoder keeps its slot unless it stalled, and one that has
\* been dropped has none.
THEOREM Unorphaned == Spec => []MapTrue
<1>1. IInv => NoOrphan
  BY DEF IInv, NoOrphan, Fed
<1>2. IInv => NoDeadEntry
  BY DEF IInv
<1>3. IInv => MapTrue
  BY <1>1, <1>2 DEF MapTrue
<1> QED
  BY <1>3, Invariance, PTL

\* After EngineStream::end no encoder is registered.
THEOREM NothingAfterEnd == Spec => []EndIsFinal
<1>1. IInv => EndIsFinal
  BY DEF IInv
<1> QED
  BY <1>1, Invariance, PTL

=============================================================================
