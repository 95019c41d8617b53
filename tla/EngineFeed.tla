----------------------------- MODULE EngineFeed -----------------------------
(***************************************************************************)
(* How the chunks of one engine pull reach ffmpeg: the puller's loop of    *)
(* src/src/registry.rs (relay, send_backpressured, drop_wedged, end), the  *)
(* replay window it fills, the map of registered encoders, the creators    *)
(* that prime and register a new encoder (get_or_start_encoder,            *)
(* start_encoder), Encoder::drop, one feeder thread per encoder            *)
(* (feed_ffmpeg) and the ffmpeg it writes to.                              *)
(*                                                                         *)
(* A chunk is its number.  What an encoder is given is the sequence        *)
(* stream[e]: the first primed[e] chunks are the replay snapshot, the      *)
(* others went through its bounded queue.  Every action is one critical    *)
(* section, or one step that another thread can observe.                   *)
(***************************************************************************)
EXTENDS Integers, Sequences, FiniteSets

CONSTANTS Formats,     \* output formats that are requested
          Encoders,    \* identities of Arc<Encoder>s, each used once
          None,        \* no encoder
          Queue,       \* TS_QUEUE, the capacity of an encoder's channel
          Window,      \* the most chunks the replay window holds
          MaxChunks    \* bound: the engine sends at most this many chunks

ASSUME NoneAssumption == None \notin Encoders
ASSUME FormatsAssumption == Formats # {}
ASSUME QueueAssumption == Queue \in Nat \ {0}
ASSUME WindowAssumption == Window \in Nat \ {0}
ASSUME BoundAssumption == MaxChunks \in Nat \ {0}

VARIABLES
  pc,        \* where the puller is in relay / pull
  pushed,    \* chunks appended to the replay window so far
  map,       \* EngineStream::encoders: the encoder registered for a format
  targets,   \* senders collected for this chunk and not yet served
  cur,       \* the encoder send_backpressured is serving
  seen,      \* its local of that name: progress when it last looked
  wedged,    \* <<encoder, why>> given up on while sending this chunk
  removed,   \* those drop_wedged took out of the map and has yet to finish
  stalled,   \* history: encoders unregistered because they stalled
  creating,  \* owner of EngineStream::creating, an encoder to be
  state,     \* life of an encoder
  fmt,       \* its format
  stream,    \* history: the chunks it was given, snapshot first
  primed,    \* how many of them came from the snapshot
  feeder,    \* its feeder thread
  taken,     \* chunks the feeder has started to write
  wrote,     \* chunks ffmpeg has accepted: Fed::bytes
  ffmpeg,    \* its ffmpeg
  finished   \* encoders whose output is Output::Finished

sending == <<targets, cur, seen>>
verdicts == <<wedged, removed, stalled>>
puller == <<pc, pushed, sending, verdicts>>
feeding == <<feeder, taken, wrote>>
theirs == <<creating, state, fmt, primed, feeding, finished>>
vars == <<puller, map, creating, state, fmt, stream, primed, feeding, ffmpeg,
          finished>>

Verdicts == {"Gone", "Stalled"}

Init ==
  /\ pc = "reading"
  /\ pushed = 1            \* identify has fed the window before Ready
  /\ map = [f \in Formats |-> None]
  /\ targets = {} /\ cur = None /\ seen = 0
  /\ wedged = {} /\ removed = {} /\ stalled = {}
  /\ creating = None
  /\ state = [e \in Encoders |-> "unused"]
  /\ fmt = [e \in Encoders |-> CHOOSE f \in Formats : TRUE]
  /\ stream = [e \in Encoders |-> <<>>]
  /\ primed = [e \in Encoders |-> 0]
  /\ feeder = [e \in Encoders |-> "none"]
  /\ taken = [e \in Encoders |-> 0]
  /\ wrote = [e \in Encoders |-> 0]
  /\ ffmpeg = [e \in Encoders |-> "none"]
  /\ finished = {}

-----------------------------------------------------------------------------
(* State shared by the actions. *)

Registered(e) == map[fmt[e]] = e

\* Weak<Encoder>::upgrade succeeds: some Arc is left.
Alive(e) == state[e] \in {"spawning", "running"}

\* A sender of e's channel exists somewhere: in the map, among the clones the
\* puller collected, or in a Feed drop_wedged has not let go of yet.
SenderHeld(e) ==
  \/ Registered(e)
  \/ e \in targets \cup {cur}
  \/ \E why \in Verdicts : <<e, why>> \in removed

\* Chunks in e's channel: sent live, not yet taken by the feeder.
Queued(e) ==
  Len(stream[e]) - (IF taken[e] < primed[e] THEN primed[e] ELSE taken[e])

\* The receiving end of e's channel has been dropped: by the feeder as it
\* leaves, or by a start_encoder that failed before there was a feeder.
Disconnected(e) ==
  \/ feeder[e] \in {"left", "closed"}
  \/ feeder[e] = "none" /\ state[e] \in {"dropping", "dropped"}

\* Where a snapshot may begin: a chunk the window has not trimmed.  Age and
\* bytes may have trimmed it to any length down to the newest chunk alone.
Starts == {from \in 1..pushed : pushed - from < Window}

\* Replay::snapshot, whichever policy: the window from some chunk on.
Snapshot(from) == [i \in 1..(pushed - from + 1) |-> from + i - 1]

-----------------------------------------------------------------------------
(* The puller. *)

\* A read returns data: append it to the replay window.
Push ==
  /\ pc = "reading"
  /\ pushed < MaxChunks
  /\ pushed' = pushed + 1
  /\ pc' = "pushed"
  /\ UNCHANGED <<map, sending, verdicts, stream, ffmpeg, theirs>>

\* Clone the senders of every registered encoder, under the lock.
Collect ==
  /\ pc = "pushed"
  /\ targets' = {e \in Encoders : Registered(e)}
  /\ pc' = "sending"
  /\ UNCHANGED <<pushed, map, cur, seen, verdicts, stream, ffmpeg, theirs>>

\* Enter send_backpressured for one of them: the map's order is arbitrary.
NextTarget(e) ==
  /\ pc = "sending"
  /\ e \in targets
  /\ targets' = targets \ {e}
  /\ cur' = e
  /\ seen' = wrote[e]
  /\ pc' = "offering"
  /\ UNCHANGED <<pushed, map, verdicts, stream, ffmpeg, theirs>>

\* A chunk enters cur's channel, if it holds at most so many.
Send(most) ==
  /\ pc = "offering"
  /\ ~Disconnected(cur)
  /\ Queued(cur) <= most
  /\ stream' = [stream EXCEPT ![cur] = Append(@, pushed)]
  /\ cur' = None /\ seen' = 0
  /\ pc' = "sending"
  /\ UNCHANGED <<pushed, map, targets, verdicts, ffmpeg, theirs>>

\* A bug: the channel takes one chunk too many.
SentOver == Send(Queue)

\* try_send: Ok.
Sent == Send(Queue - 1)

\* What a plausible bug would do instead: drop the chunk when the queue is
\* full, as fan_out does to a listener.
QueueFullDrops ==
  /\ pc = "offering"
  /\ ~Disconnected(cur)
  /\ Queued(cur) >= Queue
  /\ cur' = None /\ seen' = 0
  /\ pc' = "sending"
  /\ UNCHANGED <<pushed, map, targets, verdicts, stream, ffmpeg, theirs>>

\* try_send: Full; go to sleep on Progress::moved.
QueueFull ==
  /\ pc = "offering"
  /\ ~Disconnected(cur)
  /\ Queued(cur) >= Queue
  /\ pc' = "waiting"
  /\ UNCHANGED <<pushed, map, sending, verdicts, stream, ffmpeg, theirs>>

\* Woken because ffmpeg took something: offer the chunk again.
Moved ==
  /\ pc = "waiting"
  /\ feeder[cur] # "closed"
  /\ wrote[cur] # seen
  /\ seen' = wrote[cur]
  /\ pc' = "offering"
  /\ UNCHANGED <<pushed, map, targets, cur, verdicts, stream, ffmpeg, theirs>>

GiveUp(why) ==
  /\ wedged' = wedged \cup {<<cur, why>>}
  /\ cur' = None /\ seen' = 0
  /\ pc' = "sending"
  /\ UNCHANGED <<pushed, map, targets, removed, stalled, stream, ffmpeg,
                 theirs>>

\* try_send: Disconnected, or the feeder closed while the puller slept.
FoundGone ==
  /\ \/ pc = "offering" /\ Disconnected(cur)
     \/ pc = "waiting" /\ feeder[cur] = "closed"
  /\ GiveUp("Gone")

\* A bug: every wakeup, also one by the timeout, starts a new TS_STALL.
StallTimeoutRearmed ==
  /\ pc = "waiting"
  /\ feeder[cur] # "closed"
  /\ wrote[cur] = seen
  /\ pc' = "offering"
  /\ UNCHANGED <<pushed, map, sending, verdicts, stream, ffmpeg, theirs>>

\* TS_STALL has passed without any progress.
StallTimeout ==
  /\ pc = "waiting"
  /\ feeder[cur] # "closed"
  /\ wrote[cur] = seen
  /\ GiveUp("Stalled")

\* Every target served.
ChunkDone ==
  /\ pc = "sending"
  /\ targets = {}
  /\ pc' = IF wedged = {} THEN "reading" ELSE "unregistering"
  /\ UNCHANGED <<pushed, map, sending, verdicts, stream, ffmpeg, theirs>>

\* Take these <<encoder, why>> out of the map: Gone and Stalled alike.
Unregistering(out) ==
  /\ pc = "unregistering"
  /\ map' = [f \in Formats |-> IF \E w \in out : fmt[w[1]] = f
                               THEN None ELSE map[f]]
  /\ removed' = out
  /\ stalled' = stalled \cup {e \in Encoders : <<e, "Stalled">> \in out}
  /\ wedged' = {}
  /\ pc' = IF out = {} THEN "reading" ELSE "killing"
  /\ UNCHANGED <<pushed, sending, stream, ffmpeg, theirs>>

\* A bug: whatever holds the slot now is taken out.
UnregisterBySlot == Unregistering(wedged)

\* drop_wedged, under the lock: only an entry that still has this progress.
Unregister == Unregistering({w \in wedged : Registered(w[1])})

\* drop_wedged, after the lock: kill a stalled ffmpeg if the encoder can be
\* upgraded and its child is stored already, then let go of the sender.
KillStalled(w) ==
  /\ pc = "killing"
  /\ w \in removed
  /\ removed' = removed \ {w}
  /\ ffmpeg' = IF w[2] = "Stalled" /\ state[w[1]] = "running"
               THEN [ffmpeg EXCEPT ![w[1]] = "exited"] ELSE ffmpeg
  /\ pc' = IF removed' = {} THEN "reading" ELSE "killing"
  /\ UNCHANGED <<pushed, map, sending, wedged, stalled, stream, theirs>>

\* The engine closed the stream or the read failed; send_stop comes next.
EngineStops ==
  /\ pc = "reading"
  /\ pc' = "stopping"
  /\ UNCHANGED <<pushed, map, sending, verdicts, stream, ffmpeg, theirs>>

\* A bug: the pull is marked as ended and the feeds stay.
EndKeepsFeeds ==
  /\ pc = "stopping"
  /\ pc' = "ended"
  /\ UNCHANGED <<pushed, map, sending, verdicts, stream, ffmpeg, theirs>>

\* EngineStream::end: mark and clear under one lock.  pc = "ended" is the
\* flag of that name.
End ==
  /\ pc = "stopping"
  /\ pc' = "ended"
  /\ map' = [f \in Formats |-> None]
  /\ UNCHANGED <<pushed, sending, verdicts, stream, ffmpeg, theirs>>

-----------------------------------------------------------------------------
(* Creating and dropping encoders. *)

\* No encoder a request for f could be given: none in the slot, one that is
\* being dropped, or one that has finished.
NoneToJoin(f) ==
  ~ \E e \in Encoders : map[f] = e /\ Alive(e) /\ e \notin finished

\* A bug: creators do not exclude each other.
ClaimUnserialised(e, f) ==
  /\ state[e] = "unused"
  /\ NoneToJoin(f)
  /\ creating' = e
  /\ state' = [state EXCEPT ![e] = "claimed"]
  /\ fmt' = [fmt EXCEPT ![e] = f]
  /\ UNCHANGED <<puller, map, stream, primed, feeding, ffmpeg, finished>>

\* get_or_start_encoder: a request takes `creating` and finds no encoder.
\* (A request that finds one joins it, and changes nothing here.)
Claim(e, f) ==
  /\ creating = None
  /\ ClaimUnserialised(e, f)

\* The window is copied and e registered, an entry it replaces dropped.
Registering(e, from) ==
  /\ state[e] = "claimed"
  /\ stream' = [stream EXCEPT ![e] = Snapshot(from)]
  /\ primed' = [primed EXCEPT ![e] = Len(Snapshot(from))]
  /\ map' = [map EXCEPT ![fmt[e]] = e]
  /\ state' = [state EXCEPT ![e] = "spawning"]
  /\ UNCHANGED <<puller, creating, fmt, feeding, ffmpeg, finished>>

\* A bug: the window is copied before the puller's newest push and e is
\* registered after it, under separate locks.
RegisterStale(e) ==
  /\ pc # "ended"
  /\ state[e] = "claimed"
  /\ stream' = [stream EXCEPT ![e] = <<IF pushed = 1 THEN 1 ELSE pushed - 1>>]
  /\ primed' = [primed EXCEPT ![e] = 1]
  /\ map' = [map EXCEPT ![fmt[e]] = e]
  /\ state' = [state EXCEPT ![e] = "spawning"]
  /\ UNCHANGED <<puller, creating, fmt, feeding, ffmpeg, finished>>

\* A bug: start_encoder does not look at `ended`.
RegisterUnchecked(e) == \E from \in Starts : Registering(e, from)

\* start_encoder's critical section over `encoders` and `replay`.
Register(e) ==
  /\ pc # "ended"
  /\ \E from \in Starts : Registering(e, from)

\* The same section when the pull has ended: no encoder comes to be.
Refuse(e) ==
  /\ state[e] = "claimed"
  /\ pc = "ended"
  /\ state' = [state EXCEPT ![e] = "dropped"]
  /\ creating' = None
  /\ UNCHANGED <<puller, map, fmt, stream, primed, feeding, ffmpeg, finished>>

\* ffmpeg, the feeder and the drainer are started, and `creating` released.
Spawn(e) ==
  /\ state[e] = "spawning"
  /\ state' = [state EXCEPT ![e] = "running"]
  /\ ffmpeg' = [ffmpeg EXCEPT ![e] = "reading"]
  /\ feeder' = [feeder EXCEPT ![e] = "idle"]
  /\ creating' = None
  /\ UNCHANGED <<puller, map, fmt, stream, primed, taken, wrote, finished>>

\* ffmpeg does not start: the slot is emptied, whoever holds it, and the
\* encoder drops with the frame.
SpawnFails(e) ==
  /\ state[e] = "spawning"
  /\ map' = [map EXCEPT ![fmt[e]] = None]
  /\ state' = [state EXCEPT ![e] = "dropping"]
  /\ UNCHANGED <<puller, creating, fmt, stream, primed, feeding, ffmpeg,
                 finished>>

\* ffmpeg starts and a thread does not: Encoder::drop kills ffmpeg again.
ThreadFails(e) ==
  /\ state[e] = "spawning"
  /\ state' = [state EXCEPT ![e] = "dropping"]
  /\ ffmpeg' = [ffmpeg EXCEPT ![e] = "exited"]
  /\ UNCHANGED <<puller, map, creating, fmt, stream, primed, feeding, finished>>

\* The last Arc goes: Encoder::drop kills and reaps ffmpeg.
Release(e) ==
  /\ state[e] = "running"
  /\ state' = [state EXCEPT ![e] = "dropping"]
  /\ ffmpeg' = [ffmpeg EXCEPT ![e] = "exited"]
  /\ UNCHANGED <<puller, map, creating, fmt, stream, primed, feeding, finished>>

\* The slot's own entry is taken out and, on a failed start, `creating` released.
Deregistering(e, ours) ==
  /\ state[e] = "dropping"
  /\ map' = IF ours THEN [map EXCEPT ![fmt[e]] = None] ELSE map
  /\ state' = [state EXCEPT ![e] = "dropped"]
  /\ creating' = IF creating = e THEN None ELSE creating
  /\ UNCHANGED <<puller, fmt, stream, primed, feeding, ffmpeg, finished>>

\* A bug: Encoder::drop empties the slot without looking whose it is.
DeregisterBySlot(e) == Deregistering(e, TRUE)

\* The rest of Encoder::drop, under the lock: only an entry of its own.
Deregister(e) == Deregistering(e, Registered(e))

-----------------------------------------------------------------------------
(* A feeder, its ffmpeg and its drainer. *)

\* The next chunk of the snapshot, or of the queue.
Take(e) ==
  /\ feeder[e] = "idle"
  /\ taken[e] < Len(stream[e])
  /\ taken' = [taken EXCEPT ![e] = @ + 1]
  /\ feeder' = [feeder EXCEPT ![e] = "writing"]
  /\ UNCHANGED <<puller, map, creating, state, fmt, stream, primed, wrote,
                 ffmpeg, finished>>

\* write_all returns and the progress is published.
Wrote(e) ==
  /\ feeder[e] = "writing"
  /\ ffmpeg[e] = "reading"
  /\ wrote' = [wrote EXCEPT ![e] = taken[e]]
  /\ feeder' = [feeder EXCEPT ![e] = "idle"]
  /\ UNCHANGED <<puller, map, creating, state, fmt, stream, primed, taken,
                 ffmpeg, finished>>

\* write_all fails, or the channel is empty and has no sender: the loop ends
\* and the receiver drops with it.
LeaveLoop(e) ==
  /\ \/ feeder[e] = "writing" /\ ffmpeg[e] = "exited"
     \/ feeder[e] = "idle" /\ taken[e] = Len(stream[e]) /\ ~SenderHeld(e)
  /\ feeder' = [feeder EXCEPT ![e] = "left"]
  /\ UNCHANGED <<puller, map, creating, state, fmt, stream, primed, taken,
                 wrote, ffmpeg, finished>>

\* Progress::close; ffmpeg's stdin closes as feed_ffmpeg returns.
CloseProgress(e) ==
  /\ feeder[e] = "left"
  /\ feeder' = [feeder EXCEPT ![e] = "closed"]
  /\ UNCHANGED <<puller, map, creating, state, fmt, stream, primed, taken,
                 wrote, ffmpeg, finished>>

\* What ffmpeg may do: stop reading for good, die, or exit at the end of its
\* input.
Hang(e) ==
  /\ ffmpeg[e] = "reading"
  /\ ffmpeg' = [ffmpeg EXCEPT ![e] = "hung"]
  /\ UNCHANGED <<puller, map, stream, theirs>>

Crash(e) ==
  /\ ffmpeg[e] \in {"reading", "hung"}
  /\ ffmpeg' = [ffmpeg EXCEPT ![e] = "exited"]
  /\ UNCHANGED <<puller, map, stream, theirs>>

ExitAtEof(e) ==
  /\ ffmpeg[e] = "reading"
  /\ feeder[e] = "closed"
  /\ ffmpeg' = [ffmpeg EXCEPT ![e] = "exited"]
  /\ UNCHANGED <<puller, map, stream, theirs>>

\* The drainer reads the end of ffmpeg's output and finishes the encoder.
Finish(e) ==
  /\ state[e] = "running"
  /\ ffmpeg[e] = "exited"
  /\ e \notin finished
  /\ finished' = finished \cup {e}
  /\ UNCHANGED <<puller, map, creating, state, fmt, stream, primed, feeding,
                 ffmpeg>>

-----------------------------------------------------------------------------
Sending == \/ \E e \in Encoders : NextTarget(e)
           \/ Sent \/ QueueFull \/ Moved \/ FoundGone \/ StallTimeout
           \/ ChunkDone

GivingUp == Unregister \/ \E w \in removed : KillStalled(w)

PullerStep == Push \/ Collect \/ Sending \/ GivingUp \/ EngineStops \/ End

Creating(e) ==
  \/ \E f \in Formats : Claim(e, f)
  \/ Register(e) \/ Refuse(e) \/ Spawn(e) \/ SpawnFails(e) \/ ThreadFails(e)

Dropping(e) == Release(e) \/ Deregister(e)

FeederStep(e) == Take(e) \/ Wrote(e) \/ LeaveLoop(e) \/ CloseProgress(e)

Ffmpeg(e) == Hang(e) \/ Crash(e) \/ ExitAtEof(e) \/ Finish(e)

Next == \/ PullerStep
        \/ \E e \in Encoders :
             Creating(e) \/ Dropping(e) \/ FeederStep(e) \/ Ffmpeg(e)

Spec == Init /\ [][Next]_vars

\* The puller's thread runs; nobody else need move.
PullerFairness == WF_vars(Collect) /\ WF_vars(Sending) /\ WF_vars(GivingUp)

\* Every thread runs, a creation that began goes on, and an ffmpeg that has
\* neither hung nor died reads its input and exits at the end of it.
ThreadFairness ==
  /\ WF_vars(PullerStep)
  /\ \A e \in Encoders :
       /\ WF_vars(Register(e) \/ Refuse(e) \/ Spawn(e))
       /\ WF_vars(Deregister(e))
       /\ WF_vars(FeederStep(e))
       /\ WF_vars(ExitAtEof(e))
       /\ WF_vars(Finish(e))

\* The puller's and the feeders' threads run, and an ffmpeg that reads exits at
\* the end of its input.
FeedFairness ==
  /\ PullerFairness
  /\ \A e \in Encoders : WF_vars(FeederStep(e)) /\ WF_vars(ExitAtEof(e))

FeedSpec == Spec /\ FeedFairness
FairSpec == Spec /\ ThreadFairness

-----------------------------------------------------------------------------
Types ==
  /\ pc \in {"reading", "pushed", "sending", "offering", "waiting",
             "unregistering", "killing", "stopping", "ended"}
  /\ pushed \in 1..MaxChunks
  /\ map \in [Formats -> Encoders \cup {None}]
  /\ targets \subseteq Encoders /\ cur \in Encoders \cup {None} /\ seen \in Nat
  /\ wedged \subseteq Encoders \X Verdicts
  /\ removed \subseteq Encoders \X Verdicts
  /\ stalled \subseteq Encoders
  /\ creating \in Encoders \cup {None}
  /\ state \in [Encoders -> {"unused", "claimed", "spawning", "running",
                             "dropping", "dropped"}]
  /\ fmt \in [Encoders -> Formats]
  /\ stream \in [Encoders -> Seq(Nat)]
  /\ primed \in [Encoders -> Nat]
  /\ feeder \in [Encoders -> {"none", "idle", "writing", "left", "closed"}]
  /\ taken \in [Encoders -> Nat] /\ wrote \in [Encoders -> Nat]
  /\ ffmpeg \in [Encoders -> {"none", "reading", "hung", "exited"}]
  /\ finished \subseteq Encoders

\* A feeder is never ahead of what it was given nor ffmpeg ahead of its feeder,
\* and a queue never holds more than its capacity.
Counters ==
  \A e \in Encoders :
    /\ wrote[e] <= taken[e] /\ taken[e] <= Len(stream[e])
    /\ Queued(e) \in 0..Queue

TypeOK == Types /\ Counters

\* What an encoder is given is gapless from its first primed chunk to its last
\* live one, however registering interleaves with the puller's push and collect
\* (start_encoder's comment: taking the locks separately could "drop one").
\* Only the seam between the snapshot and the first live chunk may repeat one.
NoGap ==
  \A e \in Encoders : \A i \in 1..(Len(stream[e]) - 1) :
    \/ stream[e][i + 1] = stream[e][i] + 1
    \/ i = primed[e] /\ stream[e][i + 1] = stream[e][i]

\* The other half of that comment: no chunk is given twice, "in the window and
\* again live".
NoDuplicate ==
  \A e \in Encoders : \A i \in 1..(Len(stream[e]) - 1) :
    stream[e][i + 1] # stream[e][i]

\* Whenever the puller is back at its read, every registered encoder has been
\* given everything up to the newest chunk: a wedged one has lost its slot.
CaughtUp ==
  pc = "reading" =>
    \A e \in Encoders : Registered(e) => stream[e][Len(stream[e])] = pushed

\* An encoder whose ffmpeg runs is the one the puller feeds for its format,
\* unless the pull has ended or the puller gave it up as stalled: no insert,
\* removal or replacement orphans it (get_or_start_encoder's comment).
NoOrphan ==
  \A e \in Encoders :
    /\ state[e] = "running"
    /\ ffmpeg[e] \in {"reading", "hung"}
    /\ pc # "ended"
    /\ e \notin stalled
    => Registered(e)

\* An encoder that has been dropped is not left in the map, where it would keep
\* the pull from lingering out (EngineStream::lingering, Encoder::drop).
NoDeadEntry == \A e \in Encoders : state[e] = "dropped" => ~Registered(e)

\* The map says which encoders are fed, neither too few nor too many, whatever
\* replaces, gives up on or drops an encoder between two sections over it.
MapTrue == NoOrphan /\ NoDeadEntry

\* Once end() has cleared the feeds, no encoder registers again (the comment on
\* EngineStream::ended).
EndIsFinal == pc = "ended" => \A f \in Formats : map[f] = None

\* The puller always gets back to its read, or on to the end, whatever the
\* ffmpegs and the creators do (send_backpressured: it "only gives up once the
\* encoder has made no progress at all for TS_STALL").
PullerReturns ==
  (pc \notin {"reading", "stopping", "ended"}) ~> (pc = "reading")

\* A running ffmpeg that is no longer fed, the pull having ended or its slot
\* being another's or nobody's, sees the end of its input and exits, unless it
\* has stopped reading ("When the engine stops" in the module documentation).
EofReaches ==
  \A e \in Encoders :
    ( /\ state[e] = "running" /\ ffmpeg[e] = "reading"
      /\ pc = "ended" \/ ~Registered(e) )
      ~> (ffmpeg[e] # "reading")

\* What "When the engine stops" says of every encoder: after end(), ffmpeg
\* exits and the drainer finishes it.
EndFinishes ==
  \A e \in Encoders :
    (state[e] = "running" /\ pc = "ended")
      ~> (e \in finished \/ state[e] # "running")
=============================================================================
