-------------------------------- MODULE Locks --------------------------------
(***************************************************************************)
(* The mutexes of src/src/registry.rs under which another one is taken or *)
(* an encoder could be dropped, and who takes them in which order:         *)
(* requests that join or start an encoder and leave it, the puller, the    *)
(* encoders' drainers, the linger thread and /status, on one content id    *)
(* and one output format.  The other mutexes (streams, start, output,      *)
(* listeners, child, stats, Progress::state) are held for a few            *)
(* instructions in which neither happens, but for child, which             *)
(* Encoder::drop holds while it kills and reaps ffmpeg.  That wait is left *)
(* out, though it may be under `creating`: a killed process ends.          *)
(*                                                                         *)
(* A thread is the steps it has still to do.  A critical section without   *)
(* either is one step; the others begin and end with steps of their own.   *)
(* What a section finds is what it may find: the other modules say when.   *)
(* Who holds an Arc of which encoder is kept, because dropping the last    *)
(* one puts the steps of Encoder::drop in front of the rest, wherever the  *)
(* thread is and whatever it owns.                                         *)
(*                                                                         *)
(* The encoder a request starts has the request's name.                    *)
(***************************************************************************)
EXTENDS Naturals, Sequences

CONSTANTS Requests, Nobody   \* no thread, encoder or mutex

Puller == <<"puller", Nobody>>
Status == <<"status", Nobody>>
Reaper == <<"linger", Nobody>>
Drainer(e) == <<"drainer", e>>
Daemons == {Puller, Status, Reaper} \cup {Drainer(e) : e \in Requests}
Threads == Requests \cup Daemons

Creating == <<"creating", Nobody>>
Encoders == <<"encoders", Nobody>>
Window == <<"replay", Nobody>>
Mutexes == {Creating, Encoders, Window}

ASSUME NamesAssumption ==
  /\ Nobody \notin Threads \cup Mutexes
  /\ Requests \cap (Daemons \cup Mutexes) = {}

VARIABLES
  owner,    \* of a mutex
  steps,    \* what a thread has still to do
  arc,      \* the Arc<Encoder> a thread holds
  kept      \* the encoders that linger

lockVars == <<owner, steps, arc, kept>>

\* Some Arc of e is held, by another thread than those of ts.
AliveBut(ts, e) == e \in kept \/ \E t \in Threads \ ts : arc[t] = e
Alive == {e \in Requests : AliveBut({}, e)}

-----------------------------------------------------------------------------
(* The steps of the threads. *)

Step(f, e) == [do |-> f, on |-> e, in |-> Nobody]
In(mutex, f, e) == [do |-> f, on |-> e, in |-> mutex]
Lock(mutex) == In(mutex, "lock", Nobody)
Unlock(mutex) == Step("unlock", mutex)
Pass(mutex) == In(mutex, "pass", Nobody)
Drop == Step("drop", Nobody)

\* get_or_start_encoder, once engine_stream has returned.
Join == <<Lock(Creating), In(Encoders, "look", Nobody), Step("found", Nobody)>>

\* start_encoder.
Start == <<Lock(Encoders), Step("check", Nobody)>>
Insert == <<In(Window, "register", Nobody), Unlock(Encoders), Step("spawn", Nobody)>>

\* Encoder::drop, once ffmpeg has been killed and reaped.
Dropping == <<Pass(Encoders)>>

\* A bug: the window is let go after the senders have been collected.
RelayNested ==
  <<Lock(Window), Pass(Encoders), Unlock(Window), Step("send", Nobody)>>

\* A bug: the senders are served under the lock.
RelayLocked ==
  <<Pass(Window), Lock(Encoders), Step("send", Nobody), Unlock(Encoders)>>

\* relay for one chunk: the senders are collected, and served with no lock.
Relay == <<Pass(Window), Pass(Encoders), Step("send", Nobody)>>

\* A bug: the upgraded Arcs are dropped under the lock.
ReportEarly == <<Lock(Encoders), Step("look", Nobody), Drop, Unlock(Encoders)>>

\* status::snapshot, once live_streams has returned: the encoders, and what the
\* stream says of itself.
Report == <<In(Encoders, "look", Nobody), Pass(Window), Pass(Encoders), Drop>>

LockInit ==
  /\ owner = [m \in Mutexes |-> Nobody]
  /\ steps = [t \in Threads |-> IF t \in Requests THEN Join
                                ELSE IF t = Puller THEN Relay
                                ELSE IF t = Status THEN Report ELSE <<>>]
  /\ arc = [t \in Threads |-> Nobody]
  /\ kept = {}

-----------------------------------------------------------------------------
(* What a step does. *)

\* t has a step to do, and the mutex it does it in is free.
At(t, f) ==
  /\ steps[t] # <<>> /\ Head(steps[t]).do = f
  /\ LET m == Head(steps[t]).in IN m # Nobody => owner[m] = Nobody

On(t) == Head(steps[t]).on

\* t goes on with these steps before the rest, or instead of it.
Goes(t, first) == steps' = [steps EXCEPT ![t] = first \o Tail(@)]
Turns(t, all) == steps' = [steps EXCEPT ![t] = all]

Acquire(t) ==
  /\ At(t, "lock")
  /\ owner' = [owner EXCEPT ![Head(steps[t]).in] = t]
  /\ Goes(t, <<>>)
  /\ UNCHANGED <<arc, kept>>

Release(t) ==
  /\ At(t, "unlock")
  /\ owner' = [owner EXCEPT ![On(t)] = Nobody]
  /\ Goes(t, <<>>)
  /\ UNCHANGED <<arc, kept>>

\* A section whose effect is the other modules'.
Skip(t) ==
  /\ At(t, "pass")
  /\ Goes(t, <<>>)
  /\ UNCHANGED <<owner, arc, kept>>

\* An Arc is dropped; with the last one the encoder.
DropArc(t) ==
  /\ At(t, "drop")
  /\ arc' = [arc EXCEPT ![t] = Nobody]
  /\ Goes(t, IF arc[t] = Nobody \/ AliveBut({t}, arc[t]) THEN <<>>
             ELSE Dropping)
  /\ UNCHANGED <<owner, kept>>

\* The slot's Weak is upgraded, or there is none.
Look(t) ==
  /\ At(t, "look")
  /\ \E e \in Alive \cup {Nobody} : arc' = [arc EXCEPT ![t] = e]
  /\ Goes(t, <<>>)
  /\ UNCHANGED <<owner, kept>>

-----------------------------------------------------------------------------
(* Requests. *)

\* get_or_start_encoder: an encoder is joined unless it has finished.
Found(t) ==
  /\ At(t, "found")
  /\ \/ arc[t] # Nobody /\ Turns(t, <<Unlock(Creating), Step("leave", arc[t])>>)
     \/ Turns(t, <<Drop>> \o Start)
  /\ UNCHANGED <<owner, arc, kept>>

\* start_encoder, under `encoders`: the pull has ended, or not.
CheckEnded(t) ==
  /\ At(t, "check")
  /\ \/ Turns(t, <<Unlock(Encoders), Unlock(Creating)>>)
     \/ Turns(t, Insert)
  /\ UNCHANGED <<owner, arc, kept>>

Register(t) ==
  /\ At(t, "register")
  /\ arc' = [arc EXCEPT ![t] = t]
  /\ Goes(t, <<>>)
  /\ UNCHANGED <<owner, kept>>

\* ffmpeg does not start and the registration is undone; or a thread does not
\* start; or all do.
Spawn(t) ==
  /\ At(t, "spawn")
  /\ \/ Turns(t, <<Pass(Encoders), Drop, Unlock(Creating)>>)
     \/ Turns(t, <<Drop, Unlock(Creating)>>)
     \/ steps' = [steps EXCEPT ![t] = <<Unlock(Creating), Step("leave", t)>>,
                               ![Drainer(t)] = <<Step("chunk", t)>>]
  /\ UNCHANGED <<owner, arc, kept>>

\* The listener goes, if it was ever listed; the last one leaves an encoder that
\* has not finished to linger.
Leave(t) ==
  /\ At(t, "leave")
  /\ kept' \in {kept, kept \cup {On(t)}}
  /\ Turns(t, <<Drop>>)
  /\ UNCHANGED <<owner, arc>>

-----------------------------------------------------------------------------
(* The threads that are not requests. *)

\* The chunk has been sent or a send has given up, and the next chunk is read or
\* the pull ends.  Of what drop_wedged takes out, a stalled encoder is killed.
Judge(t) ==
  /\ At(t, "send")
  /\ \E wedged \in {<<>>, <<Pass(Encoders)>>, <<Pass(Encoders), Step("kill", Nobody)>>},
        next \in {Relay, <<Pass(Encoders)>>} : Goes(t, wedged \o next)
  /\ UNCHANGED <<owner, arc, kept>>

\* The encoder is upgraded, if that can be, and killed.
Kill(t) ==
  /\ At(t, "kill")
  /\ \E e \in Alive \cup {Nobody} : arc' = [arc EXCEPT ![t] = e]
  /\ Goes(t, <<Drop>>)
  /\ UNCHANGED <<owner, kept>>

\* drain_ffmpeg upgrades for a chunk, or for the end of the output.
Drain(t) ==
  /\ At(t, "chunk")
  /\ \/ /\ On(t) \in Alive
        /\ arc' = [arc EXCEPT ![t] = On(t)]
        /\ Goes(t, <<Drop, Step("chunk", On(t))>>) \/ Goes(t, <<Drop>>)
     \/ On(t) \notin Alive /\ Goes(t, <<>>) /\ UNCHANGED arc
  /\ UNCHANGED <<owner, kept>>

\* A linger lapses.
Lapse ==
  /\ steps[Reaper] = <<>>
  /\ \E e \in kept :
       /\ kept' = kept \ {e}
       /\ arc' = [arc EXCEPT ![Reaper] = e]
  /\ steps' = [steps EXCEPT ![Reaper] = <<Drop>>]
  /\ UNCHANGED owner

RequestStep(t) ==
  Found(t) \/ CheckEnded(t) \/ Register(t) \/ Spawn(t) \/ Leave(t)

LockNext ==
  \/ \E t \in Threads :
       \/ Acquire(t) \/ Release(t) \/ Skip(t) \/ DropArc(t) \/ Look(t)
       \/ RequestStep(t) \/ Judge(t) \/ Kill(t) \/ Drain(t)
  \/ Lapse

LockSpec == LockInit /\ [][LockNext]_lockVars

-----------------------------------------------------------------------------
\* Who is to unlock a mutex owns it, and a thread that is done owns none.
LockTypeOK ==
  /\ owner \in [Mutexes -> Threads \cup {Nobody}]
  /\ arc \in [Threads -> Requests \cup {Nobody}] /\ kept \subseteq Requests
  /\ \A t \in Threads, m \in Mutexes :
       /\ At(t, "unlock") /\ On(t) = m => owner[m] = t
       /\ steps[t] = <<>> => owner[m] # t

\* t is kept from a mutex.
Blocked(t) ==
  /\ steps[t] # <<>> /\ Head(steps[t]).in # Nobody
  /\ owner[Head(steps[t]).in] # Nobody

NoCycle ==
  \A S \in (SUBSET {t \in Threads : Blocked(t)}) \ {{}} :
    \E t \in S : owner[Head(steps[t]).in] \notin S

\* Steps that come after a wait for ffmpeg or for a player.
Outside == {"send", "chunk", "leave"}

NeverOut ==
  \A t \in Threads :
    steps[t] # <<>> /\ Head(steps[t]).do \in Outside =>
      \A m \in Mutexes : owner[m] # t

\* Whoever wants a mutex gets it, though every ffmpeg and every player fall silent:
\* no thread waits for itself or for a cycle of others, and none waits for the
\* outside world with a mutex held, the reap of a killed ffmpeg apart (the locking
\* rule of the module documentation; relay: "so the lock is not held across a
\* blocking send").
Unblocked == NoCycle /\ NeverOut
=============================================================================
