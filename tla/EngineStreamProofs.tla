------------------------- MODULE EngineStreamProofs -------------------------
(***************************************************************************)
(* Proofs about EngineStream, for any number of requests and pulls.  The   *)
(* argument rests on one lemma, AliveStep: a stream nobody holds is never  *)
(* held again.                                                             *)
(***************************************************************************)
EXTENDS EngineStream, TLAPS

-----------------------------------------------------------------------------
(* The parts of the inductive invariant. *)

\* A pull is started once, by the request that created its stream.
Births ==
  /\ \A r \in Requests : on[r] # None => on[r] \in born
  /\ \A s \in Streams : s \notin born => pull[s] = "none"
  /\ \A r \in Requests : req[r] = "spawning" => pull[on[r]] = "none"
  /\ \A r, q \in Requests :
       req[r] = "spawning" /\ req[q] = "spawning" /\ on[r] = on[q] => r = q

\* Where a puller can be with a session it has still to stop, and with nothing
\* published.
Stages ==
  \A s \in Streams :
    /\ pull[s] \in {"none", "session", "publish", "ending", "exited"}
         => session[s] # "controlled"
    /\ pull[s] = "ending" => start[s] # "pending"

IInv == TypeOK /\ Births /\ Stages /\ OneLivePull /\ NoAbandonedWaiter

PullSteps == {"none", "session", "connect", "bind", "identify", "announce",
              "relay", "feeding", "stop", "publish", "ending", "exited"}

\* A step of the puller's thread.
PullerOf(s) == Starting(s) \/ Relaying(s) \/ Stopping(s)

-----------------------------------------------------------------------------
(* Type correctness. *)

\* An encoder that drops leaves at most one Arc more to the linger thread.
LEMMA DropTyped ==
  ASSUME TypeOK, NEW s \in Streams, DropEncoder(s)
  PROVE  /\ parked' \in [Streams -> Nat]
         /\ \A x \in Streams : x # s => parked'[x] = parked[x]
BY DEF TypeOK, DropEncoder

LEMMA TypeStep ==
  ASSUME TypeOK, [Next]_vars
  PROVE  TypeOK'
<1> USE NoneAssumption, BoundAssumption DEF TypeOK, thread, tenants, looks
<1>1. ASSUME NEW r \in Requests, Arrive(r) PROVE TypeOK'
  BY <1>1 DEF Arrive, Shareable
<1>2. ASSUME NEW r \in Requests, StartPuller(r) PROVE TypeOK'
  BY <1>2 DEF StartPuller
<1>3. ASSUME NEW r \in Requests, Refuse(r),
             UNCHANGED <<entry, born, thread, encl, looks>>,
             parked' \in [Streams -> Nat]
      PROVE  TypeOK'
  BY <1>3 DEF Refuse
<1>4. ASSUME NEW r \in Requests,
             PullerNotStarted(r) \/ SeeFailed(r) \/ StartTimeout(r) \/ FindEnded(r)
      PROVE  TypeOK'
  BY <1>3, <1>4 DEF PullerNotStarted, SeeFailed, StartTimeout, FindEnded
<1>5. ASSUME NEW r \in Requests, SeeReady(r) \/ Listen(r) PROVE TypeOK'
  BY <1>5 DEF SeeReady, Listen
<1>6. ASSUME NEW r \in Requests, EncoderFails(r) PROVE TypeOK'
  <2>1. on[r] \in Streams
    BY <1>6 DEF EncoderFails
  <2>2. parked' \in [Streams -> Nat]
    BY <1>6, <2>1, DropTyped DEF EncoderFails
  <2> QED
    BY <1>3, <1>6, <2>2 DEF EncoderFails
<1>7. ASSUME NEW r \in Requests, Leave(r) PROVE TypeOK'
  <2>1. on[r] \in Streams
    BY <1>7 DEF Leave
  <2>2. parked' \in [Streams -> Nat] /\ encl' \subseteq Streams
    BY <1>7, <2>1, DropTyped DEF Leave
  <2>3. /\ req' = [req EXCEPT ![r] = "gone"] /\ on' = [on EXCEPT ![r] = None]
        /\ UNCHANGED <<entry, born, thread, looks>>
    BY <1>7 DEF Leave
  <2> QED
    BY <2>2, <2>3
<1>8. ASSUME NEW s \in Streams, EncoderLapse(s) PROVE TypeOK'
  <2>1. parked' \in [Streams -> Nat]
    BY <1>8, DropTyped DEF EncoderLapse
  <2> QED
    BY <1>8, <2>1 DEF EncoderLapse
<1>9. ASSUME NEW s \in Streams, EngineLapse(s) PROVE TypeOK'
  BY <1>9 DEF EngineLapse
<1>10. ASSUME Peek \/ Unpeek PROVE TypeOK'
  BY <1>10 DEF Peek, Unpeek
<1>11. ASSUME NEW s \in Streams, Starting(s) PROVE TypeOK'
  BY <1>11 DEF Starting, SessionOpens, SessionRefused, Connect, ConnectFails, Bind,
     Identified, IdentifyFails, Announce, Goto, Return, Publish
<1>12. ASSUME NEW s \in Streams, Relaying(s) PROVE TypeOK'
  BY <1>12 DEF Relaying, Read, Fed, EngineStops, Interrupted, Goto, Return
<1>13. ASSUME NEW s \in Streams, Stopping(s) PROVE TypeOK'
  BY <1>13 DEF Stopping, SendStop, Settle, End, Goto, Publish
<1>14. CASE UNCHANGED vars
  BY <1>14 DEF vars
<1> QED
  BY <1>1, <1>2, <1>4, <1>5, <1>6, <1>7, <1>8, <1>9, <1>10, <1>11, <1>12, <1>13,
     <1>14
  DEF Next, RequestStep

-----------------------------------------------------------------------------
(* Who is alive. *)

\* Every Arc is cloned from another or by an upgrade, which fails when there is
\* none: what has been dropped stays dropped.
LEMMA AliveStep ==
  ASSUME TypeOK, [Next]_vars, NEW x \in Streams, x \in born, Alive(x)'
  PROVE  Alive(x)
<1> USE NoneAssumption DEF TypeOK, Alive, Used, PullerHolds, looks, thread, tenants
<1>1. ASSUME NEW r \in Requests, Arrive(r) PROVE Alive(x)
  BY <1>1 DEF Arrive, Shareable
<1>2. ASSUME NEW r \in Requests, StartPuller(r) PROVE Alive(x)
  BY <1>2 DEF StartPuller
<1>3. ASSUME NEW r \in Requests,
             PullerNotStarted(r) \/ SeeFailed(r) \/ StartTimeout(r) \/ FindEnded(r)
      PROVE  Alive(x)
  BY <1>3 DEF PullerNotStarted, SeeFailed, StartTimeout, FindEnded, Refuse
<1>4. ASSUME NEW r \in Requests, SeeReady(r) \/ Listen(r) PROVE Alive(x)
  BY <1>4 DEF SeeReady, Listen
<1>5. ASSUME NEW r \in Requests, EncoderFails(r) \/ Leave(r) PROVE Alive(x)
  <2>1. on[r] \in Streams
    BY <1>5 DEF EncoderFails, Leave
  <2>2. CASE x = on[r]
    BY <2>2
  <2>3. CASE x # on[r]
    <3>1. parked'[x] = parked[x]
      BY <1>5, <2>1, <2>3, DropTyped DEF EncoderFails, Leave
    <3>2. /\ on' = [on EXCEPT ![r] = None]
          /\ x \in encl' => x \in encl
          /\ UNCHANGED <<born, pull, peek>>
      BY <1>5, <2>3 DEF EncoderFails, Leave, Refuse
    <3> QED
      BY <3>1, <3>2
  <2> QED
    BY <2>2, <2>3
<1>6. ASSUME NEW s \in Streams, EncoderLapse(s) PROVE Alive(x)
  <2>1. CASE x = s
    BY <1>6, <2>1 DEF EncoderLapse
  <2>2. CASE x # s
    <3>1. parked'[x] = parked[x]
      BY <1>6, <2>2, DropTyped DEF EncoderLapse
    <3> QED
      BY <1>6, <2>2, <3>1 DEF EncoderLapse
  <2> QED
    BY <2>1, <2>2
<1>7. ASSUME NEW s \in Streams, EngineLapse(s) PROVE Alive(x)
  BY <1>7 DEF EngineLapse
<1>8. ASSUME Peek \/ Unpeek PROVE Alive(x)
  BY <1>8 DEF Peek, Unpeek
<1>9. ASSUME NEW s \in Streams, Starting(s) \/ Relaying(s) \/ Stopping(s)
      PROVE  Alive(x)
  <2>1. /\ UNCHANGED <<born, on, encl, parked, peek>>
        /\ \E to \in PullSteps : pull' = [pull EXCEPT ![s] = to]
        /\ pull'[s] \in {"feeding", "ending"} => Alive(s)
    BY <1>9 DEF PullSteps, Starting, SessionOpens, SessionRefused, Connect,
       ConnectFails, Bind, Identified, IdentifyFails, Announce, Relaying, Read, Fed,
       EngineStops, Interrupted, Stopping, SendStop, Settle, End, Goto, Return
  <2>2. CASE x = s
    BY <2>1, <2>2
  <2>3. CASE x # s
    BY <2>1, <2>3
  <2> QED
    BY <2>2, <2>3
<1>10. CASE UNCHANGED vars
  BY <1>10 DEF vars
<1> QED
  BY <1>1, <1>2, <1>3, <1>4, <1>5, <1>6, <1>7, <1>8, <1>9, <1>10
  DEF Next, RequestStep

\* The registry and who has been born change only as a request arrives.
LEMMA EntryStep ==
  ASSUME TypeOK, [Next]_vars
  PROVE  \/ UNCHANGED <<entry, born>>
         \/ /\ ~Shareable
            /\ \E s \in Streams \ born : born' = born \cup {s} /\ entry' = s
BY DEF TypeOK, Next, vars, RequestStep, Arrive, StartPuller, PullerNotStarted,
       SeeReady, SeeFailed, StartTimeout, Listen, FindEnded, EncoderFails, Leave,
       EncoderLapse, EngineLapse, Peek, Unpeek, Starting, SessionOpens,
       SessionRefused, Connect, ConnectFails, Bind, Identified, IdentifyFails,
       Announce, Relaying, Read, Fed, EngineStops, Interrupted, Stopping, SendStop,
       Settle, End

\* A stream that has ended stays so, as does a start that has been published.
LEMMA PublishedStep ==
  ASSUME TypeOK, [Next]_vars
  PROVE  /\ ended \subseteq ended'
         /\ \A s \in Streams : start[s] # "pending" => start'[s] # "pending"
BY DEF TypeOK, Next, vars, thread, RequestStep, Arrive, StartPuller,
       PullerNotStarted, SeeReady, SeeFailed, StartTimeout, Listen, FindEnded,
       EncoderFails, Leave, EncoderLapse, EngineLapse, Peek, Unpeek, Starting,
       SessionOpens, SessionRefused, Connect, ConnectFails, Bind, Identified,
       IdentifyFails, Announce, Relaying, Read, Fed, EngineStops, Interrupted,
       Stopping, SendStop, Settle, End, Publish

LEMMA OneLiveStep ==
  ASSUME TypeOK, OneLivePull, [Next]_vars
  PROVE  OneLivePull'
<1> SUFFICES ASSUME NEW x \in Streams, Alive(x)', x \notin ended'
             PROVE  x = entry'
  BY DEF OneLivePull
<1>1. x \notin ended
  BY PublishedStep
<1>2. CASE x \in born
  <2>1. Alive(x)
    BY <1>2, AliveStep
  <2>2. x = entry /\ Shareable
    BY <1>1, <2>1, NoneAssumption DEF OneLivePull, Shareable
  <2> QED
    BY <2>2, EntryStep
<1>3. CASE x \notin born
  <2>1. x \in born'
    BY DEF Alive
  <2> QED
    BY <1>3, <2>1, EntryStep
<1> QED
  BY <1>2, <1>3

-----------------------------------------------------------------------------
(* Pullers and their sessions. *)

\* Who may move the puller of a stream, and on what.
LEMMA PullerFrame ==
  ASSUME [Next]_vars
  PROVE  \/ \E s \in Streams : PullerOf(s)
         \/ \E r \in Requests : StartPuller(r)
         \/ UNCHANGED thread
BY DEF PullerOf, Next, vars, thread, RequestStep, Arrive, PullerNotStarted,
       SeeReady, SeeFailed, StartTimeout, Listen, FindEnded, EncoderFails, Leave,
       EncoderLapse, EngineLapse, Peek, Unpeek

LEMMA BirthsStep ==
  ASSUME TypeOK, Births, [Next]_vars
  PROVE  Births'
<1> USE NoneAssumption DEF TypeOK, Births
<1>1. ASSUME NEW r \in Requests, Arrive(r) PROVE Births'
  <2>1. pull' = pull /\ req[r] = "idle"
    BY <1>1 DEF Arrive, thread
  <2>2. CASE Shareable /\ on' = [on EXCEPT ![r] = entry]
             /\ req' = [req EXCEPT ![r] = "waiting"] /\ born' = born
    BY <2>1, <2>2 DEF Shareable, Alive
  <2>3. ASSUME NEW s \in Streams \ born, born' = born \cup {s},
               on' = [on EXCEPT ![r] = s], req' = [req EXCEPT ![r] = "spawning"]
        PROVE  Births'
    <3>1. \A q \in Requests : on[q] # s
      BY <2>3
    <3>2. pull[s] = "none"
      BY <2>3
    <3>3. ASSUME NEW q \in Requests, q # r PROVE on'[q] = on[q] /\ req'[q] = req[q]
      BY <2>3, <3>3
    <3>4. on'[r] = s /\ req'[r] = "spawning"
      BY <2>3
    <3> HIDE DEF TypeOK
    <3> QED
      BY <2>1, <2>3, <3>1, <3>2, <3>3, <3>4
  <2> QED
    BY <1>1, <2>2, <2>3 DEF Arrive
<1>2. ASSUME NEW r \in Requests, StartPuller(r) PROVE Births'
  <2>1. /\ pull' = [pull EXCEPT ![on[r]] = "session"]
        /\ req[r] = "spawning" /\ req' = [req EXCEPT ![r] = "waiting"]
        /\ UNCHANGED <<on, born>>
    BY <1>2 DEF StartPuller
  <2>2. on[r] \in born
    BY <2>1
  <2>3. ASSUME NEW q \in Requests, req'[q] = "spawning"
        PROVE  req[q] = "spawning" /\ on[q] # on[r] /\ pull'[on[q]] = pull[on[q]]
    BY <2>1, <2>3
  <2> QED
    BY <2>1, <2>2, <2>3
<1>3. ASSUME NEW s \in Streams, PullerOf(s) PROVE Births'
  <2>1. /\ UNCHANGED <<on, born, req>> /\ pull[s] # "none"
        /\ \A x \in Streams : x # s => pull'[x] = pull[x]
    BY <1>3 DEF PullerOf, Starting, SessionOpens, SessionRefused, Connect,
       ConnectFails, Bind, Identified, IdentifyFails, Announce, Relaying, Read, Fed,
       EngineStops, Interrupted, Stopping, SendStop, Settle, End, Goto, Return,
       tenants
  <2> QED
    BY <2>1
<1>4. ASSUME UNCHANGED <<born, pull>>,
             \A r \in Requests : on'[r] \in {on[r], None},
             \A r \in Requests :
               req'[r] = "spawning" => req[r] = "spawning" /\ on'[r] = on[r]
      PROVE  Births'
  BY <1>4
<1>5. ASSUME NEW r \in Requests,
             \/ PullerNotStarted(r) \/ SeeReady(r) \/ SeeFailed(r) \/ StartTimeout(r)
             \/ Listen(r) \/ FindEnded(r) \/ EncoderFails(r) \/ Leave(r)
      PROVE  Births'
  <2>1. UNCHANGED <<born, pull>>
    BY <1>5 DEF PullerNotStarted, SeeReady, SeeFailed, StartTimeout, Listen,
       FindEnded, EncoderFails, Leave, thread
  <2>2. /\ on' = on \/ on' = [on EXCEPT ![r] = None]
        /\ \E to \in {"refused", "ready", "listening", "gone"} :
             req' = [req EXCEPT ![r] = to]
    BY <1>5 DEF PullerNotStarted, SeeReady, SeeFailed, StartTimeout, Listen,
       FindEnded, EncoderFails, Leave, Refuse
  <2>3. /\ \A q \in Requests : on'[q] \in {on[q], None}
        /\ \A q \in Requests :
             req'[q] = "spawning" => req[q] = "spawning" /\ on'[q] = on[q]
    BY <2>2
  <2> QED
    BY <2>1, <2>3, <1>4
<1>6. ASSUME \/ \E s \in Streams : EncoderLapse(s) \/ EngineLapse(s)
             \/ Peek \/ Unpeek \/ UNCHANGED vars
      PROVE  Births'
  BY <1>6, <1>4 DEF EncoderLapse, EngineLapse, Peek, Unpeek, vars, thread, tenants
<1> QED
  BY <1>1, <1>2, <1>3, <1>5, <1>6 DEF Next, RequestStep, PullerOf

\* Every way out of relay passes send_stop.
LEMMA StagesStep ==
  ASSUME TypeOK, Births, Stages, [Next]_vars
  PROVE  Stages'
<1> USE DEF TypeOK, Stages
<1>1. ASSUME NEW s \in Streams, Starting(s) PROVE Stages'
  BY <1>1 DEF Starting, SessionOpens, SessionRefused, Connect, ConnectFails, Bind,
     Identified, IdentifyFails, Announce, Goto, Return, Publish
<1>2. ASSUME NEW s \in Streams, Relaying(s) PROVE Stages'
  BY <1>2 DEF Relaying, Read, Fed, EngineStops, Interrupted, Goto, Return
<1>3. ASSUME NEW s \in Streams, Stopping(s) PROVE Stages'
  BY <1>3 DEF Stopping, SendStop, Settle, End, Goto, Publish
<1>4. ASSUME NEW r \in Requests, StartPuller(r) PROVE Stages'
  <2>1. pull[on[r]] = "none" /\ on[r] \in Streams
    BY <1>4, NoneAssumption DEF StartPuller, Births
  <2> QED
    BY <1>4, <2>1 DEF StartPuller
<1>5. CASE UNCHANGED thread
  BY <1>5 DEF thread
<1> QED
  BY <1>1, <1>2, <1>3, <1>4, <1>5, PullerFrame DEF PullerOf

\* A puller exits after it has ended its stream, or when there is none.
LEMMA ExitStep ==
  ASSUME TypeOK, Births, Stages, NoAbandonedWaiter, [Next]_vars
  PROVE  NoAbandonedWaiter'
<1> SUFFICES ASSUME NEW x \in Streams, pull'[x] = "exited", Alive(x)'
             PROVE  x \in ended' /\ start'[x] # "pending"
  BY DEF NoAbandonedWaiter
<1>1. CASE pull[x] = "exited"
  <2>1. x \in born
    BY <1>1 DEF Births
  <2>2. x \in ended /\ start[x] # "pending"
    BY <1>1, <2>1, AliveStep DEF NoAbandonedWaiter
  <2> QED
    BY <2>2, PublishedStep
<1>2. CASE pull[x] # "exited"
  <2>1. ~ \E r \in Requests : StartPuller(r)
    BY <1>2 DEF StartPuller, TypeOK
  <2>2. PICK s \in Streams : PullerOf(s)
    BY <1>2, <2>1, PullerFrame DEF thread
  <2>3. Settle(x) \/ End(x)
    BY <1>2, <2>2 DEF PullerOf, Starting, SessionOpens, SessionRefused, Connect,
       ConnectFails, Bind, Identified, IdentifyFails, Announce, Relaying, Read, Fed,
       EngineStops, Interrupted, Stopping, SendStop, Settle, End, Goto, Return, TypeOK
  <2>4. pull[x] # "none" /\ x \in born
    BY <2>3 DEF Settle, End, Births
  <2>5. Alive(x)
    BY <2>4, AliveStep
  <2>6. End(x)
    BY <2>3, <2>5 DEF Settle, Goto, TypeOK
  <2> QED
    BY <2>6 DEF End, Stages
<1> QED
  BY <1>1, <1>2

-----------------------------------------------------------------------------
(* The invariant. *)

LEMMA Initial == Init => IInv
<1> SUFFICES ASSUME Init PROVE IInv
  OBVIOUS
<1>1. TypeOK
  BY BoundAssumption DEF Init, TypeOK
<1>2. Births /\ Stages
  BY DEF Init, Births, Stages
<1>3. OneLivePull /\ NoAbandonedWaiter
  BY DEF Init, OneLivePull, NoAbandonedWaiter, Alive
<1> QED
  BY <1>1, <1>2, <1>3 DEF IInv

LEMMA Inductive == IInv /\ [Next]_vars => IInv'
BY TypeStep, BirthsStep, StagesStep, OneLiveStep, ExitStep DEF IInv

\* Every reachable state of the pulls satisfies the inductive invariant.
THEOREM Invariance == Spec => []IInv
BY Initial, Inductive, PTL DEF Spec

\* The type invariant, by which a request holds an Arc exactly while it waits or
\* listens (Registry::subscribe).
THEOREM TypeCorrect == Spec => []TypeOK
<1>1. IInv => TypeOK
  BY DEF IInv
<1> QED
  BY <1>1, Invariance, PTL

\* For any number of requests and pulls: Registry::engine_stream never starts a
\* pull beside one that requests may still join.
THEOREM Single == Spec => []OneLivePull
<1>1. IInv => OneLivePull
  BY DEF IInv
<1> QED
  BY <1>1, Invariance, PTL

\* Whichever way pull leaves, a stream that is still held has been given an
\* outcome and is marked as ended, and the engine has been sent the stop command
\* for a session that has one.
THEOREM Clean == Spec => []LeavesClean
<1>1. IInv => NoAbandonedWaiter
  BY DEF IInv
<1>2. IInv => StopSent
  BY DEF IInv, Stages, StopSent
<1>3. IInv => LeavesClean
  BY <1>1, <1>2 DEF LeavesClean
<1> QED
  BY <1>3, Invariance, PTL

\* No step takes the last encoder from a pull and leaves it without an Arc of
\* the linger thread.
LEMMA LingerStep ==
  ASSUME TypeOK, [Next]_vars, EngineLinger, NEW x \in Streams,
         EncoderHeld(x), ~EncoderHeld(x)', x \notin ended
  PROVE  parked'[x] > 0
<1> USE NoneAssumption DEF TypeOK, EncoderHeld, Listeners
<1>1. ASSUME DropEncoder(x) PROVE parked'[x] > 0
  BY <1>1 DEF DropEncoder
<1>2. ASSUME NEW r \in Requests, Leave(r) PROVE parked'[x] > 0
  <2>1. x = on[r]
    BY <1>2 DEF Leave
  <2>2. x \notin encl /\ x \notin encl' /\ Listeners(x) = {r}
    BY <1>2, <2>1 DEF Leave
  <2>3. DropEncoder(x)
    BY <1>2, <2>1, <2>2 DEF Leave
  <2> QED
    BY <1>1, <2>3
<1>3. ASSUME NEW s \in Streams, EncoderLapse(s) PROVE parked'[x] > 0
  <2>1. x = s /\ Listeners(x) = {}
    BY <1>3 DEF EncoderLapse
  <2> QED
    BY <1>1, <1>3, <2>1 DEF EncoderLapse
<1>4. UNCHANGED <<req, on, encl>> => FALSE
  OBVIOUS
<1>5. ASSUME NEW r \in Requests,
             \/ Arrive(r) \/ StartPuller(r) \/ PullerNotStarted(r) \/ SeeReady(r)
             \/ SeeFailed(r) \/ StartTimeout(r) \/ Listen(r) \/ FindEnded(r)
             \/ EncoderFails(r)
      PROVE  FALSE
  <2>1. req[r] # "listening" /\ encl' = encl
    BY <1>5 DEF Arrive, StartPuller, PullerNotStarted, SeeReady, SeeFailed,
       StartTimeout, Listen, FindEnded, EncoderFails, looks
  <2>2. \A q \in Requests : q # r => req'[q] = req[q] /\ on'[q] = on[q]
    BY <1>5 DEF Arrive, StartPuller, PullerNotStarted, SeeReady, SeeFailed,
       StartTimeout, Listen, FindEnded, EncoderFails, Refuse
  <2> QED
    BY <2>1, <2>2
<1> QED
  BY <1>2, <1>3, <1>4, <1>5 DEF Next, RequestStep, Starting, SessionOpens,
     SessionRefused, Connect, ConnectFails, Bind, Identified, IdentifyFails,
     Announce, Relaying, Read, Fed, EngineStops, Interrupted, Stopping, SendStop,
     Settle, End, EngineLapse, Peek, Unpeek, tenants, vars

\* For any number of requests and pulls, with ENGINE_LINGER_S above zero: a pull
\* that has not ended outlives its last encoder (linger_engine).
THEOREM Outlives == Spec => LingerOwed
<1>1. TypeOK /\ [Next]_vars =>
        [\A s \in Streams :
           /\ EngineLinger
           /\ EncoderHeld(s) /\ ~EncoderHeld(s)'
           /\ s \notin ended
           => parked'[s] > 0]_vars
  BY LingerStep
<1> QED
  BY <1>1, TypeCorrect, PTL DEF Spec, LingerOwed
=============================================================================
