---------------------------- MODULE EngineStream ----------------------------
(***************************************************************************)
(* The life of the engine pulls of one content id: the registry's entry    *)
(* (Registry::engine_stream), the requests that share it, the puller       *)
(* thread of each EngineStream from handshake to end (pull, relay,         *)
(* identify), and who keeps the Arc<EngineStream> alive.                   *)
(*                                                                         *)
(* The registry and the puller have only Weak handles.  An Arc is held by  *)
(* a request, by the encoder it listens to (here one encoder per stream;   *)
(* module EngineFeed has the map of them), by the linger thread, by the    *)
(* puller for the moments it needs it, and by whoever looks at /status.    *)
(* So "alive" is not a variable: it is the existence of a holder, and      *)
(* EngineStream::drop, which shuts the pull socket, is the instant there   *)
(* is none.  Durations are left out: a timeout or a linger may fire at any *)
(* moment at which the code waits for it.                                  *)
(***************************************************************************)
EXTENDS Integers, FiniteSets

CONSTANTS Streams,       \* EngineStreams that may come to be, each used once
          Requests,      \* requests, each made once
          None,          \* no stream
          EngineLinger,  \* whether config.engine_linger is above zero
          Cloneable,     \* streams whose pull socket can be cloned
          MaxPeeks       \* bound: how often a stream is looked at

ASSUME NoneAssumption == None \notin Streams
ASSUME LingerAssumption == EngineLinger \in BOOLEAN
ASSUME BoundAssumption == MaxPeeks \in Nat

VARIABLES
  entry,    \* Registry::streams[content_id]: the stream its Weak names
  born,     \* streams that have been created
  start,    \* EngineStream::start
  ended,    \* EngineStream::ended
  bound,    \* streams that keep a clone of their pull socket
  pull,     \* where the stream's puller is
  outcome,  \* what its relay returned
  session,  \* its session at the engine, and what became of the stop command
  req,      \* where a request is
  on,       \* the stream whose Arc it holds
  encl,     \* streams whose encoder is kept by linger_encoder
  parked,   \* Arcs of the stream that linger_engine has parked
  peek,     \* the stream /status or the stats poller holds
  peeks     \* how often one has been looked at

looks == <<peek, peeks>>
tenants == <<req, on, encl, parked, looks>>
thread == <<start, ended, bound, pull, outcome, session>>
vars == <<entry, born, thread, tenants>>

Init ==
  /\ entry = None
  /\ born = {} /\ ended = {} /\ bound = {} /\ encl = {}
  /\ start = [s \in Streams |-> "pending"]
  /\ pull = [s \in Streams |-> "none"]
  /\ outcome = [s \in Streams |-> "none"]
  /\ session = [s \in Streams |-> "none"]
  /\ req = [r \in Requests |-> "idle"]
  /\ on = [r \in Requests |-> None]
  /\ parked = [s \in Streams |-> 0]
  /\ peek = None /\ peeks = 0

-----------------------------------------------------------------------------
(* Who holds an Arc<EngineStream>. *)

Listeners(s) == {r \in Requests : on[r] = s /\ req[r] = "listening"}

EncoderHeld(s) == s \in encl \/ Listeners(s) # {}

\* A bug: the puller holds its Arc for as long as it relays.
PullerHoldsThroughout(s) == pull[s] \in {"relay", "feeding", "ending"}

\* While it hands a chunk on, and from publishing its outcome to the end.
PullerHolds(s) == pull[s] \in {"feeding", "ending"}

Used(s) == (\E r \in Requests : on[r] = s) \/ s \in encl \/ parked[s] > 0

Alive(s) == s \in born /\ (Used(s) \/ PullerHolds(s) \/ peek = s)

\* Where relay has the response of its GET, and so a socket of its own.
Responding(s) ==
  pull[s] \in {"bind", "identify", "announce", "relay", "feeding"}

\* A bug: the clone is kept beyond its stream and nobody shuts it.
ConnectedUnshut(s) == s \in bound \/ Responding(s)

\* The proxy has a connection to the engine open for s.  A stream's clone keeps it
\* so after relay has returned, until EngineStream::drop shuts it for good.
Connected(s) == IF s \in bound THEN Alive(s) ELSE Responding(s)

-----------------------------------------------------------------------------
(* Requests. *)

\* The entry's stream, if a request may share it: it can be upgraded and has
\* not ended.
Shareable == entry # None /\ Alive(entry) /\ entry \notin ended

\* A bug: only a pull that has started is shared.
ArriveIfReady(r) ==
  /\ req[r] = "idle"
  /\ \/ /\ Shareable /\ start[entry] = "ready"
        /\ on' = [on EXCEPT ![r] = entry]
        /\ req' = [req EXCEPT ![r] = "waiting"]
        /\ UNCHANGED <<entry, born>>
     \/ /\ ~(Shareable /\ start[entry] = "ready")
        /\ \E s \in Streams \ born :
             /\ born' = born \cup {s}
             /\ entry' = s
             /\ on' = [on EXCEPT ![r] = s]
             /\ req' = [req EXCEPT ![r] = "spawning"]
  /\ UNCHANGED <<thread, encl, parked, looks>>

\* engine_stream under the registry lock: share the entry's pull or create one.
Arrive(r) ==
  /\ req[r] = "idle"
  /\ \/ /\ Shareable
        /\ on' = [on EXCEPT ![r] = entry]
        /\ req' = [req EXCEPT ![r] = "waiting"]
        /\ UNCHANGED <<entry, born>>
     \/ /\ ~Shareable
        /\ \E s \in Streams \ born :
             /\ born' = born \cup {s}
             /\ entry' = s
             /\ on' = [on EXCEPT ![r] = s]
             /\ req' = [req EXCEPT ![r] = "spawning"]
  /\ UNCHANGED <<thread, encl, parked, looks>>

\* The creator starts the puller, after the lock.
StartPuller(r) ==
  /\ req[r] = "spawning"
  /\ pull' = [pull EXCEPT ![on[r]] = "session"]
  /\ req' = [req EXCEPT ![r] = "waiting"]
  /\ UNCHANGED <<entry, born, start, ended, bound, outcome, session, on, encl,
                 parked, looks>>

\* A bug: the Arc of a refused request is not dropped.
RefuseKeepsArc(r) ==
  /\ req' = [req EXCEPT ![r] = "refused"]
  /\ UNCHANGED on

\* r returns with an error and drops its Arc.
Refuse(r) ==
  /\ req' = [req EXCEPT ![r] = "refused"]
  /\ on' = [on EXCEPT ![r] = None]

\* The thread cannot be started; nobody will publish anything.
PullerNotStarted(r) ==
  /\ req[r] = "spawning"
  /\ Refuse(r)
  /\ UNCHANGED <<entry, born, thread, encl, parked, looks>>

\* wait_ready returns Ok.
SeeReady(r) ==
  /\ req[r] = "waiting"
  /\ start[on[r]] = "ready"
  /\ req' = [req EXCEPT ![r] = "ready"]
  /\ UNCHANGED <<entry, born, thread, on, encl, parked, looks>>

\* wait_ready returns the pull's error.
SeeFailed(r) ==
  /\ req[r] = "waiting"
  /\ start[on[r]] = "failed"
  /\ Refuse(r)
  /\ UNCHANGED <<entry, born, thread, encl, parked, looks>>

\* START_TIMEOUT.
StartTimeout(r) ==
  /\ req[r] = "waiting"
  /\ start[on[r]] = "pending"
  /\ Refuse(r)
  /\ UNCHANGED <<entry, born, thread, encl, parked, looks>>

\* A bug: the last encoder lets its pull go at once.
DropEncoderNow(s) == UNCHANGED parked

\* Encoder::drop of the stream's last encoder: linger_engine.
DropEncoder(s) ==
  parked' = IF EngineLinger /\ s \notin ended
            THEN [parked EXCEPT ![s] = @ + 1] ELSE parked

\* get_or_start_encoder and Encoder::subscribe succeed.
Listen(r) ==
  /\ req[r] = "ready"
  /\ on[r] \notin ended
  /\ req' = [req EXCEPT ![r] = "listening"]
  /\ UNCHANGED <<entry, born, thread, on, encl, parked, looks>>

\* start_encoder finds that the pull has ended.
FindEnded(r) ==
  /\ req[r] = "ready"
  /\ on[r] \in ended
  /\ Refuse(r)
  /\ UNCHANGED <<entry, born, thread, encl, parked, looks>>

\* ffmpeg does not start, or yields no init segment: the encoder made for r
\* drops with the error, unless others hold it.
EncoderFails(r) ==
  /\ req[r] = "ready"
  /\ on[r] \notin ended
  /\ Refuse(r)
  /\ IF EncoderHeld(on[r]) THEN UNCHANGED parked ELSE DropEncoder(on[r])
  /\ UNCHANGED <<entry, born, thread, encl, looks>>

\* A listener goes.  The last one leaves the encoder to linger_encoder, or, if
\* it had finished or had evicted r, drops it.
Leave(r) ==
  LET s == on[r] IN
  /\ req[r] = "listening"
  /\ req' = [req EXCEPT ![r] = "gone"]
  /\ on' = [on EXCEPT ![r] = None]
  /\ \/ Listeners(s) # {r} /\ UNCHANGED <<encl, parked>>
     \/ Listeners(s) = {r} /\ encl' = encl \cup {s} /\ UNCHANGED parked
     \/ /\ Listeners(s) = {r}
        /\ IF s \in encl THEN UNCHANGED parked ELSE DropEncoder(s)
        /\ UNCHANGED encl
  /\ UNCHANGED <<entry, born, thread, looks>>

-----------------------------------------------------------------------------
(* The linger thread, /status and the stats poller. *)

EncoderLapse(s) ==
  /\ s \in encl
  /\ encl' = encl \ {s}
  /\ IF Listeners(s) = {} THEN DropEncoder(s) ELSE UNCHANGED parked
  /\ UNCHANGED <<entry, born, thread, req, on, looks>>

EngineLapse(s) ==
  /\ parked[s] > 0
  /\ parked' = [parked EXCEPT ![s] = @ - 1]
  /\ UNCHANGED <<entry, born, thread, req, on, encl, looks>>

\* live_streams, or the poller's upgrade once a fetch is back.
Peek ==
  /\ peek = None
  /\ peeks < MaxPeeks
  /\ \E s \in Streams : Alive(s) /\ peek' = s
  /\ peeks' = peeks + 1
  /\ UNCHANGED <<entry, born, thread, req, on, encl, parked>>

Unpeek ==
  /\ peek # None
  /\ peek' = None
  /\ UNCHANGED <<peeks, entry, born, thread, req, on, encl, parked>>

-----------------------------------------------------------------------------
(* The puller of s. *)

\* Go on to step `to`.
Goto(s, to) == pull' = [pull EXCEPT ![s] = to]

\* relay returns, and its own socket with it.
Return(s, result) ==
  /\ Goto(s, "stop")
  /\ outcome' = [outcome EXCEPT ![s] = result]

\* open_session: the JSON handshake, which has a command_url, or the fallback.
SessionOpens(s) ==
  /\ pull[s] = "session"
  /\ Goto(s, "connect")
  /\ \E kind \in {"controlled", "direct"} : session' = [session EXCEPT ![s] = kind]
  /\ UNCHANGED <<entry, born, start, ended, bound, outcome, tenants>>

\* A bug: an error of open_session ends the thread there and then.
SessionRefusedReturns(s) ==
  /\ pull[s] = "session"
  /\ Goto(s, "exited")
  /\ outcome' = [outcome EXCEPT ![s] = "failed"]
  /\ UNCHANGED <<entry, born, start, ended, bound, session, tenants>>

\* open_session: the engine's own error, and no session.
SessionRefused(s) ==
  /\ pull[s] = "session"
  /\ Goto(s, "publish")
  /\ outcome' = [outcome EXCEPT ![s] = "failed"]
  /\ UNCHANGED <<entry, born, start, ended, bound, session, tenants>>

\* engine::get answers 200.
Connect(s) ==
  /\ pull[s] = "connect"
  /\ Goto(s, "bind")
  /\ UNCHANGED <<entry, born, start, ended, bound, outcome, session, tenants>>

\* A bug: a connection that cannot be opened skips send_stop.
ConnectFailsUnstopped(s) ==
  /\ pull[s] = "connect"
  /\ Goto(s, "publish")
  /\ outcome' = [outcome EXCEPT ![s] = "failed"]
  /\ UNCHANGED <<entry, born, start, ended, bound, session, tenants>>

ConnectFails(s) ==
  /\ pull[s] = "connect"
  /\ Return(s, "failed")
  /\ UNCHANGED <<entry, born, start, ended, bound, session, tenants>>

\* Leave a clone of the socket to EngineStream::drop, if there still is a stream and
\* the socket can be cloned.
Bind(s) ==
  /\ pull[s] = "bind"
  /\ \/ /\ Alive(s)
        /\ bound' = bound \cup ({s} \cap Cloneable)
        /\ Goto(s, "identify")
        /\ UNCHANGED outcome
     \/ ~Alive(s) /\ Return(s, "failed") /\ UNCHANGED bound
  /\ UNCHANGED <<entry, born, start, ended, session, tenants>>

\* identify: named by the PMT or by ffprobe.
Identified(s) ==
  /\ pull[s] = "identify"
  /\ Alive(s)
  /\ Goto(s, "announce")
  /\ UNCHANGED <<entry, born, start, ended, bound, outcome, session, tenants>>

\* identify: the stream is gone, a read fails or nothing can be probed.
IdentifyFails(s) ==
  /\ pull[s] = "identify"
  /\ Return(s, "failed")
  /\ UNCHANGED <<entry, born, start, ended, bound, session, tenants>>

\* publish, with the outcome given: only the first counts.
Publish(s, result) ==
  start' = IF start[s] # "pending" THEN start
           ELSE [start EXCEPT ![s] = IF result = "ok" THEN "ready" ELSE "failed"]

\* The probe is stored and the start published, if there still is a stream.
Announce(s) ==
  /\ pull[s] = "announce"
  /\ \/ /\ Alive(s)
        /\ Publish(s, "ok")
        /\ Goto(s, "relay")
        /\ UNCHANGED outcome
     \/ ~Alive(s) /\ Return(s, "failed") /\ UNCHANGED start
  /\ UNCHANGED <<entry, born, ended, bound, session, tenants>>

\* A read in relay returns data and the Weak still upgrades.
Read(s) ==
  /\ pull[s] = "relay"
  /\ Alive(s)
  /\ Goto(s, "feeding")
  /\ UNCHANGED <<entry, born, start, ended, bound, outcome, session, tenants>>

\* The chunk is in the window and in the queues: the Arc is let go.
Fed(s) ==
  /\ pull[s] = "feeding"
  /\ Goto(s, "relay")
  /\ UNCHANGED <<entry, born, start, ended, bound, outcome, session, tenants>>

\* The engine closes the stream, or sends nothing for STALL_TIMEOUT.
EngineStops(s) ==
  /\ pull[s] = "relay"
  /\ Alive(s)
  /\ Return(s, "ok")
  /\ UNCHANGED <<entry, born, start, ended, bound, session, tenants>>

\* The stream has been dropped: the read breaks on the shut socket, or the
\* Weak does not upgrade.
Interrupted(s) ==
  /\ pull[s] = "relay"
  /\ ~Alive(s)
  /\ Return(s, "ok")
  /\ UNCHANGED <<entry, born, start, ended, bound, session, tenants>>

\* send_stop, where there is a command_url.  It may take the engine a while, and
\* an engine that refuses, fails or does not answer in time is only logged.
SendStop(s) ==
  /\ pull[s] = "stop"
  /\ Goto(s, "publish")
  /\ IF session[s] = "controlled"
       THEN \E how \in {"stopped", "unanswered"} :
              session' = [session EXCEPT ![s] = how]
       ELSE UNCHANGED session
  /\ UNCHANGED <<entry, born, start, ended, bound, outcome, tenants>>

\* The last upgrade: publish the outcome, or exit.
Settle(s) ==
  /\ pull[s] = "publish"
  /\ \/ Alive(s) /\ Publish(s, outcome[s]) /\ Goto(s, "ending")
     \/ ~Alive(s) /\ Goto(s, "exited") /\ UNCHANGED start
  /\ UNCHANGED <<entry, born, ended, bound, outcome, session, tenants>>

End(s) ==
  /\ pull[s] = "ending"
  /\ ended' = ended \cup {s}
  /\ Goto(s, "exited")
  /\ UNCHANGED <<entry, born, start, bound, outcome, session, tenants>>

-----------------------------------------------------------------------------
RequestStep(r) ==
  \/ Arrive(r) \/ StartPuller(r) \/ PullerNotStarted(r)
  \/ SeeReady(r) \/ SeeFailed(r) \/ StartTimeout(r)
  \/ Listen(r) \/ FindEnded(r) \/ EncoderFails(r) \/ Leave(r)

Starting(s) ==
  \/ SessionOpens(s) \/ SessionRefused(s) \/ Connect(s) \/ ConnectFails(s)
  \/ Bind(s) \/ Identified(s) \/ IdentifyFails(s) \/ Announce(s)

Relaying(s) == Read(s) \/ Fed(s) \/ EngineStops(s) \/ Interrupted(s)

Stopping(s) == SendStop(s) \/ Settle(s) \/ End(s)

Next ==
  \/ \E r \in Requests : RequestStep(r)
  \/ \E s \in Streams : \/ Starting(s) \/ Relaying(s) \/ Stopping(s)
                        \/ EncoderLapse(s) \/ EngineLapse(s)
  \/ Peek \/ Unpeek

Spec == Init /\ [][Next]_vars

\* Every wait of the puller on the engine has a timeout (CONTROL_TIMEOUT,
\* STALL_TIMEOUT) and PREROLL bounds identify; a read that is interrupted
\* returns.  Lingers lapse, /status and the poller let go, and a request that
\* can return from wait_ready does.  Nothing makes the engine stop, a listener
\* leave, a new request arrive or START_TIMEOUT pass.
Fairness ==
  /\ \A s \in Streams :
       /\ WF_vars(Starting(s) \/ Fed(s) \/ Interrupted(s) \/ Stopping(s))
       /\ WF_vars(EncoderLapse(s)) /\ WF_vars(EngineLapse(s))
  /\ WF_vars(Unpeek)
  /\ \A r \in Requests : WF_vars(SeeReady(r) \/ SeeFailed(r))

FairSpec == Spec /\ Fairness

-----------------------------------------------------------------------------
TypeOK ==
  /\ entry \in Streams \cup {None}
  /\ born \subseteq Streams /\ ended \subseteq Streams /\ bound \subseteq Streams
  /\ start \in [Streams -> {"pending", "ready", "failed"}]
  /\ pull \in [Streams -> {"none", "session", "connect", "bind", "identify",
                           "announce", "relay", "feeding", "stop", "publish",
                           "ending", "exited"}]
  /\ outcome \in [Streams -> {"none", "ok", "failed"}]
  /\ session \in [Streams -> {"none", "controlled", "direct", "stopped", "unanswered"}]
  /\ req \in [Requests -> {"idle", "spawning", "waiting", "ready", "listening",
                           "refused", "gone"}]
  /\ on \in [Requests -> Streams \cup {None}]
  /\ encl \subseteq Streams
  /\ parked \in [Streams -> Nat]
  /\ \A r \in Requests :
       on[r] # None <=> req[r] \in {"spawning", "waiting", "ready", "listening"}
  /\ peek \in Streams \cup {None} /\ peeks \in 0..MaxPeeks

\* Of all the pulls there ever were, only the registry's entry can be alive and
\* not ended: concurrent requests share one pull, and a fresh one never leaves
\* another running that requests still use (Registry::engine_stream).
OneLivePull ==
  \A s \in Streams : Alive(s) /\ s \notin ended => s = entry

\* A puller that has exited leaves nobody behind: its stream is gone, or every
\* waiter was given an outcome and the pull is marked as ended, so that no
\* request joins it again (pull, publish, end).
NoAbandonedWaiter ==
  \A s \in Streams :
    pull[s] = "exited" /\ Alive(s) => s \in ended /\ start[s] # "pending"

\* No puller exits without having told the engine to stop a session it could stop,
\* by whatever error path it left (README: "an explicit method=stop").  Whether the
\* engine heard it is another matter (send_stop: "Best effort").
StopSent == \A s \in Streams : pull[s] = "exited" => session[s] # "controlled"

\* Whichever way a puller leaves, it leaves no waiter and no session it did not try
\* to stop.
LeavesClean == NoAbandonedWaiter /\ StopSent

\* A pull that served an encoder and has not ended outlives its last encoder:
\* the linger thread holds it from the very step in which the encoder goes
\* (README: "an engine pull for ENGINE_LINGER_S after its last encoder stops").
LingerOwed ==
  [][\A s \in Streams :
       /\ EngineLinger
       /\ EncoderHeld(s) /\ ~EncoderHeld(s)'
       /\ s \notin ended
       => parked'[s] > 0]_vars

\* A pull that nobody uses any more closes, its thread and its connection to the
\* engine, unless somebody comes back to it: no Weak upgrade of the puller's own
\* and no socket kept elsewhere holds it open, whether or not the engine has heard
\* the stop command (relay, EngineStream::drop).
Teardown ==
  \A s \in Streams :
    (pull[s] # "none" /\ ~Used(s))
      ~> ((pull[s] = "exited" /\ ~Connected(s)) \/ Used(s))

\* A request that waits on a started pull is answered without START_TIMEOUT
\* having to pass, on every error path (pull: "Reaches anyone still waiting").
PullSettles ==
  \A r \in Requests :
    (req[r] = "waiting" /\ pull[on[r]] # "none") ~> (req[r] # "waiting")

\* What the README says of a pull the engine has ended: "The next request for
\* that content id starts a fresh pull rather than joining the one that ended."
NoLateJoin ==
  [][\A r \in Requests :
       req[r] = "idle" /\ req'[r] = "waiting" =>
         ~(outcome[on'[r]] = "ok")]_vars
=============================================================================
