------------------------------- MODULE Linger -------------------------------
(***************************************************************************)
(* src/src/linger.rs: values parked for a while and dropped by one thread. *)
(* A value that is dropped may park another one (Encoder::drop parks the   *)
(* engine pull), and that happens on the linger thread itself, in the      *)
(* middle of its scan.                                                     *)
(*                                                                         *)
(* Time is a counter that stands still while the thread has something to   *)
(* do: the thread is taken to be as fast as it is in the code's terms,     *)
(* where only its own choice of deadline can make it late.                 *)
(***************************************************************************)
EXTENDS Integers, Sequences, FiniteSets

CONSTANTS Values,    \* what may be parked, each once
          None,      \* no value
          Periods,   \* the periods hold is called with
          Follower,  \* the value that dropping a value parks, or None
          MaxTime    \* bound on the clock

ASSUME NoneAssumption == None \notin Values
ASSUME FollowerAssumption == Follower \in [Values -> Values \cup {None}]
ASSUME PeriodAssumption == Periods \subseteq Nat
ASSUME BoundAssumption == MaxTime \in Nat

VARIABLES
  now,       \* the clock
  channel,   \* what has been sent to the thread
  held,      \* the thread's vector, as a set
  deadline,  \* until when its recv waits
  thread,    \* where it is in its loop
  until,     \* when a parked value is due
  gone       \* when it was dropped

vars == <<now, channel, held, deadline, thread, until, gone>>

Never == MaxTime + 1
Unset == -1

Init ==
  /\ now = 0
  /\ channel = <<>> /\ held = {}
  /\ deadline = Never /\ thread = "loop"
  /\ until = [v \in Values |-> Unset]
  /\ gone = [v \in Values |-> Unset]

-----------------------------------------------------------------------------
Followers == {Follower[v] : v \in Values}

\* v is dropped, and parks its follower unless others still hold that or it has ended.
LetGo(v, due) ==
  /\ gone' = [gone EXCEPT ![v] = now]
  /\ \/ until' = due /\ UNCHANGED channel
     \/ /\ Follower[v] # None /\ due[Follower[v]] = Unset
        /\ \E p \in Periods \ {0} : until' = [due EXCEPT ![Follower[v]] = now + p]
        /\ channel' = Append(channel, Follower[v])

\* hold, called by a request thread.
Hold(v, p) ==
  /\ until[v] = Unset /\ v \notin Followers
  /\ LET due == [until EXCEPT ![v] = now + p]
     IN IF p = 0
        THEN LetGo(v, due)
        ELSE until' = due /\ channel' = Append(channel, v) /\ UNCHANGED gone
  /\ UNCHANGED <<now, held, deadline, thread>>

\* A bug: the wait is for the longest linger.
LatestOf(due) == IF due = {} THEN Never ELSE CHOOSE t \in due : \A u \in due : u <= t

\* The earliest of these instants.
EarliestOf(due) == IF due = {} THEN Never ELSE CHOOSE t \in due : \A u \in due : t <= u

\* The top of run's loop: how long to wait.
Loop ==
  /\ thread = "loop"
  /\ deadline' = EarliestOf({until[v] : v \in held})
  /\ thread' = "wait"
  /\ UNCHANGED <<now, channel, held, until, gone>>

\* recv or recv_timeout returns an entry ...
Receive ==
  /\ thread = "wait"
  /\ channel # <<>>
  /\ held' = held \cup {Head(channel)}
  /\ channel' = Tail(channel)
  /\ thread' = "scan"
  /\ UNCHANGED <<now, deadline, until, gone>>

\* ... or times out.
TimeOut ==
  /\ thread = "wait"
  /\ deadline <= now
  /\ thread' = "scan"
  /\ UNCHANGED <<now, channel, held, deadline, until, gone>>

Expired == {v \in held : until[v] <= now}

\* retain drops one expired value; its drop may park another.
DropOne(v) ==
  /\ thread = "scan"
  /\ v \in Expired
  /\ held' = held \ {v}
  /\ LetGo(v, until)
  /\ UNCHANGED <<now, deadline, thread>>

ScanDone ==
  /\ thread = "scan"
  /\ Expired = {}
  /\ thread' = "loop"
  /\ UNCHANGED <<now, channel, held, deadline, until, gone>>

Tick ==
  /\ thread = "wait" /\ channel = <<>> /\ now < deadline
  /\ now < MaxTime
  /\ now' = now + 1
  /\ UNCHANGED <<channel, held, deadline, thread, until, gone>>

Next ==
  \/ \E v \in Values, p \in Periods : Hold(v, p)
  \/ Loop \/ Receive \/ TimeOut \/ ScanDone \/ Tick
  \/ \E v \in Values : DropOne(v)

Spec == Init /\ [][Next]_vars

-----------------------------------------------------------------------------
TypeOK ==
  /\ now \in 0..MaxTime
  /\ channel \in Seq(Values) /\ held \subseteq Values
  /\ deadline \in Nat
  /\ thread \in {"loop", "wait", "scan"}
  /\ until \in [Values -> Nat \cup {Unset}]
  /\ gone \in [Values -> 0..MaxTime \cup {Unset}]
  /\ \A v \in Values : gone[v] # Unset => v \notin held /\ until[v] # Unset

\* A parked value is dropped at the instant it is due, neither early nor behind
\* a longer linger, whatever else is parked in between or by a drop (the test
\* a_short_linger_is_not_held_up_behind_a_long_one).
Punctual ==
  \A v \in Values : until[v] # Unset =>
    IF gone[v] = Unset THEN now <= until[v] ELSE gone[v] = until[v]
=============================================================================
