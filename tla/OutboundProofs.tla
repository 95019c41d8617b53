---------------------------- MODULE OutboundProofs ----------------------------
(***************************************************************************)
(* Proofs about what goes out to players and what is dropped after them.   *)
(*                                                                         *)
(* Linger, for any values and followers, any periods and any time: the     *)
(* thread that waits for one instant at a time is late for none.           *)
(*                                                                         *)
(* Locks, for any number of requests: the mutexes are taken in one order,  *)
(* an encoder is never dropped under `encoders`, and nobody waits for the  *)
(* outside world with a mutex held (the reap of a killed ffmpeg is no part *)
(* of Locks).                                                              *)
(*                                                                         *)
(* ListenerQueue, for any lengths, bounds and batches: the bytes counted   *)
(* are those queued, the player is sent the body in order, and what        *)
(* fan_out evicts for and what it lets by.                                 *)
(*                                                                         *)
(* The three are together in MCLinger, the specification that TLC runs.    *)
(***************************************************************************)
EXTENDS MCLinger, SequenceLemmas

-----------------------------------------------------------------------------
(* Linger: the earliest of some instants. *)

LEMMA EarliestBounds ==
  ASSUME NEW T \in SUBSET Nat
  PROVE  EarliestOf(T) \in Nat /\ \A u \in T : EarliestOf(T) <= u
<1>1. CASE T = {}
  BY <1>1, BoundAssumption DEF EarliestOf, Never
<1>2. CASE T # {}
  <2>1. \E t \in T : \A u \in T : t <= u
    BY <1>2, Least
  <2>2. EarliestOf(T) = CHOOSE t \in T : \A u \in T : t <= u
    BY <1>2 DEF EarliestOf
  <2>3. EarliestOf(T) \in T /\ \A u \in T : EarliestOf(T) <= u
    BY <2>1, <2>2
  <2> QED  BY <2>3
<1> QED  BY <1>1, <1>2

-----------------------------------------------------------------------------
(* Linger: the parts of the inductive invariant. *)

Pending == {v \in Values : until[v] # Unset /\ gone[v] = Unset}

\* What is on its way has been parked, once, and has not been dropped.
OnItsWay ==
  /\ \A i \in DOMAIN channel : channel[i] \in Pending \ held
  /\ \A i, j \in DOMAIN channel : channel[i] = channel[j] => i = j

\* Nothing is lost.
Accounted ==
  \A v \in Pending : v \in held \/ \E i \in DOMAIN channel : channel[i] = v

\* While the thread waits it waits for the first of what it holds.
Awake == thread = "wait" => \A v \in held : deadline <= until[v]

LingerInv == TypeOK /\ held \subseteq Pending /\ OnItsWay /\ Accounted /\ Awake /\ Punctual

LEMMA InvInit == Init => LingerInv
<1> SUFFICES ASSUME Init PROVE LingerInv
  OBVIOUS
<1>1. TypeOK
  BY BoundAssumption DEF Init, TypeOK, Never, Unset
<1>2. Pending = {} /\ held = {} /\ DOMAIN channel = {}
  BY DEF Init, Pending
<1> QED  BY <1>1, <1>2 DEF LingerInv, OnItsWay, Accounted, Awake, Punctual, Init

-----------------------------------------------------------------------------
(* Linger: the steps. *)

\* v, which is nowhere, is sent to the thread.
LEMMA SendStep ==
  ASSUME LingerInv, NEW v \in Values, v \notin Pending, gone[v] = Unset, NEW p \in Nat,
         until' = [until EXCEPT ![v] = now + p], channel' = Append(channel, v),
         UNCHANGED <<now, held, deadline, thread, gone>>
  PROVE  LingerInv'
<1> USE DEF LingerInv, TypeOK, Unset
<1>1. until' \in [Values -> Nat \cup {Unset}] /\ channel' \in Seq(Values)
  OBVIOUS
<1>2. Pending' = Pending \cup {v} /\ v \notin held
  BY DEF Pending
<1>3. /\ DOMAIN channel = 1..Len(channel) /\ DOMAIN channel' = 1..(Len(channel) + 1)
      /\ \A i \in DOMAIN channel : channel'[i] = channel[i]
      /\ channel'[Len(channel) + 1] = v
  OBVIOUS
<1>4. OnItsWay'
  BY <1>2, <1>3 DEF OnItsWay
<1>5. Accounted'
  <2>1. ASSUME NEW w \in Pending', w \notin held
        PROVE  \E i \in DOMAIN channel' : channel'[i] = w
    <3>1. CASE w = v
      <4>1. Len(channel) + 1 \in DOMAIN channel'
        BY <1>3
      <4> QED  BY <1>3, <3>1, <4>1
    <3>2. CASE w # v
      <4>1. PICK i \in DOMAIN channel : channel[i] = w
        BY <1>2, <2>1, <3>2 DEF Accounted
      <4>2. i \in DOMAIN channel' /\ channel'[i] = w
        BY <1>3, <4>1
      <4> QED  BY <4>2
    <3> QED  BY <3>1, <3>2
  <2> QED  BY <2>1 DEF Accounted
<1>6. Awake'
  BY <1>2 DEF Awake, Pending
<1>7. Punctual'
  BY <1>1 DEF Punctual
<1> QED  BY <1>1, <1>2, <1>4, <1>5, <1>6, <1>7

\* v, which is due, is dropped and perhaps its follower sent to the thread.
LEMMA LetGoStep ==
  ASSUME LingerInv, NEW v \in Values, NEW due \in [Values -> Nat \cup {Unset}],
         \A w \in Values \ {v} : due[w] = until[w], due[v] = now,
         \A i \in DOMAIN channel : channel[i] # v, gone[v] = Unset,
         LetGo(v, due), held' = held \ {v},
         UNCHANGED <<now, deadline, thread>>
  PROVE  LingerInv'
<1> USE DEF LingerInv, TypeOK, Unset
<1>1. gone' \in [Values -> 0..MaxTime \cup {Unset}] /\ gone'[v] = now
        /\ \A w \in Values \ {v} : gone'[w] = gone[w]
  BY DEF LetGo
<1>2. CASE until' = due /\ UNCHANGED channel
  <2>1. Pending' = Pending \ {v}
    BY <1>1, <1>2 DEF Pending
  <2>2. TypeOK'
    BY <1>1, <1>2
  <2>3. OnItsWay' /\ Accounted'
    BY <1>2, <2>1 DEF OnItsWay, Accounted
  <2>4. Awake' /\ Punctual'
    BY <1>1, <1>2 DEF Awake, Punctual
  <2> QED  BY <2>1, <2>2, <2>3, <2>4
<1>3. ASSUME Follower[v] # None, due[Follower[v]] = Unset, NEW p \in Periods \ {0},
             until' = [due EXCEPT ![Follower[v]] = now + p],
             channel' = Append(channel, Follower[v])
      PROVE  LingerInv'
  <2> DEFINE f == Follower[v]
  <2>1. f \in Values /\ f # v /\ until[f] = Unset /\ p \in Nat
    <3>1. f \in Values /\ p \in Nat
      BY <1>3, FollowerAssumption, PeriodAssumption
    <3>2. due[f] = Unset /\ due[v] # Unset
      BY <1>3
    <3> QED  BY <3>1, <3>2
  <2>2. gone[f] = Unset /\ f \notin held /\ f \notin Pending
    BY <2>1 DEF Pending
  <2> HIDE DEF f
  <2>3. until' = [due EXCEPT ![f] = now + p] /\ channel' = Append(channel, f)
    BY <1>3 DEF f
  <2>4. until' \in [Values -> Nat \cup {Unset}] /\ until'[f] = now + p
          /\ \A w \in Values \ {f} : until'[w] = due[w]
    BY <2>1, <2>3
  <2>5. Pending' = (Pending \ {v}) \cup {f}
    BY <1>1, <2>1, <2>2, <2>4 DEF Pending
  <2>6. /\ DOMAIN channel = 1..Len(channel) /\ DOMAIN channel' = 1..(Len(channel) + 1)
        /\ \A i \in DOMAIN channel : channel'[i] = channel[i]
        /\ channel'[Len(channel) + 1] = f /\ channel' \in Seq(Values)
    BY <2>1, <2>3
  <2>7. TypeOK'
    <3>1. \A w \in Values : gone'[w] # Unset => w \notin held' /\ until'[w] # Unset
      BY <1>1, <2>1, <2>2, <2>4
    <3> QED  BY <1>1, <2>4, <2>6, <3>1
  <2>8. OnItsWay'
    <3>1. \A i \in DOMAIN channel : channel[i] \in Pending \ held /\ channel[i] # f
      BY <2>2 DEF OnItsWay
    <3>2. \A i \in DOMAIN channel' : channel'[i] \in Pending' \ held'
      BY <2>1, <2>2, <2>5, <2>6, <3>1
    <3>3. \A i, j \in DOMAIN channel' : channel'[i] = channel'[j] => i = j
      BY <2>6, <3>1 DEF OnItsWay
    <3> QED  BY <3>2, <3>3 DEF OnItsWay
  <2>9. Accounted'
    <3>1. ASSUME NEW w \in Pending'
          PROVE  w \in held' \/ \E i \in DOMAIN channel' : channel'[i] = w
      <4>1. CASE w = f
        <5>1. Len(channel) + 1 \in DOMAIN channel'
          BY <2>6
        <5> QED  BY <2>6, <4>1, <5>1
      <4>2. CASE w # f
        <5>1. w \in Pending /\ w # v
          BY <2>1, <2>5, <3>1, <4>2
        <5>2. CASE w \in held
          BY <5>1, <5>2
        <5>3. CASE \E i \in DOMAIN channel : channel[i] = w
          BY <2>6, <5>3
        <5> QED  BY <5>1, <5>2, <5>3 DEF Accounted
      <4> QED  BY <4>1, <4>2
    <3> QED  BY <3>1 DEF Accounted
  <2>10. Awake'
    BY <2>1, <2>2, <2>4 DEF Awake
  <2>11. Punctual'
    BY <1>1, <2>1, <2>2, <2>4 DEF Punctual
  <2> QED  BY <2>2, <2>5, <2>7, <2>8, <2>9, <2>10, <2>11
<1> QED  BY <1>2, <1>3 DEF LetGo

LEMMA HoldStep ==
  ASSUME LingerInv, NEW v \in Values, NEW p \in Periods, Hold(v, p)
  PROVE  LingerInv'
<1> DEFINE due == [until EXCEPT ![v] = now + p]
<1>1. p \in Nat /\ v \notin Pending /\ gone[v] = Unset /\ v \notin held
  BY PeriodAssumption DEF Hold, LingerInv, TypeOK, Pending, Unset
<1>2. due \in [Values -> Nat \cup {Unset}] /\ due[v] = now + p
        /\ \A w \in Values \ {v} : due[w] = until[w]
  BY <1>1 DEF LingerInv, TypeOK
<1>3. \A i \in DOMAIN channel : channel[i] # v
  BY <1>1 DEF LingerInv, OnItsWay
<1>4. CASE p = 0
  <2>1. LetGo(v, due) /\ held' = held \ {v} /\ UNCHANGED <<now, deadline, thread>>
    BY <1>1, <1>4 DEF Hold
  <2>2. due[v] = now
    BY <1>2, <1>4 DEF LingerInv, TypeOK
  <2> HIDE DEF due
  <2> QED  BY <1>1, <1>2, <1>3, <2>1, <2>2, LetGoStep
<1>5. CASE p # 0
  BY <1>1, <1>5, SendStep DEF Hold
<1> QED  BY <1>4, <1>5

LEMMA LoopStep ==
  ASSUME LingerInv, Loop
  PROVE  LingerInv'
<1> USE DEF LingerInv, TypeOK, Loop
<1> DEFINE dues == {until[v] : v \in held}
<1>1. dues \in SUBSET Nat
  BY DEF Pending, Unset
<1>2. deadline' = EarliestOf(dues)
  OBVIOUS
<1>3. EarliestOf(dues) \in Nat /\ \A u \in dues : EarliestOf(dues) <= u
  BY <1>1, EarliestBounds
<1>4. deadline' \in Nat /\ \A v \in held : deadline' <= until[v]
  BY <1>2, <1>3
<1>5. Pending' = Pending
  BY DEF Pending
<1>6. OnItsWay' /\ Accounted' /\ Awake' /\ Punctual' /\ TypeOK'
  BY <1>4, <1>5 DEF OnItsWay, Accounted, Awake, Punctual
<1> QED  BY <1>5, <1>6

LEMMA ReceiveStep ==
  ASSUME LingerInv, Receive
  PROVE  LingerInv'
<1> USE DEF LingerInv, TypeOK, Receive
<1> DEFINE h == Head(channel)
<1>1. /\ h = channel[1] /\ DOMAIN channel = 1..Len(channel) /\ 1 \in DOMAIN channel
      /\ channel' \in Seq(Values) /\ DOMAIN channel' = 1..(Len(channel) - 1)
      /\ \A i \in DOMAIN channel' : channel'[i] = channel[i + 1] /\ i + 1 \in DOMAIN channel
  OBVIOUS
<1>2. h \in Pending \ held
  BY <1>1 DEF OnItsWay
<1>3. Pending' = Pending
  BY DEF Pending
<1>4. TypeOK' /\ held' \subseteq Pending'
  BY <1>1, <1>2, <1>3 DEF Pending
<1>5. OnItsWay'
  <2>1. \A i \in DOMAIN channel' : channel'[i] # h
    BY <1>1 DEF OnItsWay
  <2> QED  BY <1>1, <1>3, <2>1 DEF OnItsWay
<1>6. Accounted'
  <2> SUFFICES ASSUME NEW v \in Pending, v \notin held'
               PROVE  \E i \in DOMAIN channel' : channel'[i] = v
    BY <1>3 DEF Accounted
  <2>1. PICK i \in DOMAIN channel : channel[i] = v
    BY DEF Accounted
  <2>2. i # 1 /\ i - 1 \in DOMAIN channel'
    BY <1>1, <2>1
  <2> QED  BY <1>1, <2>1, <2>2
<1>7. Awake' /\ Punctual'
  BY DEF Awake, Punctual
<1> QED  BY <1>3, <1>4, <1>5, <1>6, <1>7

LEMMA TickStep ==
  ASSUME LingerInv, Tick
  PROVE  LingerInv'
<1> USE DEF LingerInv, TypeOK, Tick
<1>1. Pending' = Pending
  BY DEF Pending
<1>2. \A v \in Pending : now + 1 <= until[v]
  <2>1. DOMAIN channel = {}
    OBVIOUS
  <2>2. \A v \in Pending : v \in held /\ until[v] \in Nat
    BY <2>1 DEF Accounted, Pending
  <2> QED  BY <2>2 DEF Awake
<1>3. Punctual'
  BY <1>2 DEF Punctual, Pending
<1>4. TypeOK'
  BY BoundAssumption
<1> QED  BY <1>1, <1>3, <1>4 DEF OnItsWay, Accounted, Awake

LEMMA InvStep ==
  ASSUME LingerInv, [Next]_vars
  PROVE  LingerInv'
<1>1. ASSUME NEW v \in Values, NEW p \in Periods, Hold(v, p)
      PROVE  LingerInv'
  BY <1>1, HoldStep
<1>2. CASE Loop \/ Receive \/ Tick
  BY <1>2, LoopStep, ReceiveStep, TickStep
<1>3. CASE TimeOut \/ ScanDone \/ UNCHANGED vars
  <2>1. Pending' = Pending
    BY <1>3 DEF TimeOut, ScanDone, vars, Pending
  <2> QED
    BY <1>3, <2>1
    DEF TimeOut, ScanDone, vars, LingerInv, TypeOK, OnItsWay, Accounted, Awake, Punctual
<1>4. ASSUME NEW v \in Values, DropOne(v)
      PROVE  LingerInv'
  <2>1. v \in held /\ until[v] <= now /\ LetGo(v, until) /\ held' = held \ {v}
          /\ UNCHANGED <<now, deadline, thread>>
    BY <1>4 DEF DropOne, Expired
  <2>2. gone[v] = Unset /\ until[v] = now
    BY <2>1 DEF LingerInv, TypeOK, Punctual, Pending, Unset
  <2>3. \A i \in DOMAIN channel : channel[i] # v
    BY <2>1 DEF LingerInv, OnItsWay
  <2>4. until \in [Values -> Nat \cup {Unset}]
    BY DEF LingerInv, TypeOK
  <2> QED  BY <2>1, <2>2, <2>3, <2>4, LetGoStep
<1> QED  BY <1>1, <1>2, <1>3, <1>4 DEF Next

-----------------------------------------------------------------------------
\* Every variable keeps its type, and the thread holds nothing it has dropped or
\* that was never parked (run).
THEOREM TypeCorrect == Spec => []TypeOK
<1>1. Init => LingerInv  BY InvInit
<1>2. LingerInv /\ [Next]_vars => LingerInv'  BY InvStep
<1>3. LingerInv => TypeOK  BY DEF LingerInv
<1> QED  BY <1>1, <1>2, <1>3, PTL DEF Spec

\* One thread that waits for the earliest instant drops every value when it is due,
\* however many are parked, for whatever periods and in whatever order, and
\* whatever their drops park in turn (linger.rs, run).
THEOREM OnTime == Spec => []Punctual
<1>1. Init => LingerInv  BY InvInit
<1>2. LingerInv /\ [Next]_vars => LingerInv'  BY InvStep
<1>3. LingerInv => Punctual  BY DEF LingerInv
<1> QED  BY <1>1, <1>2, <1>3, PTL DEF Spec

-----------------------------------------------------------------------------
(* Locks: what a request may have still to do.  Each of these is one of    *)
(* the others' rest, or is what a step turns to.                           *)

Looks == <<In(Encoders, "look", Nobody), Step("found", Nobody)>>
Finds == <<Step("found", Nobody)>>
Joined(e) == <<Unlock(Creating), Step("leave", e)>>
Leaves(e) == <<Step("leave", e)>>
Drops == <<Drop>>
Restarts == <<Drop>> \o Start
Reaps == Dropping \o Start
Checks == <<Step("check", Nobody)>>
Refused == <<Unlock(Encoders), Unlock(Creating)>>
Closes == <<Unlock(Creating)>>
Inserted == <<Unlock(Encoders), Step("spawn", Nobody)>>
Spawns == <<Step("spawn", Nobody)>>
Undoes == <<Pass(Encoders), Drop, Unlock(Creating)>>
Discards == <<Drop, Unlock(Creating)>>
Buries == Dropping \o Closes

\* Without a mutex, with `creating`, and with `encoders` too.
Outdoors == {<<>>, Join, Drops, Dropping} \cup {Leaves(e) : e \in Requests}
Creates ==
  {Looks, Finds, Restarts, Reaps, Start, Spawns, Undoes, Discards, Buries, Closes}
  \cup {Joined(e) : e \in Requests}
Inserts == {Checks, Refused, Insert, Inserted}

\* A sequence of steps, with the first of them.
First(s, f, mutex, rest) ==
  /\ s # <<>> /\ Head(s).do = f /\ Head(s).in = mutex /\ Tail(s) = rest

LEMMA Prefixed ==
  /\ \A a, b : <<a>> \o <<b>> = <<a, b>>
  /\ \A a, b, c : <<a>> \o <<b, c>> = <<a, b, c>>
  /\ <<>> \o <<>> = <<>>
  /\ \A a : <<>> \o <<a>> = <<a>> /\ <<a>> \o <<>> = <<a>>
  /\ \A a, b : <<>> \o <<a, b>> = <<a, b>>
<1>1. ASSUME NEW a, NEW b
      PROVE  <<a>> \o <<b>> = <<a, b>>
  <2> DEFINE T == {a, b}
  <2>1. <<a>> \in Seq(T) /\ <<b>> \in Seq(T) /\ <<a, b>> \in Seq(T)
    OBVIOUS
  <2>2. Len(<<a>>) = 1 /\ Len(<<b>>) = 1 /\ Len(<<a, b>>) = 2
    OBVIOUS
  <2> HIDE DEF T
  <2>3. /\ <<a>> \o <<b>> \in Seq(T) /\ Len(<<a>> \o <<b>>) = 2
        /\ \A i \in 1..2 : (<<a>> \o <<b>>)[i] = IF i <= 1 THEN <<a>>[i] ELSE <<b>>[i - 1]
    BY <2>1, <2>2, ConcatProperties
  <2>4. \A i \in 1..2 : (<<a>> \o <<b>>)[i] = <<a, b>>[i]
    BY <2>3
  <2> QED  BY <2>1, <2>2, <2>3, <2>4, SeqEqual
<1>2. ASSUME NEW a, NEW b, NEW c
      PROVE  <<a>> \o <<b, c>> = <<a, b, c>>
  <2> DEFINE T == {a, b, c}
  <2>1. <<a>> \in Seq(T) /\ <<b, c>> \in Seq(T) /\ <<a, b, c>> \in Seq(T)
    OBVIOUS
  <2>2. Len(<<a>>) = 1 /\ Len(<<b, c>>) = 2 /\ Len(<<a, b, c>>) = 3
    OBVIOUS
  <2> HIDE DEF T
  <2>3. /\ <<a>> \o <<b, c>> \in Seq(T) /\ Len(<<a>> \o <<b, c>>) = 3
        /\ \A i \in 1..3 :
             (<<a>> \o <<b, c>>)[i] = IF i <= 1 THEN <<a>>[i] ELSE <<b, c>>[i - 1]
    BY <2>1, <2>2, ConcatProperties
  <2>4. \A i \in 1..3 : (<<a>> \o <<b, c>>)[i] = <<a, b, c>>[i]
    BY <2>3
  <2> QED  BY <2>1, <2>2, <2>3, <2>4, SeqEqual
<1>3. \A T : \A s \in Seq(T) : <<>> \o s = s /\ s \o <<>> = s
  BY ConcatEmptySeq
<1>4. ASSUME NEW a, NEW b
      PROVE  <<>> \o <<a>> = <<a>> /\ <<a>> \o <<>> = <<a>> /\ <<>> \o <<a, b>> = <<a, b>>
  <2>1. <<a>> \in Seq({a, b}) /\ <<a, b>> \in Seq({a, b})
    OBVIOUS
  <2> QED  BY <1>3, <2>1
<1>5. <<>> \o <<>> = <<>>
  <2>1. <<>> \in Seq({})
    OBVIOUS
  <2> QED  BY <1>3, <2>1
<1> QED  BY <1>1, <1>2, <1>4, <1>5

LEMMA StepFields ==
  /\ \A f, e : Step(f, e).do = f /\ Step(f, e).on = e /\ Step(f, e).in = Nobody
  /\ \A m, f, e : In(m, f, e).do = f /\ In(m, f, e).on = e /\ In(m, f, e).in = m
BY DEF Step, In

LEMMA Table ==
  /\ First(Join, "lock", Creating, Looks)
  /\ First(Looks, "look", Encoders, Finds)
  /\ First(Finds, "found", Nobody, <<>>)
  /\ First(Drops, "drop", Nobody, <<>>)
  /\ First(Dropping, "pass", Encoders, <<>>)
  /\ First(Start, "lock", Encoders, Checks)
  /\ First(Restarts, "drop", Nobody, Start)
  /\ First(Reaps, "pass", Encoders, Start)
  /\ First(Checks, "check", Nobody, <<>>)
  /\ First(Refused, "unlock", Nobody, Closes) /\ Head(Refused).on = Encoders
  /\ First(Closes, "unlock", Nobody, <<>>) /\ Head(Closes).on = Creating
  /\ First(Insert, "register", Window, Inserted)
  /\ First(Inserted, "unlock", Nobody, Spawns) /\ Head(Inserted).on = Encoders
  /\ First(Spawns, "spawn", Nobody, <<>>)
  /\ First(Undoes, "pass", Encoders, Discards)
  /\ First(Discards, "drop", Nobody, Closes)
  /\ First(Buries, "pass", Encoders, Closes)
  /\ \A e : /\ First(Joined(e), "unlock", Nobody, Leaves(e)) /\ Head(Joined(e)).on = Creating
            /\ First(Leaves(e), "leave", Nobody, <<>>) /\ Head(Leaves(e)).on = e
<1> USE StepFields DEF First, Lock, Unlock, Pass, Drop
<1>1. First(Join, "lock", Creating, Looks) /\ First(Looks, "look", Encoders, Finds)
  BY DEF Join, Looks, Finds
<1>2. /\ First(Finds, "found", Nobody, <<>>) /\ First(Drops, "drop", Nobody, <<>>)
      /\ First(Dropping, "pass", Encoders, <<>>)
  BY DEF Finds, Drops, Dropping
<1>3. First(Start, "lock", Encoders, Checks) /\ First(Checks, "check", Nobody, <<>>)
  BY DEF Start, Checks
<1>4. First(Restarts, "drop", Nobody, Start)
  <2>1. Restarts = <<Drop, Lock(Encoders), Step("check", Nobody)>>
    BY Prefixed DEF Restarts, Start
  <2> QED  BY <2>1 DEF Start
<1>5. First(Reaps, "pass", Encoders, Start)
  <2>1. Reaps = <<Pass(Encoders), Lock(Encoders), Step("check", Nobody)>>
    BY Prefixed DEF Reaps, Dropping, Start
  <2> QED  BY <2>1 DEF Start
<1>6. /\ First(Refused, "unlock", Nobody, Closes) /\ Head(Refused).on = Encoders
      /\ First(Closes, "unlock", Nobody, <<>>) /\ Head(Closes).on = Creating
  BY DEF Refused, Closes
<1>7. /\ First(Insert, "register", Window, Inserted)
      /\ First(Inserted, "unlock", Nobody, Spawns) /\ Head(Inserted).on = Encoders
  BY DEF Insert, Inserted, Spawns
<1>8. /\ First(Spawns, "spawn", Nobody, <<>>) /\ First(Undoes, "pass", Encoders, Discards)
      /\ First(Discards, "drop", Nobody, Closes)
  BY DEF Spawns, Undoes, Discards, Closes
<1>9. First(Buries, "pass", Encoders, Closes)
  <2>1. Buries = <<Pass(Encoders), Unlock(Creating)>>
    BY Prefixed DEF Buries, Dropping, Closes
  <2> QED  BY <2>1 DEF Closes
<1>10. ASSUME NEW e
       PROVE  /\ First(Joined(e), "unlock", Nobody, Leaves(e)) /\ Head(Joined(e)).on = Creating
              /\ First(Leaves(e), "leave", Nobody, <<>>) /\ Head(Leaves(e)).on = e
  BY DEF Joined, Leaves
<1> QED  BY <1>1, <1>2, <1>3, <1>4, <1>5, <1>6, <1>7, <1>8, <1>9, <1>10

\* Dropping, or nothing, before the rest.
LEMMA Before ==
  /\ Dropping \o <<>> = Dropping /\ Dropping \o Start = Reaps /\ Dropping \o Closes = Buries
  /\ <<Drop>> \o Start = Restarts
  /\ <<>> \o <<>> = <<>> /\ <<>> \o Looks = Looks /\ <<>> \o Finds = Finds
  /\ <<>> \o Start = Start /\ <<>> \o Checks = Checks /\ <<>> \o Closes = Closes
  /\ <<>> \o Inserted = Inserted /\ <<>> \o Spawns = Spawns /\ <<>> \o Discards = Discards
  /\ \A e : <<>> \o Leaves(e) = Leaves(e)
<1>1. /\ Dropping \o <<>> = Dropping /\ Dropping \o Start = Reaps
      /\ Dropping \o Closes = Buries /\ <<Drop>> \o Start = Restarts
  BY Prefixed DEF Dropping, Reaps, Buries, Restarts
<1>2. /\ <<>> \o Looks = Looks /\ <<>> \o Finds = Finds /\ <<>> \o Start = Start
      /\ <<>> \o Checks = Checks /\ <<>> \o Closes = Closes /\ <<>> \o Inserted = Inserted
      /\ <<>> \o Spawns = Spawns /\ <<>> \o Discards = Discards
      /\ \A e : <<>> \o Leaves(e) = Leaves(e)
  BY Prefixed
  DEF Looks, Finds, Start, Checks, Closes, Inserted, Spawns, Discards, Leaves
<1> QED  BY <1>1, <1>2, Prefixed

\* A sequence of each kind starts with a step of its own, and with no other.
LEMMA OutdoorShapes ==
  ASSUME NEW s \in Outdoors
  PROVE  \/ s = <<>>
         \/ s = Join /\ First(s, "lock", Creating, Looks)
         \/ s = Drops /\ First(s, "drop", Nobody, <<>>)
         \/ s = Dropping /\ First(s, "pass", Encoders, <<>>)
         \/ \E e \in Requests :
              s = Leaves(e) /\ First(s, "leave", Nobody, <<>>) /\ Head(s).on = e
<1>1. s \in {<<>>, Join, Drops, Dropping} \/ \E e \in Requests : s = Leaves(e)
  BY DEF Outdoors
<1> QED  BY <1>1, Table

LEMMA CreateShapes ==
  ASSUME NEW s \in Creates
  PROVE  \/ s = Looks /\ First(s, "look", Encoders, Finds)
         \/ s = Finds /\ First(s, "found", Nobody, <<>>)
         \/ s = Restarts /\ First(s, "drop", Nobody, Start)
         \/ s = Reaps /\ First(s, "pass", Encoders, Start)
         \/ s = Start /\ First(s, "lock", Encoders, Checks)
         \/ s = Spawns /\ First(s, "spawn", Nobody, <<>>)
         \/ s = Undoes /\ First(s, "pass", Encoders, Discards)
         \/ s = Discards /\ First(s, "drop", Nobody, Closes)
         \/ s = Buries /\ First(s, "pass", Encoders, Closes)
         \/ s = Closes /\ First(s, "unlock", Nobody, <<>>) /\ Head(s).on = Creating
         \/ \E e \in Requests :
              /\ s = Joined(e) /\ First(s, "unlock", Nobody, Leaves(e))
              /\ Head(s).on = Creating
<1>1. \/ s \in {Looks, Finds, Restarts, Reaps, Start, Spawns, Undoes, Discards, Buries, Closes}
      \/ \E e \in Requests : s = Joined(e)
  BY DEF Creates
<1> QED  BY <1>1, Table

LEMMA InsertShapes ==
  ASSUME NEW s \in Inserts
  PROVE  \/ s = Checks /\ First(s, "check", Nobody, <<>>)
         \/ s = Refused /\ First(s, "unlock", Nobody, Closes) /\ Head(s).on = Encoders
         \/ s = Insert /\ First(s, "register", Window, Inserted)
         \/ s = Inserted /\ First(s, "unlock", Nobody, Spawns) /\ Head(s).on = Encoders
BY Table DEF Inserts

-----------------------------------------------------------------------------
(* The locking rule. *)

\* t owns the mutexes of ms and no other.
Owns(t, ms) == \A m \in Mutexes : owner[m] = t <=> m \in ms

\* Steps that neither take a mutex for longer than a step nor give one back.
LightSteps ==
  [do : {"pass", "send", "kill", "drop", "look", "chunk"}, on : Requests \cup {Nobody},
   in : {Encoders, Window, Nobody}]

\* `creating` before `encoders`, `encoders` before the window, and an Arc dropped
\* before `encoders` is taken: which mutexes a request owns shows in what it has
\* still to do.  The other threads own none.
Disciplined(t) ==
  IF t \in Requests
  THEN \/ steps[t] \in Outdoors /\ Owns(t, {})
       \/ steps[t] \in Creates /\ Owns(t, {Creating})
       \/ steps[t] \in Inserts /\ Owns(t, {Creating, Encoders})
  ELSE steps[t] \in Seq(LightSteps) /\ Owns(t, {})

LocksTyped ==
  /\ owner \in [Mutexes -> Threads \cup {Nobody}]
  /\ steps = [t \in Threads |-> steps[t]]
  /\ arc \in [Threads -> Requests \cup {Nobody}]
  /\ kept \subseteq Requests

LockInv == LocksTyped /\ \A t \in Threads : Disciplined(t)

LEMMA Apart ==
  /\ Creating # Encoders /\ Creating # Window /\ Encoders # Window
  /\ Creating # Nobody /\ Encoders # Nobody /\ Window # Nobody
  /\ \A t \in Threads : t # Nobody
  /\ \A t \in Requests : t \in Threads /\ t \notin Daemons
  /\ \A t \in Threads : t \in Requests \/ t \in Daemons
  /\ \A e \in Requests : Drainer(e) \in Daemons
  /\ Daemons \subseteq Threads
<1>1. Creating # Encoders /\ Creating # Window /\ Encoders # Window
  BY DEF Creating, Encoders, Window
<1>2. Creating # Nobody /\ Encoders # Nobody /\ Window # Nobody /\ \A t \in Threads : t # Nobody
  BY NamesAssumption DEF Mutexes
<1>3. \A e \in Requests : Drainer(e) \in Daemons
  BY DEF Daemons
<1> QED  BY <1>1, <1>2, <1>3, NamesAssumption DEF Threads

\* A step of t that leaves the other threads' steps and mutexes alone.
Alone(t) ==
  \A u \in Threads \ {t} :
    steps'[u] = steps[u] /\ \A m \in Mutexes : owner'[m] = u <=> owner[m] = u

LEMMA AloneKeeps ==
  ASSUME NEW t \in Threads, LockInv, LocksTyped', Disciplined(t)', Alone(t)
  PROVE  LockInv'
BY DEF LockInv, Disciplined, Owns, Alone

-----------------------------------------------------------------------------
(* What the steps share. *)

\* How the mutexes of t change, and nobody else's, when it takes or releases one.
LEMMA Taking ==
  ASSUME NEW t \in Threads, NEW m \in Mutexes, NEW ms, Owns(t, ms), owner[m] = Nobody,
         owner \in [Mutexes -> Threads \cup {Nobody}],
         owner' = [owner EXCEPT ![m] = t]
  PROVE  /\ Owns(t, ms \cup {m})' /\ owner' \in [Mutexes -> Threads \cup {Nobody}]
         /\ \A u \in Threads \ {t}, n \in Mutexes : owner'[n] = u <=> owner[n] = u
BY Apart DEF Owns

LEMMA Giving ==
  ASSUME NEW t \in Threads, NEW m \in Mutexes, NEW ms, Owns(t, ms), m \in ms,
         owner \in [Mutexes -> Threads \cup {Nobody}],
         owner' = [owner EXCEPT ![m] = Nobody]
  PROVE  /\ Owns(t, ms \ {m})' /\ owner' \in [Mutexes -> Threads \cup {Nobody}]
         /\ \A u \in Threads \ {t}, n \in Mutexes : owner'[n] = u <=> owner[n] = u
BY Apart DEF Owns

\* A step turns t to s.
Turned(t, s) == steps' = [steps EXCEPT ![t] = s]

LEMMA Moved ==
  ASSUME NEW t \in Threads, NEW s, LockInv, Turned(t, s)
  PROVE  /\ steps'[t] = s /\ steps' = [u \in Threads |-> steps'[u]]
         /\ \A u \in Threads \ {t} : steps'[u] = steps[u]
BY DEF LockInv, LocksTyped, Turned

\* The arcs and the lingers stay what they may be.
Held == arc \in [Threads -> Requests \cup {Nobody}] /\ kept \subseteq Requests

\* A request that takes the mutex m, gives it back, or does neither, and is then
\* to do s.
LEMMA Takes ==
  ASSUME NEW t \in Requests, NEW m \in Mutexes, NEW ms, NEW s,
         LockInv, Held', Owns(t, ms), Turned(t, s),
         owner[m] = Nobody, owner' = [owner EXCEPT ![m] = t],
         \/ s \in Creates /\ ms \cup {m} = {Creating}
         \/ s \in Inserts /\ ms \cup {m} = {Creating, Encoders}
  PROVE  LockInv'
<1>1. t \in Threads /\ owner \in [Mutexes -> Threads \cup {Nobody}]
  BY Apart DEF LockInv, LocksTyped
<1>2. /\ Owns(t, ms \cup {m})' /\ owner' \in [Mutexes -> Threads \cup {Nobody}]
      /\ \A u \in Threads \ {t}, n \in Mutexes : owner'[n] = u <=> owner[n] = u
  BY <1>1, Taking
<1>3. /\ steps'[t] = s /\ steps' = [u \in Threads |-> steps'[u]]
      /\ \A u \in Threads \ {t} : steps'[u] = steps[u]
  BY <1>1, Moved
<1>4. LocksTyped' /\ Alone(t)
  BY <1>2, <1>3 DEF LocksTyped, Held, Alone
<1>5. Disciplined(t)'
  BY <1>2, <1>3 DEF Disciplined
<1> QED  BY <1>1, <1>4, <1>5, AloneKeeps

LEMMA Gives ==
  ASSUME NEW t \in Requests, NEW m \in Mutexes, NEW ms, NEW s,
         LockInv, Held', Owns(t, ms), m \in ms, Turned(t, s),
         owner' = [owner EXCEPT ![m] = Nobody],
         \/ s \in Outdoors /\ ms \ {m} = {}
         \/ s \in Creates /\ ms \ {m} = {Creating}
  PROVE  LockInv'
<1>1. t \in Threads /\ owner \in [Mutexes -> Threads \cup {Nobody}]
  BY Apart DEF LockInv, LocksTyped
<1>2. /\ Owns(t, ms \ {m})' /\ owner' \in [Mutexes -> Threads \cup {Nobody}]
      /\ \A u \in Threads \ {t}, n \in Mutexes : owner'[n] = u <=> owner[n] = u
  BY <1>1, Giving
<1>3. /\ steps'[t] = s /\ steps' = [u \in Threads |-> steps'[u]]
      /\ \A u \in Threads \ {t} : steps'[u] = steps[u]
  BY <1>1, Moved
<1>4. LocksTyped' /\ Alone(t)
  BY <1>2, <1>3 DEF LocksTyped, Held, Alone
<1>5. Disciplined(t)'
  BY <1>2, <1>3 DEF Disciplined
<1> QED  BY <1>1, <1>4, <1>5, AloneKeeps

LEMMA GoesOn ==
  ASSUME NEW t \in Requests, NEW ms, NEW s,
         LockInv, Held', Owns(t, ms), Turned(t, s), UNCHANGED owner,
         \/ s \in Outdoors /\ ms = {}
         \/ s \in Creates /\ ms = {Creating}
         \/ s \in Inserts /\ ms = {Creating, Encoders}
  PROVE  LockInv'
<1>1. t \in Threads
  BY Apart
<1>2. /\ steps'[t] = s /\ steps' = [u \in Threads |-> steps'[u]]
      /\ \A u \in Threads \ {t} : steps'[u] = steps[u]
  BY <1>1, Moved
<1>3. LocksTyped' /\ Alone(t)
  BY <1>2 DEF LockInv, LocksTyped, Held, Alone
<1>4. Disciplined(t)'
  BY <1>2 DEF Disciplined, Owns
<1> QED  BY <1>1, <1>3, <1>4, AloneKeeps

\* The step of a thread is the one its first step names.
Acts(t) ==
  \/ Acquire(t) \/ Release(t) \/ Skip(t) \/ DropArc(t) \/ Look(t)
  \/ RequestStep(t) \/ Judge(t) \/ Kill(t) \/ Drain(t)

LEMMA Does ==
  ASSUME NEW t, Acts(t)
  PROVE  LET f == Head(steps[t]).do
         IN  /\ steps[t] # <<>>
             /\ f = "lock" => Acquire(t)
             /\ f = "unlock" => Release(t)
             /\ f = "pass" => Skip(t)
             /\ f = "drop" => DropArc(t)
             /\ f = "look" => Look(t)
             /\ f = "found" => Found(t)
             /\ f = "check" => CheckEnded(t)
             /\ f = "register" => Register(t)
             /\ f = "spawn" => Spawn(t)
             /\ f = "leave" => Leave(t)
             /\ f = "send" => Judge(t)
             /\ f = "kill" => Kill(t)
             /\ f = "chunk" => Drain(t)
BY DEF Acts, RequestStep, Acquire, Release, Skip, DropArc, Look, Found, CheckEnded, Register,
       Spawn, Leave, Judge, Kill, Drain, At

LEMMA Arcs ==
  ASSUME NEW t \in Threads, LockInv
  PROVE  /\ UNCHANGED <<arc, kept>> => Held'
         /\ Look(t) => Held'
         /\ DropArc(t) => Held'
         /\ t \in Requests /\ Register(t) => Held'
         /\ On(t) \in Requests /\ Leave(t) => Held'
         /\ Kill(t) => Held'
         /\ Drain(t) => Held'
BY DEF LockInv, LocksTyped, Held, Look, DropArc, Register, Leave, Kill, Drain, Alive

\* What a step that goes on puts before the rest.
LEMMA Going ==
  ASSUME NEW t, NEW f, NEW m, NEW rest, First(steps[t], f, m, rest), NEW first, Goes(t, first)
  PROVE  Turned(t, first \o rest)
BY DEF First, Goes, Turned

LEMMA Advancing ==
  ASSUME NEW t, NEW f, NEW m, NEW rest, First(steps[t], f, m, rest), Goes(t, <<>>),
         <<>> \o rest = rest
  PROVE  Turned(t, rest)
BY Going

-----------------------------------------------------------------------------
(* The steps of a request, by what it owns. *)

LEMMA OutdoorStep ==
  ASSUME NEW t \in Requests, LockInv, steps[t] \in Outdoors, Owns(t, {}), Acts(t)
  PROVE  LockInv'
<1>1. t \in Threads
  BY Apart
<1>2. CASE steps[t] = Join /\ First(steps[t], "lock", Creating, Looks)
  <2>1. Acquire(t) /\ Head(steps[t]).in = Creating
    BY <1>2, Does DEF First
  <2>2. Turned(t, Looks)
    BY <1>2, <2>1, Advancing, Before DEF Acquire
  <2>3. owner[Creating] = Nobody /\ owner' = [owner EXCEPT ![Creating] = t]
    BY <2>1, Apart DEF Acquire, At
  <2>4. Held'
    BY <1>1, <2>1, Arcs DEF Acquire
  <2>5. Looks \in Creates /\ {} \cup {Creating} = {Creating} /\ Creating \in Mutexes
    BY DEF Creates, Mutexes
  <2> QED  BY <2>2, <2>3, <2>4, <2>5, Takes
<1>3. CASE steps[t] = Drops /\ First(steps[t], "drop", Nobody, <<>>)
  <2>1. DropArc(t) /\ Held' /\ UNCHANGED owner
    BY <1>1, <1>3, Does, Arcs DEF First, DropArc
  <2>2. Turned(t, <<>>) \/ Turned(t, Dropping)
    BY <1>3, <2>1, Going, Before DEF DropArc
  <2>3. <<>> \in Outdoors /\ Dropping \in Outdoors
    BY DEF Outdoors
  <2> QED  BY <2>1, <2>2, <2>3, GoesOn
<1>4. CASE steps[t] = Dropping /\ First(steps[t], "pass", Encoders, <<>>)
  <2>1. Skip(t) /\ UNCHANGED owner
    BY <1>4, Does DEF First, Skip
  <2>2. Turned(t, <<>>) /\ <<>> \in Outdoors
    BY <1>4, <2>1, Advancing, Before DEF Skip, Outdoors
  <2>3. Held'
    BY <1>1, <2>1, Arcs DEF Skip
  <2> QED  BY <2>1, <2>2, <2>3, GoesOn
<1>5. ASSUME NEW e \in Requests, First(steps[t], "leave", Nobody, <<>>), Head(steps[t]).on = e
      PROVE  LockInv'
  <2>1. Leave(t) /\ On(t) \in Requests /\ UNCHANGED owner
    BY <1>5, Does DEF First, Leave, On
  <2>2. Turned(t, Drops) /\ Drops \in Outdoors
    BY <2>1 DEF Leave, Turns, Turned, Drops, Outdoors
  <2>3. Held'
    BY <1>1, <2>1, Arcs
  <2> QED  BY <2>1, <2>2, <2>3, GoesOn
<1>6. steps[t] # <<>>
  BY Does
<1> QED  BY <1>2, <1>3, <1>4, <1>5, <1>6, OutdoorShapes

LEMMA CreateStep ==
  ASSUME NEW t \in Requests, LockInv, steps[t] \in Creates, Owns(t, {Creating}), Acts(t),
         ~ Spawn(t)
  PROVE  LockInv'
<1>1. t \in Threads
  BY Apart
<1>2. CASE steps[t] = Looks /\ First(steps[t], "look", Encoders, Finds)
  <2>1. Look(t) /\ Held' /\ UNCHANGED owner
    BY <1>1, <1>2, Does, Arcs DEF First, Look
  <2>2. Turned(t, Finds) /\ Finds \in Creates
    BY <1>2, <2>1, Advancing, Before DEF Look, Creates
  <2> QED  BY <2>1, <2>2, GoesOn
<1>3. CASE steps[t] = Finds /\ First(steps[t], "found", Nobody, <<>>)
  <2>1. Found(t) /\ UNCHANGED owner
    BY <1>3, Does DEF First, Found
  <2>2. Held' /\ arc[t] \in Requests \cup {Nobody}
    BY <1>1, <2>1, Arcs DEF Found, LockInv, LocksTyped
  <2>3. \/ arc[t] \in Requests /\ Turned(t, Joined(arc[t]))
        \/ Turned(t, Restarts)
    BY <2>1, <2>2 DEF Found, Turns, Turned, Joined, Restarts
  <2>4. Restarts \in Creates /\ \A e \in Requests : Joined(e) \in Creates
    BY DEF Creates
  <2> QED  BY <2>1, <2>2, <2>3, <2>4, GoesOn
<1>4. CASE steps[t] = Restarts /\ First(steps[t], "drop", Nobody, Start)
  <2>1. DropArc(t) /\ Held' /\ UNCHANGED owner
    BY <1>1, <1>4, Does, Arcs DEF First, DropArc
  <2>2. Turned(t, Start) \/ Turned(t, Reaps)
    BY <1>4, <2>1, Going, Before DEF DropArc
  <2>3. Start \in Creates /\ Reaps \in Creates
    BY DEF Creates
  <2> QED  BY <2>1, <2>2, <2>3, GoesOn
<1>5. CASE steps[t] = Reaps /\ First(steps[t], "pass", Encoders, Start)
  <2>1. Skip(t) /\ Held' /\ UNCHANGED owner
    BY <1>1, <1>5, Does, Arcs DEF First, Skip
  <2>2. Turned(t, Start) /\ Start \in Creates
    BY <1>5, <2>1, Advancing, Before DEF Skip, Creates
  <2> QED  BY <2>1, <2>2, GoesOn
<1>6. CASE steps[t] = Start /\ First(steps[t], "lock", Encoders, Checks)
  <2>1. Acquire(t) /\ Head(steps[t]).in = Encoders
    BY <1>6, Does DEF First
  <2>2. Turned(t, Checks)
    BY <1>6, <2>1, Advancing, Before DEF Acquire
  <2>3. owner[Encoders] = Nobody /\ owner' = [owner EXCEPT ![Encoders] = t]
    BY <2>1, Apart DEF Acquire, At
  <2>4. Held'
    BY <1>1, <2>1, Arcs DEF Acquire
  <2>5. /\ Checks \in Inserts /\ {Creating} \cup {Encoders} = {Creating, Encoders}
        /\ Encoders \in Mutexes
    BY DEF Inserts, Mutexes
  <2> QED  BY <2>2, <2>3, <2>4, <2>5, Takes
<1>7. steps[t] # Spawns \/ ~ First(steps[t], "spawn", Nobody, <<>>)
  BY Does DEF First
<1>8. CASE steps[t] = Undoes /\ First(steps[t], "pass", Encoders, Discards)
  <2>1. Skip(t) /\ Held' /\ UNCHANGED owner
    BY <1>1, <1>8, Does, Arcs DEF First, Skip
  <2>2. Turned(t, Discards) /\ Discards \in Creates
    BY <1>8, <2>1, Advancing, Before DEF Skip, Creates
  <2> QED  BY <2>1, <2>2, GoesOn
<1>9. CASE steps[t] = Discards /\ First(steps[t], "drop", Nobody, Closes)
  <2>1. DropArc(t) /\ Held' /\ UNCHANGED owner
    BY <1>1, <1>9, Does, Arcs DEF First, DropArc
  <2>2. Turned(t, Closes) \/ Turned(t, Buries)
    BY <1>9, <2>1, Going, Before DEF DropArc
  <2>3. Closes \in Creates /\ Buries \in Creates
    BY DEF Creates
  <2> QED  BY <2>1, <2>2, <2>3, GoesOn
<1>10. CASE steps[t] = Buries /\ First(steps[t], "pass", Encoders, Closes)
  <2>1. Skip(t) /\ Held' /\ UNCHANGED owner
    BY <1>1, <1>10, Does, Arcs DEF First, Skip
  <2>2. Turned(t, Closes) /\ Closes \in Creates
    BY <1>10, <2>1, Advancing, Before DEF Skip, Creates
  <2> QED  BY <2>1, <2>2, GoesOn
<1>11. ASSUME NEW s \in Outdoors, First(steps[t], "unlock", Nobody, s), <<>> \o s = s,
              Head(steps[t]).on = Creating
       PROVE  LockInv'
  <2>1. Release(t) /\ On(t) = Creating
    BY <1>11, Does DEF First, On
  <2>2. Turned(t, s)
    BY <1>11, <2>1, Advancing DEF Release
  <2>3. owner' = [owner EXCEPT ![Creating] = Nobody] /\ Held'
    BY <1>1, <2>1, Arcs DEF Release
  <2>4. Creating \in {Creating} /\ {Creating} \ {Creating} = {} /\ Creating \in Mutexes
    BY DEF Mutexes
  <2> QED  BY <2>2, <2>3, <2>4, Gives
<1>12. CASE /\ steps[t] = Closes /\ First(steps[t], "unlock", Nobody, <<>>)
            /\ Head(steps[t]).on = Creating
  <2>1. <<>> \in Outdoors
    BY DEF Outdoors
  <2> QED  BY <1>11, <1>12, <2>1, Before
<1>13. ASSUME NEW e \in Requests, First(steps[t], "unlock", Nobody, Leaves(e)),
              Head(steps[t]).on = Creating
       PROVE  LockInv'
  <2>1. Leaves(e) \in Outdoors /\ <<>> \o Leaves(e) = Leaves(e)
    BY Before DEF Outdoors
  <2> QED  BY <1>11, <1>13, <2>1
<1> QED  BY <1>2, <1>3, <1>4, <1>5, <1>6, <1>7, <1>8, <1>9, <1>10, <1>12, <1>13, CreateShapes

LEMMA InsertStep ==
  ASSUME NEW t \in Requests, LockInv, steps[t] \in Inserts, Owns(t, {Creating, Encoders}), Acts(t)
  PROVE  LockInv'
<1>1. t \in Threads
  BY Apart
<1>2. CASE steps[t] = Checks /\ First(steps[t], "check", Nobody, <<>>)
  <2>1. CheckEnded(t) /\ UNCHANGED owner
    BY <1>2, Does DEF First, CheckEnded
  <2>2. Held'
    BY <1>1, <2>1, Arcs DEF CheckEnded
  <2>3. Turned(t, Refused) \/ Turned(t, Insert)
    BY <2>1 DEF CheckEnded, Turns, Turned, Refused
  <2>4. Refused \in Inserts /\ Insert \in Inserts
    BY DEF Inserts
  <2> QED  BY <2>1, <2>2, <2>3, <2>4, GoesOn
<1>3. CASE steps[t] = Insert /\ First(steps[t], "register", Window, Inserted)
  <2>1. Register(t) /\ Held' /\ UNCHANGED owner
    BY <1>1, <1>3, Does, Arcs DEF First, Register
  <2>2. Turned(t, Inserted) /\ Inserted \in Inserts
    BY <1>3, <2>1, Advancing, Before DEF Register, Inserts
  <2> QED  BY <2>1, <2>2, GoesOn
<1>4. ASSUME NEW s \in Creates, First(steps[t], "unlock", Nobody, s), <<>> \o s = s,
             Head(steps[t]).on = Encoders
      PROVE  LockInv'
  <2>1. Release(t) /\ On(t) = Encoders
    BY <1>4, Does DEF First, On
  <2>2. Turned(t, s)
    BY <1>4, <2>1, Advancing DEF Release
  <2>3. owner' = [owner EXCEPT ![Encoders] = Nobody] /\ Held'
    BY <1>1, <2>1, Arcs DEF Release
  <2>4. /\ Encoders \in {Creating, Encoders} /\ {Creating, Encoders} \ {Encoders} = {Creating}
        /\ Encoders \in Mutexes
    BY Apart DEF Mutexes
  <2> QED  BY <2>2, <2>3, <2>4, Gives
<1>5. CASE /\ steps[t] = Refused /\ First(steps[t], "unlock", Nobody, Closes)
           /\ Head(steps[t]).on = Encoders
  <2>1. Closes \in Creates
    BY DEF Creates
  <2> QED  BY <1>4, <1>5, <2>1, Before
<1>6. CASE /\ steps[t] = Inserted /\ First(steps[t], "unlock", Nobody, Spawns)
           /\ Head(steps[t]).on = Encoders
  <2>1. Spawns \in Creates
    BY DEF Creates
  <2> QED  BY <1>4, <1>6, <2>1, Before
<1> QED  BY <1>2, <1>3, <1>5, <1>6, InsertShapes

\* start_encoder's last steps: with the threads, the encoder's drainer gets its own.
LEMMA SpawnStep ==
  ASSUME NEW t \in Requests, LockInv, Owns(t, {Creating}), Spawn(t)
  PROVE  LockInv'
<1>1. t \in Threads /\ Drainer(t) \in Threads /\ Drainer(t) \notin Requests
  BY Apart
<1>2. Held' /\ UNCHANGED owner
  BY <1>1, Arcs DEF Spawn
<1>3. Undoes \in Creates /\ Discards \in Creates /\ Joined(t) \in Creates
  BY DEF Creates
<1>4. CASE Turned(t, Undoes) \/ Turned(t, Discards)
  BY <1>2, <1>3, <1>4, GoesOn
<1>5. CASE steps' = [steps EXCEPT ![t] = Joined(t), ![Drainer(t)] = <<Step("chunk", t)>>]
  <2>1. /\ steps'[t] = Joined(t) /\ steps'[Drainer(t)] = <<Step("chunk", t)>>
        /\ steps' = [u \in Threads |-> steps'[u]]
        /\ \A u \in Threads \ {t, Drainer(t)} : steps'[u] = steps[u]
    BY <1>1, <1>5 DEF LockInv, LocksTyped
  <2>2. LocksTyped'
    BY <1>2, <2>1 DEF LockInv, LocksTyped, Held
  <2>3. Disciplined(t)'
    BY <1>2, <1>3, <2>1 DEF Disciplined, Owns
  <2>4. Disciplined(Drainer(t))'
    <3>1. Step("chunk", t) \in LightSteps
      BY DEF Step, LightSteps
    <3>2. <<Step("chunk", t)>> \in Seq(LightSteps)
      BY <3>1
    <3> QED  BY <1>1, <1>2, <2>1, <3>2 DEF Disciplined, Owns, LockInv
  <2>5. \A u \in Threads \ {t, Drainer(t)} : Disciplined(u)'
    BY <1>2, <2>1 DEF Disciplined, Owns, LockInv
  <2> QED  BY <2>2, <2>3, <2>4, <2>5 DEF LockInv
<1> QED  BY <1>4, <1>5 DEF Spawn, Turns, Turned, Undoes, Discards, Joined

LEMMA RequestActs ==
  ASSUME NEW t \in Requests, LockInv, Acts(t)
  PROVE  LockInv'
<1>1. t \in Threads
  BY Apart
<1>2. CASE steps[t] \in Outdoors /\ Owns(t, {})
  BY <1>2, OutdoorStep
<1>3. CASE steps[t] \in Creates /\ Owns(t, {Creating})
  BY <1>3, CreateStep, SpawnStep
<1>4. CASE steps[t] \in Inserts /\ Owns(t, {Creating, Encoders})
  BY <1>4, InsertStep
<1> QED  BY <1>1, <1>2, <1>3, <1>4 DEF LockInv, Disciplined

-----------------------------------------------------------------------------
(* The steps of the other threads, which own no mutex. *)

LEMMA Lights ==
  /\ Relay \in Seq(LightSteps) /\ Report \in Seq(LightSteps)
  /\ Dropping \in Seq(LightSteps) /\ <<Drop>> \in Seq(LightSteps)
  /\ <<Pass(Encoders)>> \in Seq(LightSteps)
  /\ <<Pass(Encoders), Step("kill", Nobody)>> \in Seq(LightSteps)
  /\ \A e \in Requests : <<Drop, Step("chunk", e)>> \in Seq(LightSteps)
<1>1. /\ Pass(Encoders) \in LightSteps /\ Pass(Window) \in LightSteps
      /\ Drop \in LightSteps /\ Step("send", Nobody) \in LightSteps
      /\ Step("kill", Nobody) \in LightSteps
      /\ In(Encoders, "look", Nobody) \in LightSteps
      /\ \A e \in Requests : Step("chunk", e) \in LightSteps
  BY DEF Pass, Drop, Step, In, LightSteps
<1> QED  BY <1>1 DEF Relay, Report, Dropping

LEMMA DaemonGoes ==
  ASSUME NEW t \in Threads, t \notin Requests, LockInv, Held', UNCHANGED owner,
         steps[t] # <<>>, NEW first \in Seq(LightSteps), Goes(t, first)
  PROVE  LockInv'
<1>1. steps[t] \in Seq(LightSteps)
  BY DEF LockInv, Disciplined
<1>2. Tail(steps[t]) \in Seq(LightSteps)
  BY <1>1
<1>3. first \o Tail(steps[t]) \in Seq(LightSteps)
  BY <1>2
<1>4. Turned(t, first \o Tail(steps[t]))
  BY DEF Goes, Turned
<1>5. /\ steps'[t] \in Seq(LightSteps) /\ steps' = [u \in Threads |-> steps'[u]]
      /\ \A u \in Threads \ {t} : steps'[u] = steps[u]
  BY <1>3, <1>4, Moved
<1>6. LocksTyped' /\ Alone(t)
  BY <1>5 DEF LockInv, LocksTyped, Held, Alone
<1>7. Disciplined(t)'
  BY <1>5 DEF LockInv, Disciplined, Owns
<1> QED  BY <1>6, <1>7, AloneKeeps

LEMMA DaemonActs ==
  ASSUME NEW t \in Threads, t \notin Requests, LockInv, Acts(t)
  PROVE  LockInv'
<1>1. steps[t] # <<>> /\ steps[t] \in Seq(LightSteps)
  BY Does DEF LockInv, Disciplined
<1>2. Head(steps[t]) \in LightSteps
  BY <1>1
<1>3. /\ Head(steps[t]).do \in {"pass", "send", "kill", "drop", "look", "chunk"}
      /\ Head(steps[t]).on \in Requests \cup {Nobody}
  BY <1>2 DEF LightSteps
<1>4. <<>> \in Seq(LightSteps)
  OBVIOUS
<1>5. CASE Skip(t)
  <2>1. Held' /\ UNCHANGED owner /\ Goes(t, <<>>)
    BY <1>5, Arcs DEF Skip
  <2> QED  BY <1>1, <1>4, <2>1, DaemonGoes
<1>6. CASE DropArc(t)
  <2>1. Held' /\ UNCHANGED owner /\ (Goes(t, <<>>) \/ Goes(t, Dropping))
    BY <1>6, Arcs DEF DropArc
  <2> QED  BY <1>1, <1>4, <2>1, Lights, DaemonGoes
<1>7. CASE Look(t)
  <2>1. Held' /\ UNCHANGED owner /\ Goes(t, <<>>)
    BY <1>7, Arcs DEF Look
  <2> QED  BY <1>1, <1>4, <2>1, DaemonGoes
<1>8. CASE Judge(t)
  <2>1. Held' /\ UNCHANGED owner
    BY <1>8, Arcs DEF Judge
  <2>2. PICK wedged \in {<<>>, <<Pass(Encoders)>>, <<Pass(Encoders), Step("kill", Nobody)>>},
             next \in {Relay, <<Pass(Encoders)>>} : Goes(t, wedged \o next)
    BY <1>8 DEF Judge
  <2>3. wedged \in Seq(LightSteps) /\ next \in Seq(LightSteps)
    BY <1>4, Lights
  <2>4. wedged \o next \in Seq(LightSteps)
    BY <2>3
  <2> QED  BY <1>1, <2>1, <2>2, <2>4, DaemonGoes
<1>9. CASE Kill(t)
  <2>1. Held' /\ UNCHANGED owner /\ Goes(t, <<Drop>>)
    BY <1>9, Arcs DEF Kill
  <2> QED  BY <1>1, <2>1, Lights, DaemonGoes
<1>10. CASE Drain(t)
  <2>1. /\ Held' /\ UNCHANGED owner
        /\ \/ On(t) \in Requests /\ Goes(t, <<Drop, Step("chunk", On(t))>>)
           \/ Goes(t, <<Drop>>) \/ Goes(t, <<>>)
    BY <1>10, Arcs DEF Drain, Alive
  <2>2. CASE On(t) \in Requests /\ Goes(t, <<Drop, Step("chunk", On(t))>>)
    <3>1. <<Drop, Step("chunk", On(t))>> \in Seq(LightSteps)
      BY <2>2, Lights
    <3> QED  BY <1>1, <2>1, <2>2, <3>1, DaemonGoes
  <2> QED  BY <1>1, <1>4, <2>1, <2>2, Lights, DaemonGoes
<1> QED  BY <1>3, <1>5, <1>6, <1>7, <1>8, <1>9, <1>10, Does

LEMMA LapseStep ==
  ASSUME LockInv, Lapse
  PROVE  LockInv'
<1>1. Reaper \in Threads /\ Reaper \notin Requests
  BY Apart DEF Daemons
<1>2. Held' /\ UNCHANGED owner /\ Turned(Reaper, <<Drop>>)
  BY <1>1 DEF Lapse, LockInv, LocksTyped, Held, Turned
<1>3. /\ steps'[Reaper] = <<Drop>> /\ steps' = [u \in Threads |-> steps'[u]]
      /\ \A u \in Threads \ {Reaper} : steps'[u] = steps[u]
  BY <1>1, <1>2, Moved
<1>4. LocksTyped' /\ Alone(Reaper)
  BY <1>2, <1>3 DEF LockInv, LocksTyped, Held, Alone
<1>5. Disciplined(Reaper)'
  BY <1>1, <1>2, <1>3, Lights DEF LockInv, Disciplined, Owns
<1> QED  BY <1>1, <1>4, <1>5, AloneKeeps

-----------------------------------------------------------------------------
(* The invariant, and what follows from it. *)

LEMMA LocksInit == LockInit => LockInv
<1> SUFFICES ASSUME LockInit PROVE LockInv
  OBVIOUS
<1>1. LocksTyped
  BY DEF LockInit, LocksTyped
<1>2. \A t \in Threads : Owns(t, {})
  BY Apart DEF LockInit, Owns
<1>3. \A t \in Requests : steps[t] \in Outdoors
  BY Apart DEF LockInit, Outdoors
<1>4. \A t \in Threads \ Requests : steps[t] \in {Relay, Report, <<>>}
  BY DEF LockInit
<1>5. <<>> \in Seq(LightSteps)
  OBVIOUS
<1> QED  BY <1>1, <1>2, <1>3, <1>4, <1>5, Lights DEF LockInv, Disciplined

LEMMA LocksStep == LockInv /\ [LockNext]_lockVars => LockInv'
<1> SUFFICES ASSUME LockInv, [LockNext]_lockVars PROVE LockInv'
  OBVIOUS
<1>1. ASSUME NEW t \in Threads, Acts(t)
      PROVE  LockInv'
  BY <1>1, RequestActs, DaemonActs
<1>2. CASE Lapse
  BY <1>2, LapseStep
<1>3. CASE UNCHANGED lockVars
  BY <1>3 DEF LockInv, LocksTyped, Disciplined, Owns, lockVars
<1> QED  BY <1>1, <1>2, <1>3 DEF LockNext, Acts

\* What a thread that owns a mutex has to do next.
LEMMA Owner ==
  ASSUME NEW t \in Threads, LockInv
  PROVE  /\ owner[Window] # t
         /\ owner[Encoders] = t =>
              /\ owner[Creating] = t /\ steps[t] # <<>>
              /\ Head(steps[t]).in \in {Nobody, Window}
              /\ Head(steps[t]).do \notin Outside
              /\ At(t, "unlock") => On(t) = Encoders
         /\ owner[Creating] = t /\ owner[Encoders] # t =>
              /\ steps[t] # <<>> /\ Head(steps[t]).in \in {Nobody, Encoders}
              /\ Head(steps[t]).do \notin Outside
              /\ At(t, "unlock") => On(t) = Creating
         /\ owner[Creating] # t => ~ At(t, "unlock")
<1> Creating \in Mutexes /\ Encoders \in Mutexes /\ Window \in Mutexes
  BY DEF Mutexes
<1>1. CASE t \in Requests /\ steps[t] \in Outdoors /\ Owns(t, {})
  BY <1>1, OutdoorShapes DEF Owns, First, At
<1>2. CASE t \in Requests /\ steps[t] \in Creates /\ Owns(t, {Creating})
  <2>1. owner[Creating] = t /\ owner[Encoders] # t /\ owner[Window] # t
    BY <1>2, Apart DEF Owns
  <2>2. /\ steps[t] # <<>> /\ Head(steps[t]).in \in {Nobody, Encoders}
        /\ Head(steps[t]).do \in {"look", "found", "drop", "pass", "lock", "spawn", "unlock"}
        /\ Head(steps[t]).do = "unlock" => Head(steps[t]).on = Creating
    BY <1>2, CreateShapes DEF First
  <2>3. Head(steps[t]).do \notin Outside
    BY <2>2 DEF Outside
  <2> QED  BY <2>1, <2>2, <2>3 DEF At, On
<1>3. CASE t \in Requests /\ steps[t] \in Inserts /\ Owns(t, {Creating, Encoders})
  <2>1. owner[Creating] = t /\ owner[Encoders] = t /\ owner[Window] # t
    BY <1>3, Apart DEF Owns
  <2>2. /\ steps[t] # <<>> /\ Head(steps[t]).in \in {Nobody, Window}
        /\ Head(steps[t]).do \in {"check", "register", "unlock"}
        /\ Head(steps[t]).do = "unlock" => Head(steps[t]).on = Encoders
    BY <1>3, InsertShapes DEF First
  <2>3. Head(steps[t]).do \notin Outside
    BY <2>2 DEF Outside
  <2> QED  BY <2>1, <2>2, <2>3 DEF At, On
<1>4. CASE t \notin Requests /\ steps[t] \in Seq(LightSteps) /\ Owns(t, {})
  <2>1. steps[t] # <<>> => Head(steps[t]) \in LightSteps
    BY <1>4
  <2> QED  BY <1>4, <2>1 DEF Owns, At, LightSteps
<1> QED  BY <1>1, <1>2, <1>3, <1>4 DEF LockInv, Disciplined

LEMMA Sound == LockInv => LockTypeOK
<1> SUFFICES ASSUME LockInv PROVE LockTypeOK
  OBVIOUS
<1>1. ASSUME NEW t \in Threads, NEW m \in Mutexes
      PROVE  /\ At(t, "unlock") /\ On(t) = m => owner[m] = t
             /\ steps[t] = <<>> => owner[m] # t
  BY Owner, Apart DEF Mutexes
<1> QED  BY <1>1 DEF LockInv, LocksTyped, LockTypeOK

LEMMA Ranked == LockInv => NoCycle
<1> SUFFICES ASSUME LockInv, NEW S \in SUBSET {t \in Threads : Blocked(t)}, S # {}
             PROVE  \E t \in S : owner[Head(steps[t]).in] \notin S
  BY DEF NoCycle
<1>1. \A t \in S : t \in Threads /\ Blocked(t)
  OBVIOUS
<1>2. \A m \in Mutexes : owner[m] # Nobody => owner[m] \in Threads
  BY DEF LockInv, LocksTyped
<1>3. CASE \E t \in S : Head(steps[t]).in = Encoders
  <2>1. PICK t \in S : Head(steps[t]).in = Encoders
    BY <1>3
  <2> DEFINE u == owner[Encoders]
  <2>2. u \in Threads
    BY <1>1, <1>2, <2>1 DEF Blocked, Mutexes
  <2>3. Head(steps[u]).in \in {Nobody, Window}
    BY <2>2, Owner
  <2>4. owner[Window] = Nobody
    BY <1>2, Owner DEF Mutexes
  <2>5. ~ Blocked(u)
    BY <2>3, <2>4 DEF Blocked
  <2> QED  BY <1>1, <2>1, <2>5
<1>4. CASE \A t \in S : Head(steps[t]).in # Encoders
  <2>1. PICK t \in S : TRUE
    OBVIOUS
  <2> DEFINE u == owner[Head(steps[t]).in]
  <2>2. SUFFICES ASSUME u \in S PROVE FALSE
    BY <2>1
  <2>3. u \in Threads /\ Blocked(u) /\ Head(steps[u]).in # Encoders
    BY <1>1, <1>4, <2>2
  <2>4. Head(steps[t]).in \in Mutexes
    <3>1. CASE t \in Requests
      <4>1. \/ steps[t] \in Outdoors \/ steps[t] \in Creates \/ steps[t] \in Inserts
        BY <1>1, <3>1 DEF LockInv, Disciplined
      <4> QED  BY <1>1, <4>1, OutdoorShapes, CreateShapes, InsertShapes
               DEF First, Blocked, Mutexes
    <3>2. CASE t \notin Requests
      <4>1. steps[t] \in Seq(LightSteps) /\ steps[t] # <<>>
        BY <1>1, <3>2 DEF LockInv, Disciplined, Blocked
      <4>2. Head(steps[t]) \in LightSteps
        BY <4>1
      <4> QED  BY <1>1, <4>2 DEF LightSteps, Blocked, Mutexes
    <3> QED  BY <3>1, <3>2
  <2>5. Head(steps[t]).in = Creating
    <3>1. Head(steps[t]).in # Window
      BY <2>3, <2>4, Owner
    <3> QED  BY <1>4, <2>4, <3>1 DEF Mutexes
  <2>6. owner[Creating] = u
    BY <2>5
  <2>7. owner[Encoders] = u \/ owner[Encoders] # u
    OBVIOUS
  <2>8. Head(steps[u]).in \in {Nobody, Window, Encoders}
    BY <2>3, <2>6, <2>7, Owner
  <2>9. Head(steps[u]).in = Window
    BY <2>3, <2>8 DEF Blocked
  <2>10. owner[Window] = Nobody
    BY <1>2, Owner DEF Mutexes
  <2> QED  BY <2>3, <2>9, <2>10 DEF Blocked
<1> QED  BY <1>3, <1>4

LEMMA Inside == LockInv => NeverOut
<1> SUFFICES ASSUME LockInv, NEW t \in Threads, steps[t] # <<>>, Head(steps[t]).do \in Outside,
                    NEW m \in Mutexes
             PROVE  owner[m] # t
  BY DEF NeverOut
<1>1. owner[Window] # t /\ owner[Encoders] # t /\ owner[Creating] # t
  BY Owner
<1> QED  BY <1>1 DEF Mutexes

\* Whoever is to unlock a mutex owns it, in whatever order any number of requests,
\* drainers and the other threads go through their critical sections.
THEOREM LockTypeCorrect == LockSpec => []LockTypeOK
<1>1. LockSpec => []LockInv
  <2>1. LockSpec => LockInit /\ [][LockNext]_lockVars
    BY DEF LockSpec
  <2> QED  BY <2>1, LocksInit, LocksStep, PTL
<1> QED  BY <1>1, Sound, PTL

\* The locking rule: the mutexes are taken in one order, an encoder's last Arc is
\* not dropped under the mutex Encoder::drop takes, and no thread waits for ffmpeg
\* or for a player with a mutex held, but for the reap of one it has killed, which
\* Locks leaves out; so no thread waits for ever for a mutex.
THEOREM DeadlockFree == LockSpec => []Unblocked
<1>1. LockSpec => []LockInv
  <2>1. LockSpec => LockInit /\ [][LockNext]_lockVars
    BY DEF LockSpec
  <2> QED  BY <2>1, LocksInit, LocksStep, PTL
<1>2. LockInv => Unblocked
  BY Ranked, Inside DEF Unblocked
<1> QED  BY <1>1, <1>2, PTL
-----------------------------------------------------------------------------
(* SequenceLemmas for the bytes of a list of chunks, and for runs of them. *)

Chunks == [at : Nat, data : Seq(Nat)]

LEMMA BodyIs == Holds(Chunks, Nat) /\ \A c : BodyOf(c) = AllData(c)
BY DEF Holds, Chunks, BodyOf, AllData

LEMMA CatLen ==
  ASSUME NEW a \in Seq(Nat), NEW b \in Seq(Nat)
  PROVE  Len(Cat(a, b)) = Len(a) + Len(b)
BY CatFacts

LEMMA BodyEmpty == BodyOf(<<>>) = <<>>
BY BodyIs, DataEmpty

LEMMA BodyTyped ==
  ASSUME NEW c \in Seq(Chunks)
  PROVE  BodyOf(c) \in Seq(Nat)
BY BodyIs, DataTyped

LEMMA BodyAppend ==
  ASSUME NEW c \in Seq(Chunks), NEW x \in Chunks
  PROVE  BodyOf(Append(c, x)) = Cat(BodyOf(c), x.data)
BY BodyIs, DataAppend

LEMMA BodyTail ==
  ASSUME NEW c \in Seq(Chunks), c # <<>>
  PROVE  BodyOf(c) = Cat(Head(c).data, BodyOf(Tail(c)))
BY BodyIs, DataTail

LEMMA BodySingle ==
  ASSUME NEW x \in Chunks
  PROVE  BodyOf(<<x>>) = x.data
BY BodyIs, DataSingle

LEMMA SpanIs == \A i, n : Span(i, n) = Run(i, n)
BY DEF Span, Run

LEMMA SpanFacts ==
  ASSUME NEW i \in Nat, NEW n \in Nat
  PROVE  Span(i, n) \in Seq(Nat) /\ Len(Span(i, n)) = n
BY SpanIs, RunFacts

LEMMA SpanJoins ==
  ASSUME NEW a \in Nat, NEW b \in Nat
  PROVE  Cat(Span(0, a), Span(a, b)) = Span(0, a + b)
BY SpanIs, RunJoins

LEMMA SpanBegins ==
  ASSUME NEW s \in Seq(Nat), NEW t \in Seq(Nat), NEW n \in Nat, Cat(s, t) = Span(0, n)
  PROVE  s = Span(0, Len(s))
BY SpanIs, RunBegins

-----------------------------------------------------------------------------
(* The invariant. *)

Typed ==
  /\ clock \in 0..MaxClock /\ sent \in 0..MaxBody
  /\ chan \in Seq(Chunks) /\ batch \in Seq(Chunks) /\ hand \in Chunks
  /\ queued \in Nat /\ consumed_at \in 0..clock /\ oldest_unread \in 0..clock
  /\ piece \in [len : Nat, now : Nat, seen : Nat]
  /\ listing \in {"listed", "evicted", "left"}
  /\ fan \in {"idle", "loaded", "counted"}
  /\ reader \in {"head", "recv", "gather", "write", "gone"}
  /\ todo \subseteq {"queued", "consumed_at"}
  /\ out \in Seq(Nat) /\ waited \in Nat

\* What goes with where the two threads are.
Staged ==
  /\ Len(batch) <= MAX_BATCH
  /\ todo # {} => reader = "gather" /\ Len(batch) < MAX_BATCH
  /\ todo # {} => hand.at <= clock
  /\ reader = "gone" => chan = <<>>
  /\ fan # "idle" => piece.now = clock /\ piece.len > 0 /\ sent + piece.len <= MaxBody

\* The chunks lie in the channel in the order of their arrival, and after what
\* consumed_at and oldest_unread note.
Aged ==
  /\ \A k \in 1..Len(chan) :
       /\ chan[k].data # <<>> /\ chan[k].at <= clock
       /\ oldest_unread <= chan[k].at /\ consumed_at <= chan[k].at
       /\ todo # {} => hand.at <= chan[k].at
  /\ \A j, k \in 1..Len(chan) : j <= k => chan[j].at <= chan[k].at

\* The chunk that comes after the last one that consumed_at tells of.
Oldest == IF "consumed_at" \in todo THEN hand ELSE Head(chan)

\* oldest_unread and consumed_at, one of them at least, are not further back from
\* the oldest chunk than the reader has ever let one wait.
Prompt ==
  /\ todo # {} => clock - hand.at <= waited
  /\ todo # {} /\ "consumed_at" \notin todo => consumed_at = hand.at
  /\ "consumed_at" \in todo \/ chan # <<>> =>
       Oldest.at <= oldest_unread \/ Oldest.at - consumed_at <= waited
  /\ fan # "idle" /\ reader # "gone" =>
       IF piece.seen = 0 THEN oldest_unread = clock
       ELSE chan # <<>> \/ todo # {} \/ clock - consumed_at <= waited

\* What fan_out has read of the backlog is not less than it is, and once it has
\* been accounted for neither its age nor its size is too much.
Lean ==
  /\ fan # "idle" /\ reader # "gone" => Len(BodyOf(chan)) <= piece.seen
  /\ fan = "counted" =>
       /\ piece.seen + piece.len <= SUB_MAX_BYTES
       /\ \A k \in 1..Len(chan) : chan[k].at + SUB_MAX_LAG >= clock

IInv == Typed /\ Staged /\ Aged /\ Prompt /\ Lean /\ Counted /\ InOrder

-----------------------------------------------------------------------------
(* What the steps share. *)

\* InOrder, with \o by its name.
Taken == IF todo = {} THEN <<>> ELSE hand.data
Ordered ==
  /\ out = Span(0, Len(out))
  /\ reader # "gone" =>
       Cat(Cat(Cat(out, BodyOf(batch)), Taken), BodyOf(chan)) = Span(0, sent)

LEMMA OrderedIs == (InOrder <=> Ordered) /\ (InOrder' <=> Ordered')
BY DEF InOrder, Ordered, Taken, Cat

LEMMA Bodies ==
  ASSUME Typed
  PROVE  /\ BodyOf(chan) \in Seq(Nat) /\ BodyOf(batch) \in Seq(Nat)
         /\ hand.data \in Seq(Nat) /\ Taken \in Seq(Nat)
         /\ Len(BodyOf(chan)) \in Nat /\ Len(BodyOf(batch)) \in Nat /\ Len(hand.data) \in Nat
<1>1. BodyOf(chan) \in Seq(Nat) /\ BodyOf(batch) \in Seq(Nat) /\ hand.data \in Seq(Nat)
  BY BodyTyped DEF Typed, Chunks
<1>2. <<>> \in Seq(Nat)
  BY EmptySeq
<1> QED  BY <1>1, <1>2, LenProperties DEF Taken

\* A channel whose bytes are none is empty.
LEMMA NoBytes ==
  ASSUME Typed, Aged, Len(BodyOf(chan)) = 0
  PROVE  chan = <<>>
<1> SUFFICES ASSUME chan # <<>> PROVE FALSE
  OBVIOUS
<1>1. /\ chan \in Seq(Chunks) /\ Head(chan) = chan[1] /\ 1 \in 1..Len(chan)
      /\ Head(chan) \in Chunks /\ Tail(chan) \in Seq(Chunks)
  BY EmptySeq, HeadTailProperties DEF Typed
<1>2. Head(chan).data # <<>> /\ Head(chan).data \in Seq(Nat)
  BY <1>1 DEF Aged, Chunks
<1>3. BodyOf(Tail(chan)) \in Seq(Nat)
  BY <1>1, BodyTyped
<1>4. BodyOf(chan) = Cat(Head(chan).data, BodyOf(Tail(chan)))
  BY <1>1, BodyTail
<1>5. Len(BodyOf(chan)) = Len(Head(chan).data) + Len(BodyOf(Tail(chan)))
  <2>1. Len(Cat(Head(chan).data, BodyOf(Tail(chan))))
          = Len(Head(chan).data) + Len(BodyOf(Tail(chan)))
    BY <1>2, <1>3, CatLen
  <2> QED  BY <1>4, <2>1
<1>6. Len(Head(chan).data) \in Nat \ {0} /\ Len(BodyOf(Tail(chan))) \in Nat
  BY <1>2, <1>3, EmptySeq, LenProperties
<1> QED  BY <1>5, <1>6

LEMMA InitHolds == QueueInit => IInv
<1> SUFFICES ASSUME QueueInit PROVE IInv
  OBVIOUS
<1>1. PICK n \in Lengths \cup {0} :
        /\ chan = IF n = 0 THEN <<>> ELSE <<Chunk(0, Span(0, n))>>
        /\ queued = n /\ sent = n
  BY DEF QueueInit
<1>2. n \in 0..MaxBody /\ MaxBody \in Nat /\ MaxClock \in Nat /\ MAX_BATCH \in Nat
  BY QueueAssumption
<1>3. /\ NoChunk \in Chunks /\ NoChunk.at = 0 /\ NoChunk.data = <<>>
      /\ <<>> \in Seq(Nat) /\ <<>> \in Seq(Chunks)
  BY DEF NoChunk, Chunk, Chunks
<1>4. Span(0, n) \in Seq(Nat) /\ Len(Span(0, n)) = n
  BY <1>2, SpanFacts
<1>5. CASE n = 0
  <2>1. chan = <<>> /\ BodyOf(chan) = <<>> /\ Len(chan) = 0
    BY <1>1, <1>5, BodyEmpty
  <2>2. Typed /\ Staged
    BY <1>1, <1>2, <1>3, <2>1 DEF QueueInit, Typed, Staged
  <2>3. Aged /\ Prompt /\ Lean /\ Counted
    BY <1>1, <1>5, <2>1 DEF QueueInit, Aged, Prompt, Lean, Counted
  <2>4. Ordered
    <3>1. Span(0, 0) = <<>>
      BY DEF Span
    <3>2. Cat(<<>>, <<>>) = <<>>
      BY <1>3, CatFacts
    <3>3. /\ out = <<>> /\ batch = <<>> /\ todo = {} /\ sent = 0 /\ Len(<<>>) = 0
      BY <1>1, <1>5 DEF QueueInit
    <3> QED  BY <2>1, <3>1, <3>2, <3>3, BodyEmpty DEF Ordered, Taken
  <2> QED  BY <2>2, <2>3, <2>4, OrderedIs DEF IInv
<1>6. CASE n # 0
  <2> DEFINE x == Chunk(0, Span(0, n))
  <2>1. x \in Chunks /\ x.at = 0 /\ x.data = Span(0, n) /\ chan = <<x>>
    BY <1>1, <1>4, <1>6 DEF Chunk, Chunks
  <2> HIDE DEF x
  <2>2. /\ BodyOf(chan) = Span(0, n) /\ Len(chan) = 1 /\ chan[1] = x /\ Head(chan) = x
        /\ chan \in Seq(Chunks) /\ chan # <<>>
    BY <2>1, BodySingle
  <2>3. Span(0, n) # <<>>
    BY <1>4, <1>6
  <2>4. Typed /\ Staged
    BY <1>1, <1>2, <1>3, <2>2 DEF QueueInit, Typed, Staged
  <2>5. \A k \in 1..Len(chan) : k = 1
    BY <2>2
  <2>6. Aged
    BY <2>1, <2>2, <2>3, <2>5 DEF QueueInit, Aged
  <2>7. Prompt /\ Lean /\ Counted
    BY <1>1, <1>4, <2>1, <2>2 DEF QueueInit, Prompt, Oldest, Lean, Counted
  <2>8. Ordered
    <3>1. Span(0, 0) = <<>>
      BY DEF Span
    <3>2. Cat(<<>>, <<>>) = <<>> /\ Cat(<<>>, Span(0, n)) = Span(0, n)
      BY <1>3, <1>4, CatFacts
    <3>3. /\ out = <<>> /\ batch = <<>> /\ todo = {} /\ sent = n /\ Len(<<>>) = 0
      BY <1>1 DEF QueueInit
    <3> QED  BY <2>2, <3>1, <3>2, <3>3, BodyEmpty DEF Ordered, Taken
  <2> QED  BY <2>4, <2>6, <2>7, <2>8, OrderedIs DEF IInv
<1> QED  BY <1>5, <1>6

-----------------------------------------------------------------------------
(* The drainer's steps. *)

\* A step that leaves the bytes, where they are and what is said of them alone.
LEMMA Framed ==
  ASSUME IInv, UNCHANGED <<chan, todo, hand, batch, out, sent>>, reader' = "gone" <=> reader = "gone"
  PROVE  Ordered'
BY OrderedIs DEF IInv, Ordered, Taken

LEMMA FanOutKeeps ==
  ASSUME IInv, NEW n \in Lengths, FanOut(n)
  PROVE  IInv'
<1>1. n \in Nat /\ n > 0
  BY QueueAssumption
<1>2. Len(BodyOf(chan)) \in Nat /\ Len(hand.data) \in Nat
  BY Bodies DEF IInv
<1>3. reader # "gone" =>
        /\ Len(BodyOf(chan)) <= queued
        /\ queued = 0 => chan = <<>>
        /\ queued # 0 => chan # <<>> \/ todo # {}
  <2>1. reader # "gone" => queued = Len(BodyOf(chan)) + (IF "queued" \in todo THEN Len(hand.data) ELSE 0)
    BY DEF IInv, Counted, FanOut
  <2>2. reader # "gone" /\ queued = 0 => chan = <<>>
    BY <1>2, <2>1, NoBytes DEF IInv
  <2>3. chan = <<>> => Len(BodyOf(chan)) = 0
    BY BodyEmpty, EmptySeq
  <2> QED  BY <1>2, <2>1, <2>2, <2>3
<1>4. queued = 0 => Len(chan) = 0
  <2>1. queued = 0 => chan = <<>>
    BY <1>3 DEF IInv, Staged
  <2> QED  BY <2>1, EmptySeq
<1>5. Typed' /\ Staged'
  BY <1>1 DEF IInv, Typed, Staged, FanOut, queue, read
<1>6. Aged'
  <2>1. CASE queued = 0
    <3>1. 1..Len(chan) = {}
      BY <1>4, <2>1
    <3> QED  BY <3>1 DEF Aged, FanOut, read
  <2>2. CASE queued # 0
    BY <2>2 DEF IInv, Aged, FanOut, read
  <2> QED  BY <2>1, <2>2
<1>7. Prompt'
  BY <1>3 DEF IInv, Typed, Staged, Prompt, Oldest, FanOut, read
<1>8. Lean'
  BY <1>3 DEF IInv, Lean, FanOut, read
<1>9. Counted'
  BY DEF IInv, Counted, FanOut, read
<1>10. Ordered'
  BY Framed DEF FanOut, read
<1> QED  BY <1>5, <1>6, <1>7, <1>8, <1>9, <1>10, OrderedIs DEF IInv

LEMMA EvictKeeps ==
  ASSUME IInv, Evict
  PROVE  IInv'
<1>1. Typed' /\ Staged' /\ Aged' /\ Prompt' /\ Lean'
  BY DEF IInv, Typed, Staged, Aged, Prompt, Oldest, Lean, Evict, queue, read
<1>2. Counted'
  BY DEF IInv, Counted, Evict, queue, read
<1>3. Ordered'
  BY Framed DEF Evict, queue, read
<1> QED  BY <1>1, <1>2, <1>3, OrderedIs DEF IInv

LEMMA AccountKeeps ==
  ASSUME IInv, Account
  PROVE  IInv'
<1>1. Typed' /\ Staged' /\ Aged' /\ Prompt'
  <2>1. Typed'
    BY DEF IInv, Typed, Account, read
  <2>2. Staged' /\ Aged'
    BY DEF IInv, Staged, Aged, Account, read
  <2>3. Prompt'
    BY DEF IInv, Prompt, Oldest, Account, read
  <2> QED  BY <2>1, <2>2, <2>3
<1>2. piece.seen + piece.len <= SUB_MAX_BYTES
  <2>1. ~(piece.seen + piece.len > SUB_MAX_BYTES)
    BY DEF Account, TooMuch
  <2>2. piece.seen + piece.len \in Int /\ SUB_MAX_BYTES \in Int
    <3>1. piece.seen \in Nat /\ piece.len \in Nat
      BY QueueAssumption DEF IInv, Typed
    <3> QED  BY <3>1, QueueAssumption
  <2> QED  BY <2>1, <2>2
<1>3. ASSUME NEW k \in 1..Len(chan)
      PROVE  chan[k].at + SUB_MAX_LAG >= clock
  <2>1. chan[k].at \in Nat /\ oldest_unread <= chan[k].at /\ consumed_at <= chan[k].at
    <3>1. chan[k] \in Chunks
      BY ElementOfSeq DEF IInv, Typed
    <3> QED  BY <3>1 DEF IInv, Aged, Chunks
  <2>2. Behind <= SUB_MAX_LAG /\ piece.now = clock /\ SUB_MAX_LAG \in Nat
    BY QueueAssumption DEF IInv, Account, Staged
  <2>3. /\ ~(clock - consumed_at > SUB_MAX_LAG) \/ ~(clock - oldest_unread > SUB_MAX_LAG)
        /\ clock \in Nat /\ consumed_at \in Nat /\ oldest_unread \in Nat
    <3>1. clock \in Nat /\ consumed_at \in Nat /\ oldest_unread \in Nat
      BY QueueAssumption DEF IInv, Typed
    <3>2. ~(Behind > SUB_MAX_LAG)
      <4>1. Behind \in Int
        BY <2>2, <3>1 DEF Behind
      <4> QED  BY <2>2, <4>1
    <3> QED  BY <2>2, <3>1, <3>2 DEF Behind
  <2> QED  BY <2>1, <2>2, <2>3
<1>4. Lean'
  BY <1>2, <1>3 DEF IInv, Lean, Account, read
<1>5. Counted'
  BY Bodies DEF IInv, Typed, Counted, Account, read
<1>6. Ordered'
  BY Framed DEF Account, read
<1> QED  BY <1>1, <1>4, <1>5, <1>6, OrderedIs DEF IInv

LEMMA SendKeeps ==
  ASSUME IInv, Send
  PROVE  IInv'
<1> DEFINE x == Chunk(piece.now, Span(sent, piece.len))
<1>1. CASE reader = "gone"
  <2>1. Typed' /\ Staged' /\ Aged' /\ Prompt' /\ Lean'
    BY <1>1 DEF IInv, Typed, Staged, Aged, Prompt, Oldest, Lean, Send, read
  <2>2. Counted'
    BY <1>1 DEF Counted, Send, read
  <2>3. Ordered'
    BY <1>1, Framed DEF Send, read
  <2> QED  BY <2>1, <2>2, <2>3, OrderedIs DEF IInv
<1>2. CASE reader # "gone"
  <2>1. /\ piece.now = clock /\ piece.len \in Nat /\ piece.len > 0 /\ sent \in Nat
        /\ clock \in Nat /\ sent + piece.len \in 0..MaxBody
    BY QueueAssumption DEF IInv, Typed, Staged, Send
  <2>2. Span(sent, piece.len) \in Seq(Nat) /\ Len(Span(sent, piece.len)) = piece.len
    BY <2>1, SpanFacts
  <2>3. x \in Chunks /\ x.at = clock /\ x.data = Span(sent, piece.len) /\ x.data # <<>>
    BY <2>1, <2>2, EmptySeq DEF Chunk, Chunks
  <2> HIDE DEF x
  <2>4. /\ chan' = Append(chan, x) /\ sent' = sent + piece.len /\ fan' = "idle"
        /\ fan = "counted"
        /\ UNCHANGED <<clock, queued, consumed_at, oldest_unread, listing, piece,
                       reader, hand, todo, batch, out, waited>>
    BY <1>2 DEF Send, read, x
  <2>5. /\ chan \in Seq(Chunks) /\ Len(chan) \in Nat
        /\ chan' \in Seq(Chunks) /\ chan' # <<>> /\ Len(chan') = Len(chan) + 1
        /\ \A k \in 1..Len(chan) : chan'[k] = chan[k]
        /\ chan'[Len(chan) + 1] = x
    <3>1. chan \in Seq(Chunks)
      BY DEF IInv, Typed
    <3> QED  BY <2>3, <2>4, <3>1, AppendProperties, LenProperties
  <2>6. BodyOf(chan') = Cat(BodyOf(chan), Span(sent, piece.len))
    BY <2>3, <2>4, <2>5, BodyAppend
  <2>7. BodyOf(chan) \in Seq(Nat) /\ Len(BodyOf(chan)) \in Nat /\ Len(hand.data) \in Nat
    BY Bodies DEF IInv
  <2>8. Len(BodyOf(chan')) = Len(BodyOf(chan)) + piece.len
    <3>1. Len(Cat(BodyOf(chan), Span(sent, piece.len)))
            = Len(BodyOf(chan)) + Len(Span(sent, piece.len))
      BY <2>2, <2>7, CatFacts
    <3> QED  BY <2>2, <2>6, <3>1
  <2>9. Typed'
    BY <2>1, <2>4, <2>5 DEF IInv, Typed
  <2>10. Staged'
    BY <1>2, <2>4 DEF IInv, Staged
  <2>11. Aged'
    <3>1. ASSUME NEW k \in 1..Len(chan')
          PROVE  \/ k \in 1..Len(chan) /\ chan'[k] = chan[k]
                 \/ k = Len(chan) + 1 /\ chan'[k] = x
      BY <2>5
    <3>2. ASSUME NEW k \in 1..Len(chan')
          PROVE  /\ chan'[k].data # <<>> /\ chan'[k].at <= clock
                 /\ oldest_unread <= chan'[k].at /\ consumed_at <= chan'[k].at
                 /\ todo # {} => hand.at <= chan'[k].at
      <4>1. CASE k \in 1..Len(chan) /\ chan'[k] = chan[k]
        BY <4>1 DEF IInv, Aged
      <4>2. CASE chan'[k] = x
        BY <2>1, <2>3, <4>2 DEF IInv, Typed, Staged
      <4> QED  BY <3>1, <4>1, <4>2
    <3>3. ASSUME NEW j \in 1..Len(chan'), NEW k \in 1..Len(chan'), j <= k
          PROVE  chan'[j].at <= chan'[k].at
      <4>1. CASE k = Len(chan) + 1
        <5>1. chan'[k].at = clock
          BY <2>3, <2>5, <4>1
        <5> QED  BY <3>2, <5>1
      <4>2. CASE k # Len(chan) + 1
        <5>1. j \in 1..Len(chan) /\ k \in 1..Len(chan)
          BY <2>5, <3>3, <4>2
        <5> QED  BY <2>5, <3>3, <5>1 DEF IInv, Aged
      <4> QED  BY <4>1, <4>2
    <3> QED  BY <2>4, <3>2, <3>3 DEF Aged
  <2>12. Prompt'
    <3>1. CASE chan = <<>>
      <4>1. Len(chan) = 0 /\ Head(chan') = x
        <5>1. Len(chan) = 0 /\ Head(Append(chan, x)) = x
          BY <2>3, <2>5, <3>1, EmptySeq, HeadTailAppend
        <5> QED  BY <2>4, <5>1
      <4>2. "consumed_at" \notin todo => x.at <= oldest_unread \/ x.at - consumed_at <= waited
        BY <1>2, <2>1, <2>3, <2>4, <3>1 DEF IInv, Typed, Prompt
      <4> QED  BY <2>4, <4>1, <4>2 DEF IInv, Prompt, Oldest
    <3>2. CASE chan # <<>>
      <4>1. Head(chan') = Head(chan)
        BY <2>3, <2>4, <2>5, <3>2, HeadTailAppend
      <4> QED  BY <2>4, <3>2, <4>1 DEF IInv, Prompt, Oldest
    <3> QED  BY <3>1, <3>2
  <2>13. Lean'
    BY <2>4 DEF Lean
  <2>14. Counted'
    BY <1>2, <2>1, <2>4, <2>7, <2>8 DEF IInv, Counted
  <2>15. Ordered'
    <3> DEFINE a == Cat(Cat(out, BodyOf(batch)), Taken)
    <3>1. out \in Seq(Nat) /\ BodyOf(batch) \in Seq(Nat) /\ Taken \in Seq(Nat)
      BY Bodies DEF IInv, Typed
    <3>2. Cat(out, BodyOf(batch)) \in Seq(Nat)
      BY <3>1, CatFacts
    <3>3. a \in Seq(Nat)
      BY <3>1, <3>2, CatFacts
    <3>4. Taken' = Taken /\ Cat(a, BodyOf(chan)) = Span(0, sent) /\ out = Span(0, Len(out))
      BY <1>2, <2>4, OrderedIs DEF IInv, Ordered, Taken
    <3> HIDE DEF a
    <3>5. Cat(a, BodyOf(chan')) = Cat(Cat(a, BodyOf(chan)), Span(sent, piece.len))
      BY <2>2, <2>6, <2>7, <3>3, CatAssociative
    <3>6. Cat(a, BodyOf(chan')) = Span(0, sent')
      BY <2>1, <2>4, <3>4, <3>5, SpanJoins
    <3> QED  BY <2>4, <3>4, <3>6 DEF Ordered, a
  <2> QED  BY <2>9, <2>10, <2>11, <2>12, <2>13, <2>14, <2>15, OrderedIs DEF IInv
<1> QED  BY <1>1, <1>2

LEMMA FinishKeeps ==
  ASSUME IInv, Finish
  PROVE  IInv'
<1>1. Typed' /\ Staged' /\ Aged' /\ Prompt' /\ Lean'
  BY DEF IInv, Typed, Staged, Aged, Prompt, Oldest, Lean, Finish, queue, read
<1>2. Counted'
  BY DEF IInv, Counted, Finish, queue, read
<1>3. Ordered'
  BY Framed DEF Finish, queue, read
<1> QED  BY <1>1, <1>2, <1>3, OrderedIs DEF IInv

-----------------------------------------------------------------------------
(* The request thread's steps. *)

LEMMA DepartKeeps ==
  ASSUME IInv, Depart
  PROVE  IInv'
<1>1. /\ chan' = <<>> /\ hand' = NoChunk /\ todo' = {} /\ batch' = <<>> /\ reader' = "gone"
      /\ listing' \in {listing, "left"}
      /\ UNCHANGED <<clock, queued, consumed_at, oldest_unread, fan, piece, sent, out, waited>>
  BY DEF Depart
<1>2. /\ NoChunk \in Chunks /\ <<>> \in Seq(Chunks) /\ Len(<<>>) = 0
      /\ 1..Len(<<>>) = {}
  BY DEF NoChunk, Chunk, Chunks
<1>3. Typed'
  BY <1>1, <1>2 DEF IInv, Typed
<1>4. Staged'
  BY <1>1, <1>2, QueueAssumption DEF IInv, Staged
<1>5. Aged'
  BY <1>1, <1>2 DEF Aged
<1>6. Prompt' /\ Counted'
  BY <1>1 DEF Prompt, Counted
<1>7. Lean'
  BY <1>1, <1>2 DEF IInv, Lean
<1>8. Ordered'
  BY <1>1, OrderedIs DEF IInv, Ordered
<1> QED  BY <1>3, <1>4, <1>5, <1>6, <1>7, <1>8, OrderedIs DEF IInv

\* A step that only moves the request thread on.
LEMMA MoveKeeps ==
  ASSUME IInv, UNCHANGED <<clock, queue, drain, hand, todo, batch, out, waited>>,
         reader # "gone", todo = {}, reader' \in {"recv", "write"}
  PROVE  IInv'
<1>1. Typed' /\ Staged' /\ Aged' /\ Prompt' /\ Lean'
  BY DEF IInv, Typed, Staged, Aged, Prompt, Oldest, Lean, queue, drain
<1>2. Counted'
  BY DEF IInv, Counted, queue, drain
<1>3. Ordered'
  BY Framed DEF queue, drain
<1> QED  BY <1>1, <1>2, <1>3, OrderedIs DEF IInv

LEMMA TickKeeps ==
  ASSUME IInv, QueueTick
  PROVE  IInv'
<1>1. Typed' /\ Staged'
  BY QueueAssumption DEF IInv, Typed, Staged, QueueTick, queue, drain, read
<1>2. Aged'
  <2>1. ASSUME NEW k \in 1..Len(chan)
        PROVE  chan[k].at <= clock + 1
    <3>1. chan[k] \in Chunks /\ clock \in Nat
      BY ElementOfSeq, QueueAssumption DEF IInv, Typed
    <3>2. chan[k].at \in Nat /\ chan[k].at <= clock
      BY <3>1 DEF IInv, Aged, Chunks
    <3> QED  BY <3>1, <3>2
  <2> QED  BY <2>1 DEF IInv, Aged, QueueTick, queue, drain, read
<1>3. Prompt' /\ Lean'
  BY DEF IInv, Prompt, Oldest, Lean, QueueTick, queue, drain, read
<1>4. Counted'
  BY DEF IInv, Counted, QueueTick, queue, drain, read
<1>5. Ordered'
  BY Framed DEF QueueTick, queue, drain, read
<1> QED  BY <1>1, <1>2, <1>3, <1>4, <1>5, OrderedIs DEF IInv

LEMMA TakeKeeps ==
  ASSUME IInv, TakeChunk
  PROVE  IInv'
<1> DEFINE x == Head(chan)
<1>1. /\ chan # <<>> /\ todo = {} /\ reader # "gone" /\ Len(batch) < MAX_BATCH
      /\ hand' = x /\ chan' = Tail(chan) /\ todo' = {"queued", "consumed_at"}
      /\ waited' = IF clock - x.at > waited THEN clock - x.at ELSE waited
      /\ reader' = "gather"
      /\ UNCHANGED <<clock, queued, consumed_at, oldest_unread, listing, fan, piece, sent,
                     batch, out>>
  BY DEF TakeChunk, drain
<1>2. /\ chan \in Seq(Chunks) /\ Len(chan) \in Nat /\ Tail(chan) \in Seq(Chunks)
      /\ x \in Chunks /\ x = chan[1] /\ 1 \in 1..Len(chan)
      /\ Len(Tail(chan)) = Len(chan) - 1
      /\ \A k \in 1..Len(Tail(chan)) : Tail(chan)[k] = chan[k + 1] /\ k + 1 \in 1..Len(chan)
      /\ \A k \in 1..Len(Tail(chan)) : chan[k + 1] \in Chunks
  <2>1. chan \in Seq(Chunks)
    BY DEF IInv, Typed
  <2>2. Len(chan) \in Nat \ {0}
    BY <1>1, <2>1, EmptySeq, LenProperties
  <2>3. /\ Tail(chan) \in Seq(Chunks) /\ Len(Tail(chan)) = Len(chan) - 1 /\ x = chan[1]
        /\ \A k \in 1..Len(Tail(chan)) : Tail(chan)[k] = chan[k + 1]
    BY <1>1, <2>1, HeadTailProperties
  <2>4. \A k \in 1..Len(chan) : chan[k] \in Chunks
    BY <2>1, ElementOfSeq
  <2>5. \A k \in 1..Len(Tail(chan)) : k + 1 \in 1..Len(chan)
    BY <2>2, <2>3
  <2> QED  BY <2>1, <2>2, <2>3, <2>4, <2>5
<1>3. BodyOf(chan) = Cat(x.data, BodyOf(chan'))
  BY <1>1, <1>2, BodyTail
<1>4. /\ x.data \in Seq(Nat) /\ BodyOf(chan') \in Seq(Nat) /\ x.at \in Nat
      /\ Len(BodyOf(chan)) = Len(x.data) + Len(BodyOf(chan'))
      /\ Len(x.data) \in Nat /\ Len(BodyOf(chan')) \in Nat
  <2>1. x.data \in Seq(Nat) /\ BodyOf(chan') \in Seq(Nat) /\ x.at \in Nat
    BY <1>1, <1>2, BodyTyped DEF Chunks
  <2>2. Len(Cat(x.data, BodyOf(chan'))) = Len(x.data) + Len(BodyOf(chan'))
    BY <2>1, CatLen
  <2>3. Len(x.data) \in Nat /\ Len(BodyOf(chan')) \in Nat
    BY <2>1, LenProperties
  <2> QED  BY <1>3, <2>1, <2>2, <2>3
<1>5. /\ x.at <= clock /\ oldest_unread <= x.at /\ consumed_at <= x.at
      /\ \A k \in 1..Len(chan) : x.at <= chan[k].at
  BY <1>2 DEF IInv, Aged
<1> HIDE DEF x
<1>6. Typed'
  <2>1. waited' \in Nat
    <3>1. clock \in Nat /\ waited \in Nat
      BY QueueAssumption DEF IInv, Typed
    <3> QED  BY <1>1, <1>4, <1>5, <3>1
  <2> QED  BY <1>1, <1>2, <2>1 DEF IInv, Typed
<1>7. Staged'
  BY <1>1, <1>5 DEF IInv, Staged
<1>8. Aged'
  <2>1. ASSUME NEW k \in 1..Len(chan')
        PROVE  chan'[k] = chan[k + 1] /\ k + 1 \in 1..Len(chan) /\ k \in Int
    BY <1>1, <1>2
  <2>2. \A k \in 1..Len(chan') :
          /\ chan'[k].data # <<>> /\ chan'[k].at <= clock
          /\ oldest_unread <= chan'[k].at /\ consumed_at <= chan'[k].at
          /\ x.at <= chan'[k].at
    BY <1>5, <2>1 DEF IInv, Aged
  <2>3. ASSUME NEW j \in 1..Len(chan'), NEW k \in 1..Len(chan'), j <= k
        PROVE  chan'[j].at <= chan'[k].at
    <3>1. j + 1 <= k + 1
      BY <2>1, <2>3
    <3> QED  BY <2>1, <3>1 DEF IInv, Aged
  <2> QED  BY <1>1, <2>2, <2>3 DEF Aged
<1>9. Prompt'
  <2>1. clock \in Nat /\ waited \in Nat /\ waited' \in Nat /\ waited <= waited'
    <3>1. clock \in Nat /\ waited \in Nat
      BY QueueAssumption DEF IInv, Typed
    <3> QED  BY <1>1, <1>4, <1>5, <3>1
  <2>2. clock - x.at <= waited'
    BY <1>1, <1>4, <2>1
  <2>3. x.at <= oldest_unread \/ x.at - consumed_at <= waited
    BY <1>1 DEF IInv, Prompt, Oldest, x
  <2>4. x.at <= oldest_unread \/ x.at - consumed_at <= waited'
    <3>1. consumed_at \in Nat
      BY DEF IInv, Typed
    <3> QED  BY <1>4, <2>1, <2>3, <3>1
  <2> QED  BY <1>1, <2>2, <2>4 DEF IInv, Prompt, Oldest
<1>10. Lean'
  <2>1. fan # "idle" => Len(BodyOf(chan')) <= piece.seen
    <3>1. fan # "idle" => Len(BodyOf(chan)) <= piece.seen
      BY <1>1 DEF IInv, Lean
    <3>2. piece.seen \in Nat
      BY DEF IInv, Typed
    <3> QED  BY <1>4, <3>1, <3>2
  <2>2. fan = "counted" => \A k \in 1..Len(chan') : chan'[k].at + SUB_MAX_LAG >= clock
    BY <1>1, <1>2 DEF IInv, Lean
  <2> QED  BY <1>1, <2>1, <2>2 DEF IInv, Lean
<1>11. Counted'
  BY <1>1, <1>4 DEF IInv, Typed, Counted
<1>12. Ordered'
  <2> DEFINE a == Cat(out, BodyOf(batch))
  <2>1. out \in Seq(Nat) /\ BodyOf(batch) \in Seq(Nat)
    BY Bodies DEF IInv, Typed
  <2>2. a \in Seq(Nat)
    BY <2>1, CatFacts
  <2>3. Cat(Cat(a, <<>>), BodyOf(chan)) = Span(0, sent) /\ out = Span(0, Len(out))
    BY <1>1, OrderedIs DEF IInv, Ordered, Taken
  <2>4. Taken' = x.data
    BY <1>1 DEF Taken
  <2> HIDE DEF a
  <2>5. Cat(a, <<>>) = a
    BY <2>2, CatFacts
  <2>6. Cat(Cat(a, x.data), BodyOf(chan')) = Span(0, sent)
    BY <1>3, <1>4, <2>2, <2>3, <2>5, CatAssociative
  <2> QED  BY <1>1, <2>3, <2>4, <2>6 DEF Ordered, a
<1> QED  BY <1>6, <1>7, <1>8, <1>9, <1>10, <1>11, <1>12, OrderedIs DEF IInv

\* What took's two accesses share: the chunk is in the batch after the last of them.
LEMMA TookBatch ==
  ASSUME IInv, NEW a \in todo, todo' = todo \ {a},
         batch' = IF todo' = {} THEN Append(batch, hand) ELSE batch,
         UNCHANGED <<chan, reader, hand, out, sent>>
  PROVE  batch' \in Seq(Chunks) /\ Len(batch') <= MAX_BATCH /\ Ordered'
         /\ (todo' # {} => Len(batch') < MAX_BATCH)
<1>1. /\ batch \in Seq(Chunks) /\ hand \in Chunks /\ Len(batch) \in Nat
      /\ Len(batch) < MAX_BATCH /\ MAX_BATCH \in Nat /\ todo # {} /\ reader # "gone"
  <2>1. batch \in Seq(Chunks) /\ hand \in Chunks /\ todo # {} /\ reader = "gather"
        /\ Len(batch) < MAX_BATCH
    BY DEF IInv, Typed, Staged
  <2> QED  BY <2>1, QueueAssumption, LenProperties
<1>2. CASE todo' # {}
  <2>1. Taken' = Taken /\ batch' = batch
    BY <1>1, <1>2 DEF Taken
  <2>2. Ordered'
    BY <2>1, OrderedIs DEF IInv, Ordered
  <2> QED  BY <1>1, <2>1, <2>2
<1>3. CASE todo' = {}
  <2>1. batch' = Append(batch, hand) /\ Taken' = <<>> /\ Taken = hand.data
    BY <1>1, <1>3 DEF Taken
  <2>2. batch' \in Seq(Chunks) /\ Len(batch') = Len(batch) + 1
    BY <1>1, <2>1, AppendProperties
  <2>3. BodyOf(batch') = Cat(BodyOf(batch), hand.data)
    BY <1>1, <2>1, BodyAppend
  <2>4. /\ out \in Seq(Nat) /\ BodyOf(batch) \in Seq(Nat) /\ hand.data \in Seq(Nat)
        /\ BodyOf(batch') \in Seq(Nat)
    BY <2>2, Bodies, BodyTyped DEF IInv, Typed
  <2>5. Cat(Cat(out, BodyOf(batch)), hand.data) = Cat(out, BodyOf(batch'))
    BY <2>3, <2>4, CatAssociative
  <2>6. Cat(out, BodyOf(batch')) \in Seq(Nat)
    BY <2>4, CatFacts
  <2>7. Cat(Cat(out, BodyOf(batch')), <<>>) = Cat(out, BodyOf(batch'))
    BY <2>6, CatFacts
  <2>8. Ordered'
    BY <1>1, <2>1, <2>5, <2>7, OrderedIs DEF IInv, Ordered
  <2> QED  BY <1>1, <1>3, <2>2, <2>8
<1> QED  BY <1>2, <1>3

LEMMA TookQueuedKeeps ==
  ASSUME IInv, TookQueued
  PROVE  IInv'
<1>1. /\ batch' \in Seq(Chunks) /\ Len(batch') <= MAX_BATCH /\ Ordered'
      /\ (todo' # {} => Len(batch') < MAX_BATCH)
  BY TookBatch DEF TookQueued, drain
<1>2. Len(BodyOf(chan)) \in Nat /\ Len(hand.data) \in Nat /\ Len(BodyOf(chan')) = Len(BodyOf(chan))
  BY Bodies DEF IInv, TookQueued
<1>3. /\ "queued" \in todo /\ todo' = todo \ {"queued"} /\ queued' = queued - Len(hand.data)
      /\ UNCHANGED <<clock, chan, consumed_at, oldest_unread, drain, reader, hand, out, waited>>
      /\ reader # "gone" /\ reader = "gather"
  BY DEF IInv, Staged, TookQueued
<1>4. Counted' /\ queued' \in Nat
  <2> DEFINE more == IF fan = "counted" THEN piece.len ELSE 0
  <2>1. more \in Nat /\ queued = (Len(BodyOf(chan)) + Len(hand.data)) + more
    <3>1. piece.len \in Nat
      BY DEF IInv, Typed
    <3> QED  BY <1>3, <3>1 DEF IInv, Counted
  <2>2. more' = more
    BY <1>3 DEF drain
  <2> HIDE DEF more
  <2>3. queued' = (Len(BodyOf(chan')) + 0) + more /\ queued' \in Nat
    <3> DEFINE b == Len(BodyOf(chan))
               h == Len(hand.data)
               c == Len(BodyOf(chan'))
    <3>1. b \in Nat /\ h \in Nat /\ c = b /\ queued = (b + h) + more /\ queued' = queued - h
      BY <1>2, <1>3, <2>1
    <3> HIDE DEF b, h, c
    <3>2. queued' = (c + 0) + more /\ queued' \in Nat
      BY <2>1, <3>1
    <3> QED  BY <3>2 DEF c
  <2>4. "queued" \notin todo'
    BY <1>3
  <2> QED  BY <2>2, <2>3, <2>4 DEF Counted, more
<1>5. Typed'
  BY <1>1, <1>3, <1>4 DEF IInv, Typed, drain
<1>6. Staged' /\ Aged' /\ Lean'
  BY <1>1, <1>3 DEF IInv, Staged, Aged, Lean, drain
<1>7. Prompt'
  BY <1>3 DEF IInv, Prompt, Oldest, drain
<1> QED  BY <1>1, <1>4, <1>5, <1>6, <1>7, OrderedIs DEF IInv

LEMMA TookConsumedKeeps ==
  ASSUME IInv, TookConsumed
  PROVE  IInv'
<1>1. /\ batch' \in Seq(Chunks) /\ Len(batch') <= MAX_BATCH /\ Ordered'
      /\ (todo' # {} => Len(batch') < MAX_BATCH)
  BY TookBatch DEF TookConsumed, drain
<1>2. /\ "consumed_at" \in todo /\ todo' = todo \ {"consumed_at"} /\ consumed_at' = hand.at
      /\ UNCHANGED <<clock, chan, queued, oldest_unread, drain, reader, hand, out, waited>>
      /\ reader # "gone" /\ reader = "gather" /\ hand.at \in 0..clock
  BY DEF IInv, Typed, Staged, Chunks, TookConsumed
<1>3. Counted'
  BY <1>2 DEF IInv, Counted, drain
<1>4. Typed'
  BY <1>1, <1>2 DEF IInv, Typed, drain
<1>5. Staged' /\ Aged' /\ Lean'
  BY <1>1, <1>2 DEF IInv, Staged, Aged, Lean, drain
<1>6. chan # <<>> => Head(chan).at \in Nat /\ Head(chan).at <= clock
  <2> SUFFICES ASSUME chan # <<>>
               PROVE  Head(chan).at \in Nat /\ Head(chan).at <= clock
    OBVIOUS
  <2>1. Head(chan) = chan[1] /\ 1 \in 1..Len(chan) /\ Head(chan) \in Chunks
    BY EmptySeq, HeadTailProperties DEF IInv, Typed
  <2> QED  BY <2>1 DEF IInv, Aged, Chunks
<1>7. Prompt'
  <2>1. clock \in Nat /\ waited \in Nat /\ clock - hand.at <= waited
    BY <1>2 DEF IInv, Typed, Prompt
  <2>2. chan # <<>> => Head(chan).at - consumed_at' <= waited
    BY <1>2, <1>6, <2>1
  <2> QED  BY <1>2, <2>1, <2>2 DEF IInv, Prompt, Oldest, drain
<1> QED  BY <1>1, <1>3, <1>4, <1>5, <1>7, OrderedIs DEF IInv

LEMMA WriteKeeps ==
  ASSUME IInv, NEW n \in 1..MaxBody, WriteSome(n)
  PROVE  IInv'
<1> DEFINE b == BodyOf(batch)
           first == SubSeq(b, 1, n)
           rest == SubSeq(b, n + 1, Len(b))
<1>1. /\ reader = "write" /\ reader' \in {"recv", "write"} /\ n \in 1..Len(b)
      /\ out' = out \o first
      /\ batch' = IF n = Len(b) THEN <<>> ELSE <<Chunk(0, rest)>>
      /\ UNCHANGED <<clock, queue, drain, hand, todo, waited>>
  BY DEF WriteSome
<1>2. todo = {} /\ todo' = {} /\ MAX_BATCH \in Nat \ {0}
  BY <1>1, QueueAssumption DEF IInv, Staged
<1>3. out \in Seq(Nat) /\ b \in Seq(Nat) /\ Len(b) \in Nat
  BY Bodies DEF IInv, Typed
<1> HIDE DEF b
<1>4. first \in Seq(Nat) /\ rest \in Seq(Nat) /\ Cat(first, rest) = b
  BY <1>1, <1>3, Splits
<1>5. n = Len(b) => rest = <<>>
  <2> SUFFICES ASSUME n = Len(b) PROVE Len(rest) = 0
    BY <1>4, EmptySeq
  <2> QED  BY <1>3, SubSeqProperties
<1> HIDE DEF first, rest
<1>6. batch' \in Seq(Chunks) /\ Len(batch') <= 1 /\ BodyOf(batch') = rest
  <2>1. CASE n = Len(b)
    BY <1>1, <1>5, <2>1, BodyEmpty
  <2>2. CASE n # Len(b)
    <3> DEFINE x == Chunk(0, rest)
    <3>1. x \in Chunks /\ x.data = rest /\ batch' = <<x>>
      BY <1>1, <1>4, <2>2 DEF Chunk, Chunks
    <3> HIDE DEF x
    <3> QED  BY <3>1, BodySingle
  <2> QED  BY <2>1, <2>2
<1>7. out' \in Seq(Nat) /\ out' = Cat(out, first)
  <2>1. out' = Cat(out, first)
    BY <1>1 DEF Cat
  <2> QED  BY <1>3, <1>4, <2>1, CatFacts
<1>8. Typed'
  BY <1>1, <1>6, <1>7 DEF IInv, Typed, queue, drain
<1>9. Staged' /\ Aged' /\ Prompt' /\ Lean'
  <2>1. Staged'
    <3>1. Len(batch') <= MAX_BATCH
      BY <1>2, <1>6, LenProperties
    <3> QED  BY <1>1, <1>2, <3>1 DEF IInv, Staged, queue, drain
  <2>2. Aged' /\ Lean'
    BY <1>1, <1>2 DEF IInv, Aged, Lean, queue, drain
  <2>3. Prompt'
    BY <1>1, <1>2 DEF IInv, Prompt, Oldest, queue, drain
  <2> QED  BY <2>1, <2>2, <2>3
<1>10. Counted'
  BY <1>1, <1>2 DEF IInv, Counted, queue, drain
<1>11. Ordered'
  <2>1. Cat(out', BodyOf(batch')) = Cat(out, b)
    BY <1>3, <1>4, <1>6, <1>7, CatAssociative
  <2>2. Cat(Cat(Cat(out, b), <<>>), BodyOf(chan)) = Span(0, sent)
    BY <1>1, <1>2, OrderedIs DEF IInv, Ordered, Taken, b
  <2>3. /\ Taken' = <<>> /\ chan' = chan /\ sent' = sent
    BY <1>1, <1>2 DEF Taken, queue, drain
  <2>4. Cat(Cat(Cat(out', BodyOf(batch')), <<>>), BodyOf(chan')) = Span(0, sent')
    BY <2>1, <2>2, <2>3
  <2>5. out' = Span(0, Len(out'))
    <3>1. Cat(out, b) \in Seq(Nat) /\ BodyOf(chan) \in Seq(Nat) /\ sent \in Nat
      BY <1>3, CatFacts, Bodies, QueueAssumption DEF IInv, Typed
    <3>2. Cat(Cat(out, b), <<>>) = Cat(out, b)
      BY <3>1, CatFacts
    <3>3. Cat(Cat(out', rest), BodyOf(chan)) = Span(0, sent)
      BY <1>6, <2>1, <2>2, <3>2
    <3>4. Cat(rest, BodyOf(chan)) \in Seq(Nat)
      BY <1>4, <3>1, CatFacts
    <3>5. Cat(out', Cat(rest, BodyOf(chan))) = Span(0, sent)
      BY <1>4, <1>7, <3>1, <3>3, CatAssociative
    <3> QED  BY <1>7, <3>1, <3>4, <3>5, SpanBegins
  <2> QED  BY <2>3, <2>4, <2>5 DEF Ordered
<1> QED  BY <1>8, <1>9, <1>10, <1>11, OrderedIs DEF IInv

-----------------------------------------------------------------------------
(* The theorems. *)

LEMMA StepKeeps == IInv /\ [QueueNext]_queueVars => IInv'
<1> SUFFICES ASSUME IInv, [QueueNext]_queueVars PROVE IInv'
  OBVIOUS
<1>1. CASE FanOutStep \/ Finish \/ \E n \in Lengths : FanOut(n)
  BY <1>1, EvictKeeps, AccountKeeps, SendKeeps, FinishKeeps, FanOutKeeps DEF FanOutStep
<1>2. CASE \E n \in 1..MaxBody : WriteSome(n)
  BY <1>2, WriteKeeps
<1>3. CASE TakeChunk \/ TookQueued \/ TookConsumed
  BY <1>3, TakeKeeps, TookQueuedKeeps, TookConsumedKeeps
<1>4. CASE RecvEnds \/ WriteFails
  BY <1>4, DepartKeeps DEF RecvEnds, WriteFails
<1>5. CASE Gathered
  BY <1>5, MoveKeeps DEF Gathered
<1>6. CASE WriteHead
  BY <1>6, MoveKeeps DEF WriteHead, IInv, Staged
<1>7. CASE QueueTick
  BY <1>7, TickKeeps
<1>8. CASE UNCHANGED queueVars
  <2>1. Typed' /\ Staged' /\ Aged' /\ Prompt' /\ Lean'
    <3>1. Typed' /\ Staged' /\ Aged'
      BY <1>8 DEF IInv, Typed, Staged, Aged, queueVars, queue, drain, read
    <3>2. Prompt' /\ Lean'
      BY <1>8 DEF IInv, Prompt, Oldest, Lean, queueVars, queue, drain, read
    <3> QED  BY <3>1, <3>2
  <2>2. Counted'
    BY <1>8 DEF IInv, Counted, queueVars, queue, drain, read
  <2>3. Ordered'
    BY <1>8, Framed DEF queueVars, queue, drain, read
  <2> QED  BY <2>1, <2>2, <2>3, OrderedIs DEF IInv
<1> QED
  BY <1>1, <1>2, <1>3, <1>4, <1>5, <1>6, <1>7, <1>8 DEF QueueNext, ReaderStep, FanOutStep

LEMMA Invariant == QueueSpec => []IInv
BY InitHolds, StepKeeps, PTL DEF QueueSpec

\* The counters, the clock and the two threads' places are of their types, and the
\* batch is never longer than MAX_BATCH.
THEOREM QueueTypeCorrect == QueueSpec => []QueueTypeOK
<1>1. IInv => QueueTypeOK
  BY DEF IInv, Typed, Staged, QueueTypeOK
<1> QED  BY <1>1, Invariant, PTL

\* queued is the bytes in the channel, in fan_out's hand and in took's: it never
\* wraps below zero nor drifts (Listener::queued).
THEOREM BytesCounted == QueueSpec => []Counted
<1>1. IInv => Counted
  BY DEF IInv
<1> QED  BY <1>1, Invariant, PTL

\* The player is sent the body without a gap, a repetition or a change of order,
\* whatever part of a batch a write accepts (write_all_vectored).
THEOREM BodyInOrder == QueueSpec => []InOrder
<1>1. IInv => InOrder
  BY DEF IInv
<1> QED  BY <1>1, Invariant, PTL

\* Only Send puts a chunk in the channel.
LEMMA OnlySendLengthens ==
  ASSUME IInv, [QueueNext]_queueVars, Len(chan') > Len(chan)
  PROVE  Send /\ reader # "gone"
<1>1. chan \in Seq(Chunks) /\ Len(chan) \in Nat
  BY LenProperties DEF IInv, Typed
<1>2. chan' # chan
  BY <1>1
<1>3. ~TakeChunk
  <2> SUFFICES ASSUME TakeChunk PROVE FALSE
    OBVIOUS
  <2>1. chan # <<>> /\ chan' = Tail(chan)
    BY DEF TakeChunk
  <2> QED  BY <1>1, <2>1, HeadTailProperties
<1>4. ~Depart
  <2> SUFFICES ASSUME Depart PROVE FALSE
    OBVIOUS
  <2>1. Len(chan') = 0
    BY EmptySeq DEF Depart
  <2> QED  BY <1>1, <2>1
<1>5. ~(\E n \in Lengths : FanOut(n)) /\ ~(\E n \in 1..MaxBody : WriteSome(n))
  BY <1>2 DEF FanOut, WriteSome, queue
<1>6. ~Evict /\ ~Account /\ ~Finish /\ ~WriteHead /\ ~QueueTick /\ ~UNCHANGED queueVars
  BY <1>2 DEF Evict, Account, Finish, WriteHead, QueueTick, queueVars, queue
<1>7. ~TookQueued /\ ~TookConsumed /\ ~Gathered
  BY <1>2 DEF TookQueued, TookConsumed, Gathered, queue
<1>8. Send
  BY <1>3, <1>4, <1>5, <1>6, <1>7
     DEF QueueNext, FanOutStep, ReaderStep, RecvEnds, WriteFails
<1> QED  BY <1>2, <1>8 DEF Send

\* fan_out: no piece goes behind one that has been unread for more than
\* SUB_MAX_LAG, nor past SUB_MAX_BYTES, though the reader empties its queue and
\* moves the counters between what fan_out reads and what it sends.
THEOREM BacklogBounded == QueueSpec => Backlog
<1> DEFINE Bounded == /\ \A k \in DOMAIN chan' : chan'[k].at + SUB_MAX_LAG >= clock
                      /\ Len(BodyOf(chan')) <= SUB_MAX_BYTES
<1>1. ASSUME IInv, [QueueNext]_queueVars, Len(chan') > Len(chan)
      PROVE  Bounded
  <2> DEFINE x == Chunk(piece.now, Span(sent, piece.len))
  <2>1. Send /\ reader # "gone"
    BY <1>1, OnlySendLengthens
  <2>2. fan = "counted" /\ chan' = Append(chan, x)
    BY <2>1 DEF Send
  <2>3. /\ piece.now = clock /\ piece.len \in Nat /\ sent \in Nat /\ clock \in Nat
        /\ piece.seen \in Nat /\ {SUB_MAX_LAG, SUB_MAX_BYTES} \subseteq Nat
    BY <1>1, <2>2, QueueAssumption DEF IInv, Typed, Staged
  <2>4. Span(sent, piece.len) \in Seq(Nat) /\ Len(Span(sent, piece.len)) = piece.len
    BY <2>3, SpanFacts
  <2>5. x \in Chunks /\ x.at = clock /\ x.data = Span(sent, piece.len)
    BY <2>3, <2>4 DEF Chunk, Chunks
  <2> HIDE DEF x
  <2>6. chan \in Seq(Chunks) /\ BodyOf(chan) \in Seq(Nat) /\ Len(BodyOf(chan)) \in Nat
    BY <1>1, Bodies DEF IInv, Typed
  <2>7. Len(BodyOf(chan')) = Len(BodyOf(chan)) + piece.len
    <3>1. BodyOf(chan') = Cat(BodyOf(chan), x.data)
      BY <2>2, <2>5, <2>6, BodyAppend
    <3>2. x.data \in Seq(Nat)
      BY <2>4, <2>5
    <3>3. Len(Cat(BodyOf(chan), x.data)) = Len(BodyOf(chan)) + Len(x.data)
      BY <2>6, <3>2, CatFacts
    <3> QED  BY <2>4, <2>5, <3>1, <3>3
  <2>8. Len(BodyOf(chan')) <= SUB_MAX_BYTES
    BY <1>1, <2>1, <2>2, <2>3, <2>6, <2>7 DEF IInv, Lean
  <2>9. /\ DOMAIN chan' = 1..(Len(chan) + 1) /\ Len(chan) \in Nat
        /\ \A k \in 1..Len(chan) : chan'[k] = chan[k]
        /\ chan'[Len(chan) + 1] = x
    BY <2>2, <2>5, <2>6, AppendProperties, LenProperties
  <2>10. ASSUME NEW k \in DOMAIN chan'
         PROVE  chan'[k].at + SUB_MAX_LAG >= clock
    <3>1. CASE k \in 1..Len(chan)
      BY <1>1, <2>2, <2>9, <3>1 DEF IInv, Lean
    <3>2. CASE k = Len(chan) + 1
      BY <2>3, <2>5, <2>9, <3>2
    <3> QED  BY <2>9, <2>10, <3>1, <3>2
  <2> QED  BY <2>8, <2>10
<1>2. IInv /\ [QueueNext]_queueVars => [Len(chan') > Len(chan) => Bounded]_queueVars
  BY <1>1
<1> QED  BY <1>2, Invariant, PTL DEF QueueSpec, Backlog

\* Subscription::took and fan_out: a listener that has taken every chunk within
\* half of SUB_MAX_LAG, and has none unread for longer, is not evicted for lag,
\* whatever fan_out reads of the relaxed counters.
THEOREM NoFalseLag == QueueSpec => KeepsUp
<1> DEFINE Late == \/ 2 * waited > SUB_MAX_LAG
                   \/ \E k \in DOMAIN chan : 2 * (clock - chan[k].at) > SUB_MAX_LAG
<1>1. ASSUME IInv, Evict /\ ~TooMuch /\ reader # "gone"
      PROVE  Late
  <2>1. /\ clock \in Nat /\ waited \in Nat /\ consumed_at \in Nat /\ oldest_unread \in Nat
        /\ SUB_MAX_LAG \in Nat /\ piece.now = clock /\ hand.at \in Nat
        /\ chan \in Seq(Chunks) /\ fan = "loaded"
    BY <1>1, QueueAssumption DEF IInv, Typed, Staged, Chunks, Evict
  <2>2. clock - consumed_at > SUB_MAX_LAG /\ clock - oldest_unread > SUB_MAX_LAG
    <3>1. Behind > SUB_MAX_LAG
      BY <1>1 DEF Evict
    <3> QED  BY <2>1, <3>1 DEF Behind
  <2>3. chan # <<>> \/ todo # {} \/ clock - consumed_at <= waited
    <3>1. piece.seen # 0
      BY <1>1, <2>1, <2>2 DEF IInv, Prompt
    <3> QED  BY <1>1, <2>1, <3>1 DEF IInv, Prompt
  <2>4. CASE clock - consumed_at <= waited
    BY <2>1, <2>2, <2>4
  <2>5. CASE "consumed_at" \in todo
    <3>1. clock - hand.at <= waited
          /\ (hand.at <= oldest_unread \/ hand.at - consumed_at <= waited)
      BY <1>1, <2>5 DEF IInv, Prompt, Oldest
    <3> QED  BY <2>1, <2>2, <3>1
  <2>6. CASE "consumed_at" \notin todo /\ todo # {}
    BY <1>1, <2>1, <2>2, <2>6 DEF IInv, Prompt
  <2>7. CASE "consumed_at" \notin todo /\ chan # <<>>
    <3>1. Head(chan) = chan[1] /\ 1 \in DOMAIN chan /\ chan[1].at \in Nat
      <4>1. Head(chan) \in Chunks /\ Head(chan) = chan[1] /\ 1 \in DOMAIN chan
        BY <2>1, <2>7, EmptySeq, HeadTailProperties
      <4> QED  BY <4>1 DEF Chunks
    <3>2. chan[1].at <= oldest_unread \/ chan[1].at - consumed_at <= waited
      BY <1>1, <2>7, <3>1 DEF IInv, Prompt, Oldest
    <3>3. 2 * waited > SUB_MAX_LAG \/ 2 * (clock - chan[1].at) > SUB_MAX_LAG
      <4> DEFINE a == chan[1].at
                 c == consumed_at
                 o == oldest_unread
                 m == SUB_MAX_LAG
      <4>1. a \in Int /\ c \in Int /\ o \in Int /\ m \in Int /\ clock \in Int /\ waited \in Int
        BY <2>1, <3>1
      <4>2. clock - c > m /\ clock - o > m /\ (a <= o \/ a - c <= waited)
        BY <2>2, <3>2
      <4> HIDE DEF a, c, o, m
      <4>3. CASE a <= o
        <5>1. clock - a > m /\ (m >= 0 => 2 * (clock - a) > m)
          BY <4>1, <4>2, <4>3
        <5> QED  BY <2>1, <5>1 DEF a, m
      <4>4. CASE a - c <= waited
        <5>1. 2 * waited > m \/ 2 * (clock - a) > m
          BY <4>1, <4>2, <4>4
        <5> QED  BY <5>1 DEF a, m
      <4> QED  BY <4>2, <4>3, <4>4
    <3> QED  BY <3>1, <3>3
  <2> QED  BY <2>3, <2>4, <2>5, <2>6, <2>7
<1>2. IInv /\ [QueueNext]_queueVars
        => [Evict /\ ~TooMuch /\ reader # "gone" => Late]_queueVars
  BY <1>1
<1> QED  BY <1>2, Invariant, PTL DEF QueueSpec, KeepsUp

-----------------------------------------------------------------------------
(* MCLinger: the three side by side, one of which moves. *)

\* The linger thread, a listener's queue and the mutexes keep their types together, as
\* TLC runs them, for any values, periods, pieces, limits and requests.
THEOREM OutboundTyped == MCSpec => []Types
<1> DEFINE Inv == LingerInv /\ IInv /\ LockInv
<1>1. MCInit => Inv
  BY InvInit, InitHolds, LocksInit DEF MCInit
<1>2. Inv /\ [MCNext]_<<side, vars, queueVars, lockVars>> => Inv'
  <2> SUFFICES ASSUME Inv, [MCNext]_<<side, vars, queueVars, lockVars>>
               PROVE  Inv'
    OBVIOUS
  <2>1. [Next]_vars /\ [QueueNext]_queueVars /\ [LockNext]_lockVars
    BY DEF MCNext
  <2>2. LingerInv'
    BY <2>1, InvStep
  <2>3. IInv'
    BY <2>1, StepKeeps
  <2>4. LockInv'
    BY <2>1, LocksStep
  <2> QED  BY <2>2, <2>3, <2>4
<1>3. Inv => Types
  <2>1. LingerInv => TypeOK
    BY DEF LingerInv
  <2>2. IInv => QueueTypeOK
    BY DEF IInv, Typed, Staged, QueueTypeOK
  <2>3. LockInv => LockTypeOK
    BY Sound
  <2> QED  BY <2>1, <2>2, <2>3 DEF Types
<1> HIDE DEF Inv
<1> QED  BY <1>1, <1>2, <1>3, PTL DEF MCSpec
===============================================================================
