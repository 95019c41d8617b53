---------------------------- MODULE EncoderProofs ----------------------------
(***************************************************************************)
(* Proofs about Encoder, for any clients, either kind of format, any linger *)
(* and any number of pieces: what clients are sent, and that Encoder       *)
(* implements Broadcast. Last, what Broadcast promises a client, for any   *)
(* clients, kinds and safe points.                                         *)
(***************************************************************************)
EXTENDS Encoder, TLAPS

-----------------------------------------------------------------------------
(* What a client has been sent, apart from the init segment. *)

\* Media(c) is Cut(got[c]).
Cut(s) == IF NeedsInit /\ s # <<>> THEN Tail(s) ELSE s

LEMMA CutTyped ==
  ASSUME NEW s \in Seq(Nat)
  PROVE  Cut(s) \in Seq(Nat)
BY DEF Cut

LEMMA CutEmpty == Cut(<<>>) = <<>> /\ (NeedsInit => Cut(<<0>>) = <<>>)
<1>1. <<0>> \in Seq(Nat) /\ Len(<<0>>) = 1 /\ <<0>> # <<>>
  OBVIOUS
<1>2. Tail(<<0>>) = <<>>
  BY <1>1
<1> QED  BY <1>1, <1>2 DEF Cut

LEMMA CutAppend ==
  ASSUME NEW s \in Seq(Nat), NEW n \in Nat, NeedsInit => s # <<>>
  PROVE  Cut(Append(s, n)) = Append(Cut(s), n)
<1>1. CASE ~NeedsInit
  BY <1>1 DEF Cut
<1>2. CASE NeedsInit
  <2>1. s # <<>> /\ Append(s, n) # <<>>
    BY <1>2
  <2>2. Tail(Append(s, n)) = Append(Tail(s), n)
    BY <2>1
  <2> QED  BY <1>2, <2>1, <2>2 DEF Cut
<1> QED  BY <1>1, <1>2

-----------------------------------------------------------------------------
(* The parts of the inductive invariant. *)

\* A client that has not been listed yet has been sent nothing.
Newcomers ==
  \A c \in Clients :
    client[c] \in {"out", "joining", "admitted", "refused"} =>
      c \notin listeners /\ got[c] = <<>>

\* For audio every piece may be begun with, and nobody waits for one.
AnyPiece ==
  ~NeedsInit => awaiting = {} /\ \A k \in DOMAIN kinds : kinds[k] = "key"

\* The init segment comes first, and those that wait have nothing else.
InitFirst ==
  NeedsInit =>
    \A c \in Clients :
      /\ got[c] # <<>> => got[c][1] = 0
      /\ c \in listeners => got[c] # <<>> /\ (c \in awaiting <=> Cut(got[c]) = <<>>)

\* m is a run of the first n pieces that begins on a keyframe fragment.
RunOf(m, n) ==
  m # <<>> =>
    /\ m[1] \in 1..n /\ kinds[m[1]] = "key"
    /\ \A i \in 1..Len(m) : m[i] = m[1] + i - 1
    /\ m[Len(m)] <= n

\* Everybody's media is such a run, and a listed client's is up to date.
Runs ==
  \A c \in Clients :
    /\ RunOf(Cut(got[c]), Published)
    /\ c \in listeners /\ Cut(got[c]) # <<>> => Cut(got[c])[Len(Cut(got[c]))] = Published

IInv ==
  /\ TypeOK /\ Newcomers /\ AnyPiece /\ InitFirst /\ Runs
  /\ drainer = "fan" => kinds # <<>>

-----------------------------------------------------------------------------
(* Type correctness. *)

LEMMA TypeInit == Init => TypeOK /\ Newcomers
<1> SUFFICES ASSUME Init PROVE TypeOK /\ Newcomers
  OBVIOUS
<1>1. PICK first \in Clients :
        client = [c \in Clients |-> IF c = first THEN "joining" ELSE "out"]
  BY DEF Init
<1>2. kinds \in Seq(Kinds) /\ Len(kinds) <= MaxPieces
  BY BoundAssumption DEF Init
<1>3. got \in [Clients -> Seq(Nat)] /\ \A c \in Clients : taken[c] <= Len(got[c])
  BY DEF Init
<1> QED  BY <1>1, <1>2, <1>3 DEF Init, TypeOK, Newcomers

LEMMA NewcomersStep ==
  ASSUME TypeOK, Newcomers, [Next]_vars
  PROVE  Newcomers'
<1> USE DEF Newcomers, TypeOK, scan, fans
<1>1. CASE ReadChunk \/ Break \/ NextPiece \/ Mark \/ Eof \/ Finish \/ Clear
  BY <1>1 DEF ReadChunk, Break, NextPiece, Mark, Eof, Finish, Clear
<1>2. CASE FanOut
  BY <1>2 DEF FanOut, Deliver, Receivers
<1>3. CASE Lapse \/ UNCHANGED vars
  BY <1>3 DEF Lapse, vars
<1>4. ASSUME NEW c \in Clients, ClientStep(c)
      PROVE  Newcomers'
  <2>1. CASE Come(c) \/ Admit(c) \/ TurnAway(c) \/ InitTimeout(c)
    BY <2>1 DEF Come, Admit, TurnAway, InitTimeout, Step
  <2>2. CASE Register(c) \/ Take(c)
    BY <2>2 DEF Register, Take, Step
  <2>3. CASE Leave(c) \/ SeeEnd(c)
    BY <2>3 DEF Leave, SeeEnd, Depart, Step
  <2> QED  BY <1>4, <2>1, <2>2, <2>3 DEF ClientStep
<1> QED  BY <1>1, <1>2, <1>3, <1>4 DEF Next, Drain

LEMMA TypeStep ==
  ASSUME TypeOK, Newcomers, [Next]_vars
  PROVE  TypeOK'
<1> USE BoundAssumption DEF TypeOK, scan, fans
<1>1. CASE ReadChunk
  BY <1>1 DEF ReadChunk
<1>2. CASE Break
  BY <1>2 DEF Break
<1>3. CASE NextPiece
  <2>1. PICK k \in NextKinds : kinds' = Append(kinds, k)
    BY <1>3 DEF NextPiece
  <2>2. k \in Kinds
    BY <2>1 DEF NextKinds, Kinds
  <2> QED  BY <1>3, <2>1, <2>2 DEF NextPiece
<1>4. CASE FanOut
  <2>1. PICK gone \in SUBSET Lagging(Receivers({"key"})) :
          Deliver(Receivers({"key"}) \ gone, gone)
    BY <1>4 DEF FanOut
  <2>2. got' \in [Clients -> Seq(Nat)] /\ \A c \in Clients : Len(got'[c]) >= Len(got[c])
    BY <2>1 DEF Deliver
  <2>3. \A c \in Clients : taken'[c] <= Len(got'[c])
    BY <2>1, <2>2 DEF Deliver
  <2>4. awaiting' \subseteq listeners' /\ listeners' \subseteq Clients
    BY <2>1 DEF Deliver
  <2> QED  BY <2>1, <2>2, <2>3, <2>4 DEF Deliver
<1>5. CASE Mark
  BY <1>5 DEF Mark, Marks
<1>6. CASE Eof \/ Finish \/ Clear
  BY <1>6 DEF Eof, Finish, Clear
<1>7. CASE Lapse
  BY <1>7 DEF Lapse
<1>8. ASSUME NEW c \in Clients, ClientStep(c)
      PROVE  TypeOK'
  <2>1. CASE Come(c) \/ Admit(c) \/ TurnAway(c) \/ InitTimeout(c)
    BY <2>1 DEF Come, Admit, TurnAway, InitTimeout, Step
  <2>2. CASE Register(c)
    <3>1. got' \in [Clients -> Seq(Nat)]
      BY <2>2 DEF Register
    <3>2. taken[c] = 0 /\ Len(got'[c]) >= 0 /\ \A x \in Clients : x # c => got'[x] = got[x]
      BY <2>2, <3>1 DEF Register, Newcomers
    <3>3. \A x \in Clients : taken'[x] <= Len(got'[x])
      BY <2>2, <3>2 DEF Register
    <3>4. awaiting' \subseteq listeners' /\ listeners' \subseteq Clients
      BY <2>2 DEF Register
    <3>5. client' \in [Clients -> {"out", "joining", "admitted", "streaming", "left", "refused"}]
      BY <2>2 DEF Register, Step
    <3> QED  BY <2>2, <3>1, <3>3, <3>4, <3>5 DEF Register
  <2>3. CASE Take(c)
    BY <2>3 DEF Take
  <2>4. CASE Leave(c) \/ SeeEnd(c)
    <3>1. parked' \in Nat
      BY <2>4 DEF Leave, SeeEnd, Depart
    <3>2. client' \in [Clients -> {"out", "joining", "admitted", "streaming", "left", "refused"}]
      BY <2>4 DEF Leave, SeeEnd, Depart, Step
    <3> QED  BY <2>4, <3>1, <3>2 DEF Leave, SeeEnd, Depart
  <2> QED  BY <1>8, <2>1, <2>2, <2>3, <2>4 DEF ClientStep
<1>9. CASE UNCHANGED vars
  BY <1>9 DEF vars
<1> QED  BY <1>1, <1>2, <1>3, <1>4, <1>5, <1>6, <1>7, <1>8, <1>9 DEF Next, Drain

\* Every variable keeps its type: somebody who waits for a fragment is listed,
\* and nobody has taken more than has been sent.
THEOREM TypeCorrect == Spec => []TypeOK
<1>1. Init => TypeOK /\ Newcomers  BY TypeInit
<1>2. TypeOK /\ Newcomers /\ [Next]_vars => TypeOK' /\ Newcomers'
  BY TypeStep, NewcomersStep
<1> QED  BY <1>1, <1>2, PTL DEF Spec

-----------------------------------------------------------------------------
(* The inductive invariant. *)

LEMMA InvInit == Init => IInv
<1> SUFFICES ASSUME Init PROVE IInv
  OBVIOUS
<1>1. TypeOK /\ Newcomers
  BY TypeInit
<1>2. AnyPiece /\ drainer # "fan"
  BY DEF Init, AnyPiece
<1>3. \A c \in Clients : got[c] = <<>> /\ Cut(got[c]) = <<>> /\ c \notin listeners
  BY CutEmpty DEF Init
<1>4. InitFirst
  BY <1>3 DEF InitFirst
<1>5. Runs
  BY <1>3 DEF Runs, RunOf
<1> QED  BY <1>1, <1>2, <1>4, <1>5 DEF IInv

\* A step that sends nothing and lists nobody.
LEMMA ShrinkStep ==
  ASSUME IInv, UNCHANGED <<kinds, got>>, Published' = Published,
         listeners' \subseteq listeners, awaiting' = awaiting \cap listeners'
  PROVE  AnyPiece' /\ InitFirst' /\ Runs'
<1>1. AnyPiece'
  BY DEF IInv, AnyPiece
<1>2. \A c \in Clients : Cut(got[c])' = Cut(got[c])
  BY DEF Cut
<1>3. InitFirst'
  BY <1>2 DEF IInv, InitFirst
<1>4. \A m, n : RunOf(m, n)' <=> RunOf(m', n')
  BY DEF RunOf
<1>5. Runs'
  BY <1>2 DEF IInv, Runs, RunOf
<1> QED  BY <1>1, <1>3, <1>5

LEMMA PieceStep ==
  ASSUME IInv, NextPiece
  PROVE  AnyPiece' /\ InitFirst' /\ Runs' /\ kinds' # <<>>
<1> USE DEF fans
<1>1. PICK k \in NextKinds : kinds' = Append(kinds, k)
  BY DEF NextPiece
<1>2. kinds \in Seq(Kinds) /\ k \in Kinds
  BY <1>1 DEF IInv, TypeOK, NextKinds, Kinds
<1>3. /\ Len(kinds') = Len(kinds) + 1 /\ kinds' # <<>>
      /\ \A i \in 1..Len(kinds) : kinds'[i] = kinds[i]
      /\ kinds'[Len(kinds) + 1] = k
  BY <1>1, <1>2
<1>4. Published = Len(kinds) /\ Published' = Len(kinds)
  BY <1>2, <1>3 DEF NextPiece, Published
<1>5. AnyPiece'
  <2> SUFFICES ASSUME ~NeedsInit PROVE awaiting' = {} /\ \A i \in DOMAIN kinds' : kinds'[i] = "key"
    BY DEF AnyPiece
  <2>1. k = "key"
    BY <1>1 DEF NextKinds
  <2>2. \A i \in 1..Len(kinds) : kinds[i] = "key"
    BY <1>2 DEF IInv, AnyPiece
  <2>3. DOMAIN kinds' = 1..(Len(kinds) + 1)
    BY <1>1, <1>2
  <2> QED  BY <1>2, <1>3, <2>1, <2>2, <2>3 DEF IInv, AnyPiece, NextPiece
<1>6. \A c \in Clients : Cut(got[c])' = Cut(got[c])
  BY DEF Cut, NextPiece
<1>7. InitFirst'
  BY <1>6 DEF IInv, InitFirst, NextPiece
<1>8. Runs'
  <2> SUFFICES ASSUME NEW c \in Clients
               PROVE  /\ RunOf(Cut(got[c]), Published)'
                      /\ (c \in listeners /\ Cut(got[c]) # <<>> =>
                           Cut(got[c])[Len(Cut(got[c]))] = Published)'
    BY DEF Runs
  <2>1. RunOf(Cut(got[c]), Len(kinds))
    BY <1>4 DEF IInv, Runs
  <2>2. RunOf(Cut(got[c]), Published)'
    BY <1>2, <1>3, <1>4, <1>6, <2>1 DEF RunOf
  <2> QED  BY <1>4, <1>6, <2>2 DEF IInv, Runs, NextPiece
<1> QED  BY <1>3, <1>5, <1>7, <1>8

\* A run that is up to date, or has not begun, is one still with the next piece.
LEMMA RunAppend ==
  ASSUME NEW m \in Seq(Nat), NEW n \in Nat, RunOf(m, n),
         m # <<>> => m[Len(m)] = n,
         m = <<>> => kinds[n + 1] = "key"
  PROVE  /\ RunOf(Append(m, n + 1), n + 1)
         /\ Append(m, n + 1) # <<>>
         /\ Append(m, n + 1)[Len(Append(m, n + 1))] = n + 1
<1>1. PICK a \in Seq(Nat) :
        /\ a = Append(m, n + 1) /\ a # <<>>
        /\ Len(a) = Len(m) + 1 /\ a[Len(m) + 1] = n + 1
        /\ \A i \in 1..Len(m) : a[i] = m[i]
  <2>1. Append(m, n + 1) \in Seq(Nat)
    OBVIOUS
  <2>2. /\ Len(Append(m, n + 1)) = Len(m) + 1 /\ Append(m, n + 1)[Len(m) + 1] = n + 1
        /\ \A i \in 1..Len(m) : Append(m, n + 1)[i] = m[i]
    OBVIOUS
  <2>3. Append(m, n + 1) # <<>>
    <3>1. Len(m) \in Nat /\ Len(<<>>) = 0
      OBVIOUS
    <3> QED  BY <2>2, <3>1
  <2> QED  BY <2>1, <2>2, <2>3
<1>2. Len(m) \in Nat /\ (m # <<>> => Len(m) >= 1)
  OBVIOUS
<1>3. RunOf(a, n + 1)
  <2>1. CASE m = <<>>
    <3>1. Len(a) = 1 /\ a[1] = n + 1
      BY <1>1, <2>1
    <3> QED  BY <3>1, <2>1 DEF RunOf
  <2>2. CASE m # <<>>
    <3>1. m[Len(m)] = m[1] + Len(m) - 1 /\ m[1] \in 1..n /\ kinds[m[1]] = "key"
      BY <1>2, <2>2 DEF RunOf
    <3>4. 1 \in 1..Len(m) /\ m[Len(m)] = n
      BY <1>2, <2>2
    <3>2. a[1] = m[1] /\ n + 1 = m[1] + Len(m)
      <4>1. a[1] = m[1]
        BY <1>1, <3>4
      <4>2. m[1] \in Nat /\ Len(m) \in Nat /\ n = m[1] + Len(m) - 1
        BY <1>2, <3>1, <3>4
      <4> QED  BY <4>1, <4>2
    <3>3. ASSUME NEW i \in 1..Len(a) PROVE a[i] = a[1] + i - 1
      <4>1. CASE i \in 1..Len(m)
        <5>1. a[i] = m[i] /\ m[i] = m[1] + i - 1
          BY <1>1, <2>2, <4>1 DEF RunOf
        <5> QED  BY <3>2, <5>1
      <4>2. CASE i = Len(m) + 1
        BY <1>1, <1>2, <3>1, <3>2, <4>2
      <4> QED  BY <1>1, <1>2, <4>1, <4>2
    <3>5. a[1] \in 1..(n + 1) /\ kinds[a[1]] = "key"
      BY <3>1, <3>2
    <3>6. a[Len(a)] <= n + 1
      BY <1>1
    <3> QED  BY <3>3, <3>5, <3>6 DEF RunOf
  <2> QED  BY <2>1, <2>2
<1> QED  BY <1>1, <1>3

\* A run stays one while pieces come.
LEMMA RunGrows ==
  ASSUME NEW m \in Seq(Nat), NEW n \in Nat, RunOf(m, n)
  PROVE  RunOf(m, n + 1)
<1>1. m # <<>> => m[Len(m)] \in Nat
  OBVIOUS
<1> QED  BY <1>1 DEF RunOf

LEMMA FanOutStep ==
  ASSUME IInv, FanOut
  PROVE  AnyPiece' /\ InitFirst' /\ Runs'
<1> USE DEF scan
<1>1. PICK gone \in SUBSET Lagging(Receivers({"key"})) :
        Deliver(Receivers({"key"}) \ gone, gone)
  BY DEF FanOut
<1> DEFINE to == Receivers({"key"}) \ gone
<1>2. kinds \in Seq(Kinds) /\ kinds # <<>> /\ got \in [Clients -> Seq(Nat)]
  BY DEF IInv, TypeOK, FanOut
<1>3. PICK n \in Nat : Len(kinds) = n + 1
  BY <1>2
<1>4. Published = n /\ Published' = n + 1
  BY <1>1, <1>3 DEF FanOut, Deliver, Published
<1>5. \A c \in Clients :
        IF c \in to THEN got'[c] = Append(got[c], n + 1) ELSE got'[c] = got[c]
  BY <1>1, <1>2, <1>3 DEF Deliver
<1>6. to \subseteq listeners /\ to \cap gone = {} /\ gone \subseteq listeners
  BY DEF Receivers, Lagging
<1>7. listeners' = listeners \ gone /\ awaiting' = awaiting \ (to \cup gone) /\ kinds' = kinds
  BY <1>1 DEF Deliver
<1>8. \A c \in Clients : Cut(got[c]) \in Seq(Nat)
  BY <1>2, CutTyped
<1>9. ASSUME NEW c \in to
      PROVE  /\ Cut(got[c])' = Append(Cut(got[c]), n + 1)
             /\ Cut(got[c]) = <<>> => kinds[n + 1] = "key"
  <2>1. c \in Clients /\ c \in listeners
    BY <1>6 DEF IInv, TypeOK
  <2>2. NeedsInit => got[c] # <<>>
    BY <2>1 DEF IInv, InitFirst
  <2>3. Cut(got'[c]) = Append(Cut(got[c]), n + 1)
    <3>1. got[c] \in Seq(Nat) /\ n + 1 \in Nat /\ got'[c] = Append(got[c], n + 1)
      BY <1>2, <1>5, <1>9, <2>1
    <3> QED  BY <2>2, <3>1, CutAppend
  <2>4. Cut(got[c])' = Cut(got'[c])
    BY DEF Cut
  <2>5. c \in awaiting => kinds[n + 1] = "key"
    BY <1>3 DEF Receivers
  <2>6. ~NeedsInit => kinds[n + 1] = "key"
    BY <1>2, <1>3 DEF IInv, AnyPiece
  <2> QED  BY <2>1, <2>3, <2>4, <2>5, <2>6 DEF IInv, InitFirst
<1>10. ASSUME NEW c \in Clients, c \notin to
       PROVE  /\ Cut(got[c])' = Cut(got[c])
              /\ c \in listeners' => Cut(got[c]) = <<>> /\ c \in awaiting
  <2>1. Cut(got[c])' = Cut(got[c])
    BY <1>5, <1>10 DEF Cut
  <2>2. c \in listeners' => c \in awaiting
    BY <1>7, <1>10 DEF Receivers
  <2> QED  BY <2>1, <2>2, <1>7 DEF IInv, InitFirst, AnyPiece
<1>11. AnyPiece'
  BY <1>7 DEF IInv, AnyPiece
<1>12. InitFirst'
  <2> SUFFICES ASSUME NeedsInit, NEW c \in Clients
               PROVE  /\ got'[c] # <<>> => got'[c][1] = 0
                      /\ c \in listeners' => got'[c] # <<>> /\ (c \in awaiting' <=> Cut(got[c])' = <<>>)
    BY DEF InitFirst, Cut
  <2>1. CASE c \in to
    <3>1. got[c] # <<>> /\ got[c][1] = 0 /\ got[c] \in Seq(Nat)
      BY <1>2, <1>6, <2>1 DEF IInv, InitFirst
    <3>2. got'[c] # <<>> /\ got'[c][1] = 0
      BY <1>5, <2>1, <3>1
    <3>3. Cut(got[c])' # <<>>
      BY <1>8, <1>9, <2>1
    <3> QED  BY <1>7, <2>1, <3>2, <3>3
  <2>2. CASE c \notin to
    BY <1>5, <1>7, <1>10, <2>2 DEF IInv, InitFirst
  <2> QED  BY <2>1, <2>2
<1>13. Runs'
  <2> SUFFICES ASSUME NEW c \in Clients
               PROVE  /\ RunOf(Cut(got[c])', n + 1)
                      /\ c \in listeners' /\ Cut(got[c])' # <<>> =>
                           Cut(got[c])'[Len(Cut(got[c])')] = n + 1
    BY <1>4, <1>7 DEF Runs, RunOf
  <2>1. /\ RunOf(Cut(got[c]), n)
        /\ c \in listeners /\ Cut(got[c]) # <<>> => Cut(got[c])[Len(Cut(got[c]))] = n
    BY <1>4 DEF IInv, Runs
  <2>2. CASE c \in to
    BY <1>6, <1>8, <1>9, <2>1, <2>2, RunAppend
  <2>3. CASE c \notin to
    <3>1. RunOf(Cut(got[c]), n + 1)
      BY <1>8, <2>1, RunGrows
    <3> QED  BY <1>10, <2>3, <3>1
  <2> QED  BY <2>2, <2>3
<1> QED  BY <1>11, <1>12, <1>13

LEMMA RegisterStep ==
  ASSUME IInv, NEW c \in Clients, Register(c)
  PROVE  AnyPiece' /\ InitFirst' /\ Runs' /\ Cut(got[c])' = <<>> /\ Published' = Published
<1> USE DEF scan
<1>1. /\ got \in [Clients -> Seq(Nat)] /\ awaiting \subseteq listeners
      /\ c \notin listeners /\ got[c] = <<>>
  BY DEF IInv, TypeOK, Newcomers, Register
<1>2. /\ got'[c] = IF NeedsInit THEN <<0>> ELSE <<>>
      /\ \A x \in Clients : x # c => got'[x] = got[x]
      /\ listeners' = listeners \cup {c}
      /\ awaiting' = IF NeedsInit THEN awaiting \cup {c} ELSE awaiting
      /\ kinds' = kinds /\ drainer' = drainer
  BY <1>1 DEF Register
<1>3. Published' = Published
  BY <1>2 DEF Published
<1>4. Cut(got[c])' = <<>>
  BY <1>2, CutEmpty DEF Cut
<1>5. \A x \in Clients : x # c => Cut(got[x])' = Cut(got[x])
  BY <1>2 DEF Cut
<1>6. AnyPiece'
  BY <1>2 DEF IInv, AnyPiece
<1>7. InitFirst'
  <2> SUFFICES ASSUME NeedsInit, NEW x \in Clients
               PROVE  /\ got'[x] # <<>> => got'[x][1] = 0
                      /\ x \in listeners' => got'[x] # <<>> /\ (x \in awaiting' <=> Cut(got[x])' = <<>>)
    BY DEF InitFirst, Cut
  <2>1. CASE x = c
    <3>1. got'[c] # <<>> /\ got'[c][1] = 0
      BY <1>2
    <3> QED  BY <1>2, <1>4, <2>1, <3>1
  <2>2. CASE x # c
    BY <1>2, <1>5, <2>2 DEF IInv, InitFirst
  <2> QED  BY <2>1, <2>2
<1>8. Runs'
  <2> SUFFICES ASSUME NEW x \in Clients
               PROVE  /\ RunOf(Cut(got[x])', Published)
                      /\ x \in listeners' /\ Cut(got[x])' # <<>> =>
                           Cut(got[x])'[Len(Cut(got[x])')] = Published
    BY <1>2, <1>3 DEF Runs, RunOf
  <2>1. CASE x = c
    BY <1>4, <2>1 DEF RunOf
  <2>2. CASE x # c
    BY <1>2, <1>5, <2>2 DEF IInv, Runs
  <2> QED  BY <2>1, <2>2
<1> QED  BY <1>3, <1>4, <1>6, <1>7, <1>8

\* A step that leaves the pieces, and who has been sent what, alone.
LEMMA QuietStep ==
  ASSUME IInv, UNCHANGED <<kinds, fans>>,
         drainer' = drainer \/ (drainer # "fan" /\ drainer' # "fan")
  PROVE  AnyPiece' /\ InitFirst' /\ Runs' /\ Published' = Published
<1>1. Published' = Published
  BY DEF Published
<1>2. listeners' \subseteq listeners /\ awaiting' = awaiting \cap listeners'
  BY DEF fans, IInv, TypeOK
<1> QED  BY <1>1, <1>2, ShrinkStep DEF fans

LEMMA LeaveStep ==
  ASSUME IInv, NEW c \in Clients, Leave(c) \/ SeeEnd(c)
  PROVE  AnyPiece' /\ InitFirst' /\ Runs' /\ Published' = Published
<1>1. UNCHANGED <<kinds, got>> /\ Published' = Published
  BY DEF Leave, SeeEnd, Depart, scan, Published
<1>2. listeners' \subseteq listeners /\ awaiting' = awaiting \cap listeners'
  BY DEF Leave, SeeEnd, Depart, IInv, TypeOK
<1> QED  BY <1>1, <1>2, ShrinkStep

LEMMA ClearStep ==
  ASSUME IInv, Clear
  PROVE  AnyPiece' /\ InitFirst' /\ Runs' /\ Published' = Published
<1>1. UNCHANGED <<kinds, got>> /\ Published' = Published
  BY DEF Clear, scan, Published
<1>2. listeners' \subseteq listeners /\ awaiting' = awaiting \cap listeners'
  BY DEF Clear
<1> QED  BY <1>1, <1>2, ShrinkStep

\* The drainer's steps that are quiet, and everybody else's.
LEMMA Quietness ==
  /\ ReadChunk \/ Break \/ Mark \/ Eof \/ Finish \/ Lapse \/ UNCHANGED vars =>
       UNCHANGED <<kinds, fans>> /\ (drainer' = drainer \/ (drainer # "fan" /\ drainer' # "fan"))
  /\ \A c \in Clients :
       Come(c) \/ Admit(c) \/ TurnAway(c) \/ InitTimeout(c) \/ Take(c) =>
         UNCHANGED <<kinds, fans, drainer>>
<1>1. ReadChunk \/ Break \/ Mark \/ Eof \/ Finish \/ Lapse \/ UNCHANGED vars =>
        UNCHANGED <<kinds, fans>> /\ (drainer' = drainer \/ (drainer # "fan" /\ drainer' # "fan"))
  BY DEF ReadChunk, Break, Mark, Eof, Finish, Lapse, vars, scan, fans
<1>2. ASSUME NEW c \in Clients,
             Come(c) \/ Admit(c) \/ TurnAway(c) \/ InitTimeout(c) \/ Take(c)
      PROVE  UNCHANGED <<kinds, fans, drainer>>
  BY <1>2 DEF Come, Admit, TurnAway, InitTimeout, Take, scan
<1> QED  BY <1>1, <1>2

LEMMA InvStep ==
  ASSUME IInv, [Next]_vars
  PROVE  IInv'
<1>1. TypeOK' /\ Newcomers'
  BY TypeStep, NewcomersStep DEF IInv
<1>2. AnyPiece' /\ InitFirst' /\ Runs'
  <2>1. CASE ReadChunk \/ Break \/ Mark \/ Eof \/ Finish \/ Lapse \/ UNCHANGED vars
    BY <2>1, Quietness, QuietStep
  <2>2. CASE NextPiece  BY <2>2, PieceStep
  <2>3. CASE FanOut  BY <2>3, FanOutStep
  <2>4. CASE Clear  BY <2>4, ClearStep
  <2>5. ASSUME NEW c \in Clients, ClientStep(c)
        PROVE  AnyPiece' /\ InitFirst' /\ Runs'
    <3>1. CASE Come(c) \/ Admit(c) \/ TurnAway(c) \/ InitTimeout(c) \/ Take(c)
      BY <3>1, Quietness, QuietStep
    <3>2. CASE Register(c)  BY <3>2, RegisterStep
    <3>3. CASE Leave(c) \/ SeeEnd(c)  BY <3>3, LeaveStep
    <3> QED  BY <2>5, <3>1, <3>2, <3>3 DEF ClientStep
  <2> QED  BY <2>1, <2>2, <2>3, <2>4, <2>5 DEF Next, Drain
<1>3. drainer' = "fan" => kinds' # <<>>
  <2>1. CASE NextPiece  BY <2>1, PieceStep
  <2>2. CASE FanOut \/ Clear  BY <2>2 DEF FanOut, Deliver, Clear
  <2>3. CASE ReadChunk \/ Break \/ Mark \/ Eof \/ Finish \/ Lapse \/ UNCHANGED vars
    BY <2>3, Quietness DEF IInv
  <2>4. ASSUME NEW c \in Clients, ClientStep(c)
        PROVE  drainer' = drainer /\ kinds' = kinds
    BY <2>4 DEF ClientStep, Come, Admit, TurnAway, InitTimeout, Take, Register, Leave,
                SeeEnd, Depart, scan
  <2> QED  BY <2>1, <2>2, <2>3, <2>4 DEF Next, Drain, IInv
<1> QED  BY <1>1, <1>2, <1>3 DEF IInv

LEMMA Invariance == Spec => []IInv
<1>1. Init => IInv  BY InvInit
<1>2. IInv /\ [Next]_vars => IInv'  BY InvStep
<1> QED  BY <1>1, <1>2, PTL DEF Spec

-----------------------------------------------------------------------------
(* What clients are sent. *)

LEMMA InvAligned == IInv => AlignedJoin
<1> SUFFICES ASSUME IInv, NeedsInit, NEW c \in Clients
             PROVE  /\ got[c] # <<>> => Head(got[c]) = 0
                    /\ Media(c) # <<>> => kinds[Head(Media(c))] = "key"
  BY DEF AlignedJoin
<1>1. got[c] \in Seq(Nat) /\ Media(c) = Cut(got[c]) /\ Cut(got[c]) \in Seq(Nat)
  BY CutTyped DEF IInv, TypeOK, Media, Cut
<1>2. \A s \in Seq(Nat) : s # <<>> => Head(s) = s[1]
  OBVIOUS
<1> QED  BY <1>1, <1>2 DEF IInv, InitFirst, Runs, RunOf

LEMMA InvWhole == IInv => NoHole
<1> SUFFICES ASSUME IInv, NEW c \in Clients
             PROVE  /\ \A i \in 1..(Len(Media(c)) - 1) : Media(c)[i + 1] = Media(c)[i] + 1
                    /\ c \in listeners /\ Media(c) # <<>> /\ drainer # "fan"
                         => Media(c)[Len(Media(c))] = Len(kinds)
  BY DEF NoHole
<1>1. Media(c) = Cut(got[c]) /\ Cut(got[c]) \in Seq(Nat)
  BY CutTyped DEF IInv, TypeOK, Media, Cut
<1>2. RunOf(Media(c), Published)
  BY <1>1 DEF IInv, Runs
<1>3. ASSUME NEW i \in 1..(Len(Media(c)) - 1)
      PROVE  Media(c)[i + 1] = Media(c)[i] + 1
  <2>1. /\ Len(Media(c)) \in Nat /\ Media(c) # <<>>
        /\ i \in 1..Len(Media(c)) /\ i + 1 \in 1..Len(Media(c)) /\ 1 \in 1..Len(Media(c))
    BY <1>1
  <2>2. Media(c)[1] \in Nat
    BY <1>1, <2>1
  <2>3. /\ Media(c)[i] = Media(c)[1] + i - 1
        /\ Media(c)[i + 1] = Media(c)[1] + (i + 1) - 1
    BY <1>2, <2>1 DEF RunOf
  <2> QED  BY <2>2, <2>3
<1>4. c \in listeners /\ Media(c) # <<>> /\ drainer # "fan"
        => Media(c)[Len(Media(c))] = Len(kinds)
  BY <1>1 DEF IInv, Runs, Published
<1> QED  BY <1>3, <1>4

\* However a client's joining interleaves with the drainer, it is sent the init
\* segment and then media from a keyframe fragment on (Encoder::subscribe); from
\* there on no piece is missing or repeated, and while it is listed it is up to
\* date (Encoder::fan_out).
THEOREM Unbroken == Spec => []Playable
<1>1. IInv => Playable  BY InvAligned, InvWhole DEF Playable
<1> QED  BY <1>1, Invariance, PTL

-----------------------------------------------------------------------------
(* Encoder implements Broadcast. *)

Log == SubSeq(kinds, 1, Published)
Sent == [c \in Clients |-> Media(c)]

LEMMA LogGrows ==
  ASSUME NEW S, NEW s \in Seq(S), NEW n \in Nat, Len(s) = n + 1
  PROVE  SubSeq(s, 1, n + 1) = Append(SubSeq(s, 1, n), s[n + 1])
OBVIOUS

LEMMA LogKept ==
  ASSUME NEW S, NEW s \in Seq(S), NEW x \in S
  PROVE  SubSeq(Append(s, x), 1, Len(s)) = SubSeq(s, 1, Len(s))
OBVIOUS

\* What media is does not change unless what was sent does.
LEMMA MediaKept ==
  ASSUME NEW c \in Clients, got'[c] = got[c]
  PROVE  Media(c)' = Media(c)
BY DEF Media

LEMMA BroadcastInit == Init => B!Init
<1> SUFFICES ASSUME Init PROVE B!Init
  OBVIOUS
<1>1. Log = <<>>
  BY DEF Init, Log, Published
<1>2. Sent = [c \in Clients |-> <<>>]
  BY DEF Init, Sent, Media
<1> QED  BY <1>1, <1>2 DEF Init, Log, Sent, B!Init

\* A step that sends nothing is a stutter, unless it lets clients go.
LEMMA BroadcastLetGo ==
  ASSUME IInv, UNCHANGED <<kinds, got>>, Published' = Published, listeners' \subseteq listeners
  PROVE  B!Next \/ UNCHANGED <<Log, listeners, Sent>>
<1>1. Log' = Log /\ Sent' = Sent
  BY DEF Log, Sent, Media
<1>2. listeners \ listeners' \in SUBSET listeners
      /\ listeners' = listeners \ (listeners \ listeners')
  OBVIOUS
<1>3. B!LetGo(listeners \ listeners')
  BY <1>1, <1>2 DEF B!LetGo, Log, Sent
<1> QED  BY <1>2, <1>3 DEF B!Next

LEMMA BroadcastPiece ==
  ASSUME IInv, NextPiece
  PROVE  UNCHANGED <<Log, listeners, Sent>>
<1>1. PICK k \in NextKinds : kinds' = Append(kinds, k)
  BY DEF NextPiece
<1>2. kinds \in Seq(Kinds) /\ k \in Kinds
  BY <1>1 DEF IInv, TypeOK, NextKinds, Kinds
<1>3. Published = Len(kinds) /\ Published' = Len(kinds)
  BY <1>1, <1>2 DEF NextPiece, Published
<1>4. Log' = Log
  BY <1>1, <1>2, <1>3, LogKept DEF Log
<1>5. Sent' = Sent
  BY DEF NextPiece, fans, Sent, Media
<1> QED  BY <1>4, <1>5 DEF NextPiece, fans

LEMMA BroadcastPublish ==
  ASSUME IInv, FanOut
  PROVE  B!Next
<1> USE DEF scan
<1>1. PICK gone \in SUBSET Lagging(Receivers({"key"})) :
        Deliver(Receivers({"key"}) \ gone, gone)
  BY DEF FanOut
<1> DEFINE to == Receivers({"key"}) \ gone
<1>2. kinds \in Seq(Kinds) /\ kinds # <<>> /\ got \in [Clients -> Seq(Nat)]
  BY DEF IInv, TypeOK, FanOut
<1>3. PICK n \in Nat : Len(kinds) = n + 1
  BY <1>2
<1>4. Published = n /\ Published' = n + 1 /\ kinds' = kinds
  BY <1>1, <1>3 DEF FanOut, Deliver, Published
<1>5. Log' = Append(Log, kinds[n + 1]) /\ Len(Log) = n /\ kinds[n + 1] \in Kinds
  BY <1>2, <1>3, <1>4, LogGrows DEF Log
<1>6. gone \in SUBSET listeners /\ listeners' = listeners \ gone
  BY <1>1 DEF Receivers, Lagging, Deliver
<1>7. ASSUME NEW c \in Clients
      PROVE  Media(c)' = IF c \in listeners \ gone /\ (kinds[n + 1] \in {"key"} \/ Media(c) # <<>>)
                         THEN Append(Media(c), n + 1) ELSE Media(c)
  <2>1. c \in to <=> c \in listeners \ gone /\ (kinds[n + 1] = "key" \/ Media(c) # <<>>)
    <3>1. c \in to <=> c \in listeners \ gone /\ (c \in awaiting => kinds[n + 1] = "key")
      BY <1>3 DEF Receivers
    <3>2. CASE NeedsInit
      BY <3>1, <3>2 DEF IInv, InitFirst, Cut, Media
    <3>3. CASE ~NeedsInit
      BY <1>2, <1>3, <3>1, <3>3 DEF IInv, AnyPiece
    <3> QED  BY <3>2, <3>3
  <2>2. CASE c \in to
    <3>1. got[c] \in Seq(Nat) /\ got'[c] = Append(got[c], n + 1)
      BY <1>1, <1>2, <1>3, <2>2 DEF Deliver
    <3>2. NeedsInit => got[c] # <<>>
      BY <2>1, <2>2 DEF IInv, InitFirst
    <3>3. Media(c)' = Cut(got'[c]) /\ Media(c) = Cut(got[c])
      BY DEF Media, Cut
    <3> n + 1 \in Nat
      OBVIOUS
    <3>4. Cut(Append(got[c], n + 1)) = Append(Cut(got[c]), n + 1)
      BY <3>1, <3>2, CutAppend
    <3>5. Media(c)' = Append(Media(c), n + 1)
      BY <3>1, <3>3, <3>4
    <3>6. c \in listeners \ gone /\ (kinds[n + 1] \in {"key"} \/ Media(c) # <<>>)
      BY <2>1, <2>2
    <3> QED  BY <3>5, <3>6
  <2>3. CASE c \notin to
    <3>1. got'[c] = got[c]
      BY <1>1, <2>3 DEF Deliver
    <3>2. Media(c)' = Media(c)
      BY <3>1, MediaKept
    <3>3. ~(c \in listeners \ gone /\ (kinds[n + 1] \in {"key"} \/ Media(c) # <<>>))
      BY <2>1, <2>3
    <3> QED  BY <3>2, <3>3
  <2> QED  BY <2>2, <2>3
<1>8. B!Publish(kinds[n + 1], gone)
  BY <1>5, <1>6, <1>7 DEF B!Publish, Log
<1> QED  BY <1>5, <1>6, <1>8 DEF B!Next

LEMMA BroadcastJoin ==
  ASSUME IInv, NEW c \in Clients, Register(c)
  PROVE  B!Next
<1>1. Cut(got[c])' = <<>> /\ Published' = Published /\ got[c] = <<>> /\ c \notin listeners
  BY RegisterStep DEF IInv, Newcomers, Register
<1>2. Media(c) = <<>> /\ Media(c)' = <<>>
  BY <1>1, CutEmpty DEF Media, Cut
<1>3. \A x \in Clients : Media(x)' = Media(x)
  <2> SUFFICES ASSUME NEW x \in Clients, x # c PROVE Media(x)' = Media(x)
    BY <1>2
  <2>1. got'[x] = got[x]
    BY DEF Register, IInv, TypeOK
  <2> QED  BY <2>1, MediaKept
<1>4. Log' = Log /\ listeners' = listeners \cup {c}
  BY <1>1 DEF Log, Register, scan
<1>5. B!Join(c)
  BY <1>1, <1>2, <1>3, <1>4 DEF B!Join, Log
<1> QED  BY <1>5 DEF B!Next

LEMMA BroadcastStep ==
  ASSUME IInv, [Next]_vars
  PROVE  B!Next \/ UNCHANGED <<Log, listeners, Sent>>
<1>1. CASE ReadChunk \/ Break \/ Mark \/ Eof \/ Finish \/ Lapse \/ UNCHANGED vars
  BY <1>1, Quietness, QuietStep, BroadcastLetGo DEF fans
<1>2. CASE NextPiece  BY <1>2, BroadcastPiece
<1>3. CASE FanOut  BY <1>3, BroadcastPublish
<1>4. CASE Clear  BY <1>4, ClearStep, BroadcastLetGo DEF Clear, scan
<1>5. ASSUME NEW c \in Clients, ClientStep(c)
      PROVE  B!Next \/ UNCHANGED <<Log, listeners, Sent>>
  <2>1. CASE Come(c) \/ Admit(c) \/ TurnAway(c) \/ InitTimeout(c) \/ Take(c)
    BY <2>1, Quietness, QuietStep, BroadcastLetGo DEF fans
  <2>2. CASE Register(c)  BY <2>2, BroadcastJoin
  <2>3. CASE Leave(c) \/ SeeEnd(c)
    BY <2>3, LeaveStep, BroadcastLetGo DEF Leave, SeeEnd, Depart, scan
  <2> QED  BY <1>5, <2>1, <2>2, <2>3 DEF ClientStep
<1> QED  BY <1>1, <1>2, <1>3, <1>4, <1>5 DEF Next, Drain

\* An encoder is a Broadcast, whatever its drainer, joiners, listeners, evictions
\* and failures do.
THEOREM Implements == Spec => Broadcasts
<1>1. Init => B!Init  BY BroadcastInit
<1>2. IInv /\ [Next]_vars => [B!Next]_<<Log, listeners, Sent>>
  BY BroadcastStep
<1> QED  BY <1>1, <1>2, Invariance, PTL DEF Spec, Broadcasts, B!Spec, Log, Sent

-----------------------------------------------------------------------------
(* Broadcast: what it promises a client, whatever broadcasts. *)

CONSTANTS Followers, Sorts, Safe    \* Broadcast's Clients, Kinds and Points

VARIABLES said, followers, told    \* its log, members and sent

Any == INSTANCE Broadcast WITH
         Clients <- Followers, Kinds <- Sorts, Points <- Safe,
         log <- said, members <- followers, sent <- told

BroadcastTyped ==
  /\ said \in Seq(Sorts)
  /\ followers \subseteq Followers
  /\ told \in [Followers -> Seq(Nat)]

BroadcastInv == BroadcastTyped /\ Any!Whole

\* What Whole says of one client, of its pieces, the kinds published and whether
\* it is a member.
WholeFor(s, ks, member) ==
  s # <<>> =>
    /\ s[1] \in DOMAIN ks /\ ks[s[1]] \in Safe
    /\ \A i \in DOMAIN s : s[i] = s[1] + i - 1
    /\ member => s[Len(s)] = Len(ks)

LEMMA WholeIs == Any!Whole <=> \A c \in Followers : WholeFor(told[c], said, c \in followers)
BY DEF Any!Whole, WholeFor

\* A piece more: for who follows, who begins, and who is let go or waits on.
LEMMA OneMore ==
  ASSUME NEW ks \in Seq(Sorts), NEW kind \in Sorts, NEW s \in Seq(Nat),
         NEW member, member \in BOOLEAN, WholeFor(s, ks, member)
  PROVE  /\ WholeFor(s, Append(ks, kind), FALSE)
         /\ member /\ (kind \in Safe \/ s # <<>>) =>
              WholeFor(Append(s, Len(ks) + 1), Append(ks, kind), TRUE)
<1> DEFINE more == Append(ks, kind)
           t == Append(s, Len(ks) + 1)
<1>1. /\ Len(more) = Len(ks) + 1 /\ Len(ks) \in Nat
      /\ more[Len(ks) + 1] = kind
      /\ \A i \in DOMAIN ks : i \in DOMAIN more /\ more[i] = ks[i]
  OBVIOUS
<1>2. WholeFor(s, more, FALSE)
  BY <1>1 DEF WholeFor
<1>3. ASSUME member, kind \in Safe \/ s # <<>>
      PROVE  WholeFor(t, more, TRUE)
  <2>1. /\ Len(t) = Len(s) + 1 /\ t[Len(t)] = Len(ks) + 1 /\ Len(s) \in Nat
        /\ \A i \in DOMAIN s : t[i] = s[i]
        /\ DOMAIN t = 1..(Len(s) + 1) /\ DOMAIN s = 1..Len(s)
    OBVIOUS
  <2>2. CASE s = <<>>
    <3>1. Len(s) = 0 /\ t[1] = Len(ks) + 1 /\ DOMAIN t = {1}
      BY <2>1, <2>2
    <3> QED  BY <1>1, <1>3, <2>1, <2>2, <3>1 DEF WholeFor
  <2>3. CASE s # <<>>
    <3>1. /\ s[1] \in DOMAIN ks /\ ks[s[1]] \in Safe
          /\ \A i \in DOMAIN s : s[i] = s[1] + i - 1
          /\ s[Len(s)] = Len(ks)
      BY <1>3, <2>3 DEF WholeFor
    <3>2. Len(s) >= 1 /\ t[1] = s[1] /\ s[1] \in Nat
      BY <2>1, <2>3
    <3>3. Len(ks) = s[1] + Len(s) - 1
      BY <2>1, <3>1, <3>2
    <3>4. \A i \in DOMAIN t : t[i] = t[1] + i - 1
      <4> TAKE i \in DOMAIN t
      <4>1. CASE i \in DOMAIN s
        BY <2>1, <3>1, <3>2, <4>1
      <4>2. CASE i = Len(s) + 1
        BY <2>1, <3>2, <3>3, <4>2
      <4> QED  BY <2>1, <4>1, <4>2
    <3> QED  BY <1>1, <2>1, <3>1, <3>2, <3>4 DEF WholeFor
  <2> QED  BY <2>2, <2>3
<1> QED  BY <1>2, <1>3

LEMMA PublishKeeps ==
  ASSUME BroadcastInv, NEW kind \in Sorts, NEW gone \in SUBSET followers, Any!Publish(kind, gone)
  PROVE  BroadcastInv'
<1>1. said \in Seq(Sorts) /\ followers \subseteq Followers /\ told \in [Followers -> Seq(Nat)]
  BY DEF BroadcastInv, BroadcastTyped
<1>2. Len(said) + 1 \in Nat
  BY <1>1
<1>3. BroadcastTyped'
  BY <1>1, <1>2 DEF Any!Publish, BroadcastTyped
<1>4. ASSUME NEW c \in Followers
      PROVE  WholeFor(told[c], said, c \in followers)'
  <2> DEFINE member == c \in followers
  <2>1. member \in BOOLEAN /\ told[c] \in Seq(Nat) /\ WholeFor(told[c], said, member)
    BY <1>1, WholeIs DEF BroadcastInv
  <2>2. said' = Append(said, kind) /\ followers' = followers \ gone
    BY DEF Any!Publish
  <2>3. CASE c \in followers \ gone /\ (kind \in Safe \/ told[c] # <<>>)
    <3>1. told'[c] = Append(told[c], Len(said) + 1)
      BY <2>3 DEF Any!Publish
    <3>2. WholeFor(Append(told[c], Len(said) + 1), Append(said, kind), TRUE)
      BY <1>1, <2>1, <2>3, OneMore
    <3>3. (c \in followers') = TRUE
      BY <2>2, <2>3
    <3> QED  BY <2>2, <3>1, <3>2, <3>3
  <2>4. CASE ~(c \in followers \ gone /\ (kind \in Safe \/ told[c] # <<>>))
    <3>1. told'[c] = told[c]
      BY <2>4 DEF Any!Publish
    <3>2. WholeFor(told[c], Append(said, kind), FALSE)
      BY <1>1, <2>1, OneMore
    <3>3. told[c] # <<>> => (c \in followers') = FALSE
      BY <2>2, <2>4
    <3> QED  BY <2>2, <3>1, <3>2, <3>3 DEF WholeFor
  <2> QED  BY <2>3, <2>4
<1>5. Any!Whole'
  BY <1>4 DEF Any!Whole, WholeFor
<1> QED  BY <1>3, <1>5 DEF BroadcastInv

LEMMA BroadcastStepKeeps ==
  ASSUME BroadcastInv, [Any!Next]_<<said, followers, told>>
  PROVE  BroadcastInv'
<1>1. ASSUME NEW c \in Followers, Any!Join(c) PROVE BroadcastInv'
  BY <1>1 DEF BroadcastInv, BroadcastTyped, Any!Whole, Any!Join
<1>2. ASSUME NEW gone \in SUBSET followers, Any!LetGo(gone) PROVE BroadcastInv'
  BY <1>2 DEF BroadcastInv, BroadcastTyped, Any!Whole, Any!LetGo
<1>3. CASE UNCHANGED <<said, followers, told>>
  BY <1>3 DEF BroadcastInv, BroadcastTyped, Any!Whole
<1> QED  BY <1>1, <1>2, <1>3, PublishKeeps DEF Any!Next

\* Every client of a broadcast is sent pieces from a point on, without a gap, and
\* a member that is under way has them all: the promise of Encoder::subscribe and
\* fan_out, whatever waits, evicts or ends.
THEOREM Promise == Any!Spec => []Any!Whole
<1>1. Any!Init => BroadcastInv
  BY DEF Any!Init, BroadcastInv, BroadcastTyped, Any!Whole
<1>2. BroadcastInv /\ [Any!Next]_<<said, followers, told>> => BroadcastInv'
  BY BroadcastStepKeeps
<1>3. BroadcastInv => Any!Whole
  BY DEF BroadcastInv
<1> QED  BY <1>1, <1>2, <1>3, PTL DEF Any!Spec
=============================================================================
